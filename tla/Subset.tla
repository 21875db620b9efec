------------------------------- MODULE Subset -------------------------------
(***************************************************************************)
(* --lb-subset-size and --lb-subset-policy: which backends a balancer may  *)
(* use (src/src/subset.rs), and what centralized and jbsq make of it: one  *)
(* balancer per subset, and a server that pulls from the balancer of its   *)
(* subset (src/src/lb_simulate.rs, microservice/simulate.rs, policy.rs).   *)
(*                                                                         *)
(* Backends are 0 .. n-1.  shuffled[round] is the order that StdRng, with  *)
(* the round for a seed, puts them in: any permutation.  The order inside  *)
(* a subset is left out.                                                   *)
(***************************************************************************)
EXTENDS Integers, FiniteSets, FiniteSetsExt, Functions

Backends(n) == 0 .. n - 1

(* rng.shuffle of the backends *)
Orders(n) == Bijection(Backends(n), Backends(n))

(* subset_size_k: 0 stands for all of them. *)
SubsetSizeK(n, size) ==
  IF size = 0 THEN n ELSE IF size < n THEN size ELSE n

(* n_lbs, subset_count: leftover backends belong to no subset. *)
SubsetCount(n, size) == n \div SubsetSizeK(n, size)

(* Seeded bug: the subsets of a round start one backend apart. *)
DeterministicSubsetOverlapping(n, client, k, shuffled) ==
  IF k >= n THEN Backends(n)
  ELSE LET count == n \div k
           start == client % count
       IN {shuffled[client \div count][i] : i \in start .. start + k - 1}

(* deterministic_subset: clients of one round get consecutive slices. *)
DeterministicSubset(n, client, k, shuffled) ==
  IF k >= n THEN Backends(n)
  ELSE LET count == n \div k
           start == (client % count) * k
       IN {shuffled[client \div count][i] : i \in start .. start + k - 1}

(* assign_subset of the deterministic policy *)
AssignSubset(n, client, size, shuffled) ==
  DeterministicSubset(n, client, SubsetSizeK(n, size), shuffled)

(* random_subset, assign_subset of the random policy: any k backends *)
RandomSubsets(n, size) ==
  {S \in SUBSET Backends(n) : Cardinality(S) = SubsetSizeK(n, size)}

(* validate_centralized_subset: the subsets partition servers and clients. *)
ValidCentralizedSubset(n, clients, size) ==
  size # 0 => /\ n % SubsetSizeK(n, size) = 0
              /\ clients % SubsetCount(n, size) = 0

(***************************************************************************)
(* server_to_lb of run_centralized_simulation, `owned` of run_inner: the   *)
(* last balancer whose subset has the server; 0 if there is none.          *)
(***************************************************************************)
ServerToLb(n, size, shuffled) ==
  [s \in Backends(n) |->
     LET owners == {l \in 0 .. SubsetCount(n, size) - 1 :
                      s \in AssignSubset(n, l, size, shuffled)}
     IN IF owners = {} THEN 0 ELSE Max(owners)]

(* lb_id of a client, of a caller's gateway *)
ClientToLb(client, n, size) == client % SubsetCount(n, size)
=============================================================================
