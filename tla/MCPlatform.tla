------------------------------ MODULE MCPlatform ------------------------------
(* An instance of Platform for TLC. *)
EXTENDS Platform, TLC

CONSTANTS u1, u2, t1, t2

OwnerOfEach == (t1 :> u1) @@ (t2 :> u2)
Symmetry == Permutations(Requests)
==============================================================================
