---------------------------- MODULE MCCustomDomains ----------------------------
(* Instances of CustomDomains for TLC. *)
EXTENDS CustomDomains, TLC

CONSTANTS t1, t2, n1, n2, i1, i2, i3, r1, r2

Symmetry ==
  Permutations(Tenants) \cup Permutations(Names) \cup Permutations(Ids)
    \cup Permutations(Requests)
===============================================================================
