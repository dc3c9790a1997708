---------------------------- MODULE MCDeviceClaim ----------------------------
(* Instances of DeviceClaim for TLC. *)
EXTENDS DeviceClaim, TLC

CONSTANTS t1, t2, s1, s2, h1, h2

OneEach == [t \in Tenants |-> 1]

\* Serial numbers and gateway handlers are interchangeable.
Symmetry == Permutations(Serials) \cup Permutations(Handlers)
===============================================================================
