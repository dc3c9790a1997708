---------------------------- MODULE MCCommandQueue ----------------------------
(* Instances of CommandQueue for TLC. *)
EXTENDS CommandQueue, TLC

CONSTANTS e1, e2, d1, d2, r1, r2

\* Employees and enqueue requests are interchangeable, and so are devices.
Symmetry == Permutations(Employees) \cup Permutations(Devices) \cup Permutations(Requests)
===============================================================================
