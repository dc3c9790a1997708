-------------------------- MODULE MCAttendanceIngest --------------------------
(* Instances of AttendanceIngest for TLC. *)
EXTENDS AttendanceIngest, TLC

CONSTANTS t1, t2, p1, p2, h1, h2

\* Terminals, PINs and handlers are interchangeable.
Symmetry == Permutations(Terminals) \cup Permutations(Pins) \cup Permutations(Handlers)
===============================================================================
