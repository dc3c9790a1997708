------------------------------ MODULE MCWorkforce ------------------------------
(* An instance of Workforce for TLC. *)
EXTENDS Workforce, TLC

Symmetry ==
  Permutations(Ids) \cup Permutations(Pushes) \cup Permutations(Odoos) \cup Permutations(Pins)
==============================================================================
