------------------------ MODULE MCGovernedPublication ------------------------
(***************************************************************************)
(* GovernedPublication for TLC: the sets are model values in the .cfg      *)
(* files.  Attempt slots are interchangeable, and so are the firings of a  *)
(* schedule, which symmetry uses in the runs that check safety only.       *)
(***************************************************************************)
EXTENDS GovernedPublication, TLC

Symmetry == Permutations(Slots) \cup Permutations(Firings)
=============================================================================
