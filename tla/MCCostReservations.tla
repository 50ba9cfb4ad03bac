-------------------------- MODULE MCCostReservations --------------------------
(***************************************************************************)
(* CostReservations on a small budget.  Three keys let one reservation     *)
(* settle while a second is being made against a third; the limit is less  *)
(* than the sum of two large estimates and more than of two small ones.    *)
(***************************************************************************)
EXTENDS CostReservations, FiniteSets, Functions, TLC

MCSumOf(f) == FoldFunction(+, 0, f)

Symmetry == Permutations(Keys) \cup Permutations(Clients)
=============================================================================
