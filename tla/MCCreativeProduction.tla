------------------------ MODULE MCCreativeProduction ------------------------
(* CreativeProduction for TLC: attempts may be placed in any slot. *)
EXTENDS CreativeProduction, TLC

Symmetry == Permutations(Slots)

=============================================================================
