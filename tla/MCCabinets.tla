----------------------------- MODULE MCCabinets -----------------------------
(* Two cabinets for TLC. *)
EXTENDS Cabinets, TLC

CONSTANTS c1, c2
TwoCabs == {c1, c2}
Symmetry == Permutations(TwoCabs)
=============================================================================
