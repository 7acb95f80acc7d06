----------------------------- MODULE MCCharger -----------------------------
EXTENDS ChargerManager, TLC

Symmetry == Permutations(Cabs)
=============================================================================
