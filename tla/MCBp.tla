-------------------------------- MODULE MCBp --------------------------------
EXTENDS BpManagement, TLC

Symmetry == Permutations(Pack) \cup Permutations(Device)
=============================================================================
