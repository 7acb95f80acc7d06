------------------------------- MODULE MCSdo -------------------------------
(* SdoTransfer on a small instance. *)
EXTENDS SdoTransfer, TLC

DataSymmetry == Permutations(Data)
=============================================================================
