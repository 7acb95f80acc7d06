---------------------------- MODULE MCSyncCycle ----------------------------
(* SyncCycle on a small instance: every kind of transfer, a short cycle.     *)
EXTENDS SyncCycle, TLC
=============================================================================
