---------------------------- MODULE MCUpgrade ----------------------------
(* Upgrade on a small instance: requests for two slots.                      *)
EXTENDS Upgrade, TLC

CONSTANTS r1, r2, s1, s2

SlotOfRequest == (r1 :> s1) @@ (r2 :> s2)
==========================================================================
