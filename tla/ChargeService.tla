---------------------------- MODULE ChargeService ----------------------------
(***************************************************************************)
(* What a charger promises: it charges at most one slot, and goes from one *)
(* slot to another only through having stopped.                            *)
(***************************************************************************)
CONSTANTS Slots, Nobody
VARIABLE charging

Init == charging = Nobody

Begin(c) == charging = Nobody /\ charging' = c
Stop     == charging # Nobody /\ charging' = Nobody

Next == Stop \/ \E c \in Slots : Begin(c)
Spec == Init /\ [][Next]_charging
=============================================================================
