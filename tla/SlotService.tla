---------------------------- MODULE SlotService ----------------------------
(***************************************************************************)
(* What the battery service promises of the slots of the station, whatever *)
(* happens on the CAN bus: a slot is off, being assigned or on; a pack is  *)
(* assigned at most in one slot at a time, a new assignment taking over    *)
(* from the one under way; and only a slot being assigned comes on.        *)
(***************************************************************************)
CONSTANT Slots
VARIABLE view

Init == view = [b \in Slots |-> "off"]

Begin(b) ==
  /\ view[b] = "off"
  /\ view' = [c \in Slots |-> IF c = b THEN "assigning"
                              ELSE IF view[c] = "assigning" THEN "off" ELSE view[c]]

Connect(b) == view[b] = "assigning" /\ view' = [view EXCEPT ![b] = "on"]
Leave(b)   == view[b] # "off" /\ view' = [view EXCEPT ![b] = "off"]

Next == \E b \in Slots : Begin(b) \/ Connect(b) \/ Leave(b)
Spec == Init /\ [][Next]_view

(* The CAN frames of an assignment name no slot, so no two may be under way.*)
OneAtATime == \A b, c \in Slots : view[b] = "assigning" /\ view[c] = "assigning" => b = c
=============================================================================
