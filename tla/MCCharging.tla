----------------------------- MODULE MCCharging -----------------------------
(* Charging on a small instance.  ChargerManager leaves open which of the    *)
(* cabinets that can be charged its search finds, CabChoice says which: a    *)
(* behaviour is one of the manager or one of the search, the other rests.    *)
EXTENDS ChargerManager, CabChoice

VARIABLE part  \* which of the two a behaviour is of

ChargingInit ==
  /\ part \in {"manager", "search"}
  /\ Init /\ SearchInit
  /\ part = "manager" => fit = {} /\ \A c \in Numbers : volt[c] = 0
  /\ part = "search" => \A c \in Cabs : ~have[c]

ChargingNext ==
  \/ part = "manager" /\ Next /\ UNCHANGED <<part, searchVars>>
  \/ part = "search" /\ SearchNext /\ UNCHANGED <<part, vars>>

ChargingSpec == ChargingInit /\ [][ChargingNext]_<<part, vars, searchVars>> /\ Fairness
=============================================================================
