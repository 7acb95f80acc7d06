----------------------------- MODULE CabChoice -----------------------------
(***************************************************************************)
(* How findCabToCharge chooses among the cabinets of a charger: one loop   *)
(* over m_cabIds, in the order of their numbers.  Which cabinets may be    *)
(* charged at all (ENABLE, not force-discharged, with a pack, cool enough) *)
(* is decided in the loop too, by data that is arbitrary here.             *)
(***************************************************************************)
EXTENDS Integers

CONSTANTS CabNumber,  \* the cabinets are 0 .. CabNumber - 1
          VolMax      \* the highest voltage of a pack

ASSUME ChoiceAssumption == CabNumber \in Nat /\ VolMax \in Nat

Numbers == 0 .. CabNumber - 1
NoCab == -1

VARIABLES
  fit,   \* the cabinets that may be charged
  volt,  \* the voltage of every pack (0: not read yet)
  next,  \* the cabinet of this turn
  cab,   \* the best one so far
  vol    \* its voltage

searchVars == <<fit, volt, next, cab, vol>>

SearchInit ==
  /\ fit \in SUBSET Numbers
  /\ volt \in [Numbers -> 0 .. VolMax]
  /\ next = 0 /\ cab = NoCab /\ vol = 0

(* (Variant: the last of equals is taken.)                                  *)
BetterOrEqual(c) == vol <= volt[c]
Better(c) == vol < volt[c]

Look ==
  /\ next < CabNumber /\ next' = next + 1
  /\ IF next \in fit /\ Better(next) THEN cab' = next /\ vol' = volt[next]
                                     ELSE UNCHANGED <<cab, vol>>
  /\ UNCHANGED <<fit, volt>>

(* The next call of process() looks again, at other packs.                  *)
Again ==
  /\ next = CabNumber
  /\ fit' \in SUBSET Numbers /\ volt' \in [Numbers -> 0 .. VolMax]
  /\ next' = 0 /\ cab' = NoCab /\ vol' = 0

SearchNext == Look \/ Again
SearchSpec == SearchInit /\ [][SearchNext]_searchVars
-----------------------------------------------------------------------------
Done == next = CabNumber
Usable == {c \in fit : volt[c] > 0}

(* What the loop returns: no cabinet exactly when none is usable, else the  *)
(* first of the cabinets with the highest voltage.  A pack whose voltage    *)
(* has not been read is never chosen (the condition "cab >= 0 && vol").     *)
ChoiceCorrect ==
  Done => IF Usable = {} THEN cab = NoCab
          ELSE /\ cab \in Usable
               /\ \A c \in Usable : volt[c] < volt[cab] \/ (volt[c] = volt[cab] /\ cab <= c)

(* "Choose the BP have a Voltage that is smallest."                         *)
LowestFirst == Done /\ cab # NoCab => \A c \in Usable : volt[cab] <= volt[c]
=============================================================================
