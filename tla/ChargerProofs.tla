--------------------------- MODULE ChargerProofs ---------------------------
(***************************************************************************)
(* Proofs about ChargerManager and CabChoice, for every set of cabinets    *)
(* and all bounds.                                                         *)
(***************************************************************************)
EXTENDS ChargerManager, CabChoice, TLAPS

AnyCab == Cabs \cup {None}
Cmds  == {"CHARGING", "DISCHARGING"}

(* The inductive invariant.  m_cabCharging is -1 only after chargerReset,   *)
(* whose last step runs in the station's thread when m_cmdWait is false;    *)
(* only that thread changes m_state, so what it has seen of it stays true   *)
(* where it stands.                                                         *)
Placed ==
  /\ ChosenIsValid
  /\ api # None => api \in Started /\ api.cab \in Cabs
  /\ pc = "switched" => call \in Started /\ (call.cab # None => charger.cab \in Cabs)
  /\ pc = "reset" => ~charger.wait
  /\ pc = "watch" => charger.state = "CHARGED"
  /\ pc \in {"find", "forced", "found"} => charger.state = "DISCHARGED"
  /\ pc = "found" => call \in Started /\ call.cab \in Cabs
  /\ calls <= CallMax /\ (calls = 0 => api = None)

ChargerInv == TypeOK /\ Placed
-----------------------------------------------------------------------------
(* What the updates of a ChargerItem do to its fields.                      *)
LEMMA ItemFields ==
  \A r \in Item :
    /\ r.state \in {"DISCHARGED", "CHARGED"} /\ r.cab \in AnyCab
    /\ r.cmd \in {"NONE"} \cup Cmds /\ r.wait \in BOOLEAN /\ r.success \in {-1, 0, 1}
    /\ r.retry \in 0 .. RetryNumber - 1 /\ r.chargeForce \in AnyCab /\ r.dischargeForce \in AnyCab
BY DEF Item, AnyCab, Cmds

LEMMA ChargeForceUpdate ==
  \A r \in Item : \A c \in AnyCab :
    LET s == [r EXCEPT !.chargeForce = c] IN
      /\ s \in Item
      /\ s.state = r.state /\ s.cab = r.cab /\ s.cmd = r.cmd /\ s.wait = r.wait
      /\ s.success = r.success
BY DEF Item, AnyCab

LEMMA RetryUpdate ==
  \A r \in Item : \A n \in 0 .. RetryNumber - 1 :
    LET s == [r EXCEPT !.retry = n] IN
      /\ s \in Item
      /\ s.state = r.state /\ s.cab = r.cab /\ s.cmd = r.cmd /\ s.wait = r.wait
      /\ s.success = r.success
BY DEF Item

LEMMA StartUpdate ==
  \A r \in Item, c \in AnyCab, k \in Cmds :
    LET s == StartCmd(r, c, k) IN
      /\ s \in Item
      /\ s.state = r.state /\ s.cab = c /\ s.cmd = k /\ s.wait = FALSE /\ s.success = -1
<1> TAKE r \in Item, c \in AnyCab, k \in Cmds
<1> DEFINE s == [r EXCEPT !.cab = c, !.cmd = k, !.wait = FALSE, !.success = -1]
<1>1. s \in Item
  BY DEF Item, AnyCab, Cmds
<1>2. s.state = r.state /\ s.cab = c /\ s.cmd = k /\ s.wait = FALSE /\ s.success = -1
  BY DEF Item
<1> QED BY <1>1, <1>2 DEF StartCmd

LEMMA StopUpdate ==
  \A r \in Item :
    /\ Stop(r) \in Item
    /\ Stop(r).state = r.state /\ Stop(r).cab = r.cab /\ Stop(r).cmd = "DISCHARGING"
    /\ ~Stop(r).wait /\ Stop(r).success = -1
BY StartUpdate, ItemFields DEF Stop, Cmds

LEMMA ResetUpdate ==
  \A r \in Item :
    /\ CmdReset(r) \in Item
    /\ CmdReset(r).state = r.state /\ CmdReset(r).cab = r.cab /\ CmdReset(r).cmd = "NONE"
    /\ ~CmdReset(r).wait /\ CmdReset(r).success = -1
    /\ CmdReset(r).chargeForce = r.chargeForce
BY DEF Item, CmdReset

LEMMA ClearUpdate ==
  \A r \in Item :
    /\ Cleared(r) \in Item
    /\ Cleared(r).state = "DISCHARGED" /\ Cleared(r).cab = None /\ Cleared(r).cmd = r.cmd
    /\ Cleared(r).wait = r.wait /\ Cleared(r).success = r.success
BY DEF Item, Cleared

LEMMA WaitUpdate ==
  \A r \in Item :
    LET s == [r EXCEPT !.wait = TRUE, !.success = -1] IN
      s \in Item /\ s.state = r.state /\ s.cab = r.cab /\ s.cmd = r.cmd /\ s.wait /\ s.success = -1
BY DEF Item

LEMMA SuccessUpdate ==
  \A r \in Item : \A n \in {-1, 0, 1} :
    LET s == [r EXCEPT !.success = n] IN
      s \in Item /\ s.state = r.state /\ s.cab = r.cab /\ s.cmd = r.cmd /\ s.wait = r.wait
      /\ s.success = n
BY DEF Item

LEMMA UnwaitUpdate ==
  \A r \in Item :
    LET s == [r EXCEPT !.wait = FALSE] IN
      s \in Item /\ s.state = r.state /\ s.cab = r.cab /\ s.cmd = r.cmd /\ ~s.wait
BY DEF Item

LEMMA TimedOutUpdate ==
  \A r \in Item :
    LET s == TimedOut(r) IN
      /\ s \in Item /\ s.state = r.state /\ s.cab = r.cab /\ ~s.wait
      /\ s.cmd \in {"NONE", r.cmd}
      /\ r.cmd # "DISCHARGING" => s.cmd = "NONE"
BY ResetUpdate, UnwaitUpdate DEF TimedOut

LEMMA ChargedUpdate ==
  \A r \in Item :
    LET s == [CmdReset(r) EXCEPT !.state = "CHARGED",
                !.chargeForce = IF @ = r.cab THEN None ELSE @] IN
      /\ s \in Item /\ s.state = "CHARGED" /\ s.cab = r.cab /\ s.cmd = "NONE" /\ ~s.wait
<1> TAKE r \in Item
<1> DEFINE q == CmdReset(r)
           f == IF q.chargeForce = r.cab THEN None ELSE q.chargeForce
<1>1. q \in Item /\ q.cab = r.cab /\ q.cmd = "NONE" /\ ~q.wait
  BY ResetUpdate
<1>2. f \in AnyCab
  BY <1>1, ItemFields DEF AnyCab
<1> HIDE DEF q, f
<1>3. [q EXCEPT !.state = "CHARGED", !.chargeForce = f] \in Item
  BY <1>1, <1>2 DEF Item, AnyCab
<1>4. LET s == [q EXCEPT !.state = "CHARGED", !.chargeForce = f] IN
        s.state = "CHARGED" /\ s.cab = q.cab /\ s.cmd = q.cmd /\ s.wait = q.wait
  BY <1>1 DEF Item
<1>5. [q EXCEPT !.state = "CHARGED", !.chargeForce = IF @ = r.cab THEN None ELSE @]
        = [q EXCEPT !.state = "CHARGED", !.chargeForce = f]
  BY <1>1 DEF f, Item
<1> QED BY <1>1, <1>3, <1>4, <1>5 DEF q
-----------------------------------------------------------------------------
LEMMA InvInit == Init => ChargerInv
<1> SUFFICES ASSUME Init PROVE ChargerInv
  OBVIOUS
<1>1. PICK c \in Cabs :
        charger = [state |-> "DISCHARGED", cab |-> c, cmd |-> "NONE", wait |-> FALSE, success |-> -1,
                   retry |-> 0, chargeForce |-> None, dischargeForce |-> None]
  BY DEF Init, NewCharger
<1>2. charger \in Item
  BY <1>1, ChargerAssumption DEF Item
<1>3. charger.state = "DISCHARGED" /\ ~charger.wait
  BY <1>1
<1>4. bpCmds \in Seq(Order)
  BY DEF Init
<1>5. TypeOK
  BY <1>2, <1>4 DEF Init, TypeOK
<1> QED
  BY <1>3, <1>5, ChargerAssumption DEF ChargerInv, Placed, ChosenIsValid, Init

(* The station's thread, without the slow call.                             *)
LEMMA ForcedUpdate ==
  ASSUME ChargerInv, FindForced
  PROVE  /\ charger' \in Item /\ charger'.state = charger.state /\ charger'.cab = charger.cab
         /\ charger'.cmd = charger.cmd /\ charger'.wait = charger.wait
         /\ charger'.success = charger.success
<1>1. charger \in Item /\ None \in AnyCab
  BY DEF ChargerInv, TypeOK, AnyCab
<1>2. CASE charger' = charger
  BY <1>1, <1>2
<1>3. CASE charger' = [charger EXCEPT !.chargeForce = None]
  BY <1>1, <1>3, ChargeForceUpdate
<1> QED BY <1>2, <1>3 DEF FindForced

LEMMA InvFind == ChargerInv /\ (Check \/ FindForced \/ FindCab) => ChargerInv'
<1> SUFFICES ASSUME ChargerInv, Check \/ FindForced \/ FindCab PROVE ChargerInv'
  OBVIOUS
<1>t. /\ TypeOK /\ Placed /\ charger \in Item
      /\ charger.state \in {"DISCHARGED", "CHARGED"} /\ charger.chargeForce \in AnyCab
  BY ItemFields DEF ChargerInv, TypeOK
<1>1. CASE Check
  BY <1>1, <1>t DEF ChargerInv, Placed, ChosenIsValid, TypeOK, Check, Turn, world, caller
<1>2. CASE FindForced
  <2>1. charger' \in Item /\ charger'.state = "DISCHARGED"
        /\ charger'.wait = charger.wait /\ charger'.cab = charger.cab
    BY <1>2, <1>t, ForcedUpdate DEF FindForced, Placed
  <2> QED
    BY <1>2, <1>t, <2>1 DEF ChargerInv, Placed, ChosenIsValid, TypeOK, FindForced, world, caller
<1>3. CASE FindCab
  <2>1. charger.state = "DISCHARGED" /\ charger' = charger
    BY <1>3, <1>t DEF FindCab, Placed
  <2>2. mode' \in [Cabs -> {"ENABLE", "DISABLE", "BLACKLIST"}]
    BY <1>3, <1>t DEF FindCab, TypeOK
  <2>3. \/ call' = call /\ pc' = "cmd"
        \/ call' \in Started /\ call'.cab \in Cabs /\ pc' = "found"
    BY <1>3 DEF FindCab, Started
  <2> QED
    BY <1>3, <1>t, <2>1, <2>2, <2>3
    DEF ChargerInv, Placed, ChosenIsValid, TypeOK, FindCab, world, caller
<1> QED BY <1>1, <1>2, <1>3

LEMMA StartsUpdate ==
  ASSUME ChargerInv, ForcedStarts \/ FoundStarts
  PROVE  charger' \in Item /\ charger'.state = "DISCHARGED" /\ charger.state = "DISCHARGED"
         /\ ~charger'.wait
<1>t. Placed /\ charger \in Item /\ charger.chargeForce \in AnyCab
  BY ItemFields DEF ChargerInv, TypeOK
<1>1. CASE ForcedStarts
  BY <1>1, <1>t, StartUpdate DEF ForcedStarts, Placed, Cmds
<1>2. CASE FoundStarts
  <2>1. call.cab \in AnyCab /\ call.cmd \in Cmds
    BY <1>2, <1>t DEF FoundStarts, Placed, Started, AnyCab, Cmds
  <2> QED BY <1>2, <1>t, <2>1, StartUpdate DEF FoundStarts, Placed
<1> QED BY <1>1, <1>2

LEMMA InvStarts == ChargerInv /\ (ForcedStarts \/ FoundStarts) => ChargerInv'
<1> SUFFICES ASSUME ChargerInv, ForcedStarts \/ FoundStarts PROVE ChargerInv'
  OBVIOUS
<1> QED
  BY StartsUpdate
  DEF ChargerInv, Placed, ChosenIsValid, TypeOK, ForcedStarts, FoundStarts, world, caller

LEMMA WatchUpdate ==
  ChargerInv /\ Watch
    => charger' \in Item /\ charger'.state = charger.state /\ charger'.cab = charger.cab
<1> SUFFICES ASSUME ChargerInv, Watch
             PROVE  charger' \in Item /\ charger'.state = charger.state /\ charger'.cab = charger.cab
  OBVIOUS
<1>t. TypeOK /\ Placed /\ charger \in Item /\ charger.state = "CHARGED" /\ charger.cab \in Cabs
  BY DEF ChargerInv, TypeOK, Placed, ChosenIsValid, Watch
<1>1. charger.retry \in 0 .. RetryNumber - 1
  BY <1>t, ItemFields
<1>2. \A r \in Item : r.state = "CHARGED" /\ r.cab = charger.cab
        => Stop(r) \in Item /\ Stop(r).state = "CHARGED" /\ Stop(r).cab = charger.cab
  BY StopUpdate
<1>3. /\ [charger EXCEPT !.retry = 0] \in Item
      /\ [charger EXCEPT !.retry = 0].state = "CHARGED"
      /\ [charger EXCEPT !.retry = 0].cab = charger.cab
  BY <1>t, RetryUpdate, ChargerAssumption
<1>4. ASSUME ~Broken(charger.retry + 1)
      PROVE  /\ [charger EXCEPT !.retry = charger.retry + 1] \in Item
             /\ [charger EXCEPT !.retry = charger.retry + 1].state = "CHARGED"
             /\ [charger EXCEPT !.retry = charger.retry + 1].cab = charger.cab
  <2>1. charger.retry + 1 \in 0 .. RetryNumber - 1
    BY <1>1, <1>4, ChargerAssumption DEF Broken
  <2> QED BY <1>t, <2>1, RetryUpdate
<1> QED BY <1>t, <1>2, <1>3, <1>4 DEF Watch

LEMMA InvWatch == ChargerInv /\ Watch => ChargerInv'
<1> SUFFICES ASSUME ChargerInv, Watch PROVE ChargerInv'
  OBVIOUS
<1>t. TypeOK /\ Placed /\ charger.state = "CHARGED"
  BY DEF ChargerInv, Placed, Watch
<1>1. charger' \in Item /\ charger'.state = charger.state /\ charger'.cab = charger.cab
  BY WatchUpdate
<1>2. mode' \in [Cabs -> {"ENABLE", "DISABLE", "BLACKLIST"}]
  BY <1>t DEF Watch, TypeOK
<1> QED
  BY <1>t, <1>1, <1>2 DEF ChargerInv, Placed, ChosenIsValid, TypeOK, Watch, world, caller

LEMMA InvStray == ASSUME NEW c \in Cabs PROVE ChargerInv /\ StopStray(c) => ChargerInv'
<1> SUFFICES ASSUME ChargerInv, StopStray(c) PROVE ChargerInv'
  OBVIOUS
<1>t. TypeOK /\ Placed
  BY DEF ChargerInv
<1>1. bpCmds' \in Seq(Order)
  BY <1>t DEF TypeOK, StopStray, ToldToStop, Order
<1>2. switch' \in [Cabs -> BOOLEAN]
  BY <1>t DEF TypeOK, StopStray
<1> QED
  BY <1>t, <1>1, <1>2 DEF ChargerInv, Placed, ChosenIsValid, TypeOK, StopStray, station, caller

LEMMA InvCmd ==
  ChargerInv /\ (StrayDone \/ CmdNone \/ CmdTimeout \/ CmdWaiting \/ CmdFailed \/ CmdCharged
                 \/ CmdDischarged \/ ResetDone) => ChargerInv'
<1> SUFFICES ASSUME ChargerInv,
                    StrayDone \/ CmdNone \/ CmdTimeout \/ CmdWaiting \/ CmdFailed \/ CmdCharged
                      \/ CmdDischarged \/ ResetDone
             PROVE  ChargerInv'
  OBVIOUS
<1>t. TypeOK /\ Placed /\ charger \in Item /\ charger.wait \in BOOLEAN
  BY ItemFields DEF ChargerInv, TypeOK
<1>1. CASE StrayDone \/ CmdNone \/ CmdWaiting
  BY <1>1, <1>t DEF ChargerInv, Placed, ChosenIsValid, TypeOK, StrayDone, CmdNone, CmdWaiting,
                    world, caller
<1>2. CASE CmdTimeout
  <2>1. charger' \in Item /\ charger'.state = charger.state /\ charger'.cab = charger.cab
        /\ ~charger'.wait
    BY <1>2, <1>t, TimedOutUpdate DEF CmdTimeout
  <2> QED BY <1>2, <1>t, <2>1 DEF ChargerInv, Placed, ChosenIsValid, TypeOK, CmdTimeout, world, caller
<1>3. CASE CmdFailed
  <2>1. \/ charger' = [charger EXCEPT !.success = -1] /\ pc' = "check"
        \/ charger' = CmdReset(charger) /\ pc' = "reset"
    BY <1>3 DEF CmdFailed
  <2>2. -1 \in {-1, 0, 1}
    OBVIOUS
  <2>3. charger' \in Item /\ charger'.state = charger.state /\ charger'.cab = charger.cab
        /\ (charger'.wait => charger.wait) /\ (pc' = "reset" => ~charger'.wait)
        /\ pc' \in {"check", "reset"}
    <3>1. CASE charger' = [charger EXCEPT !.success = -1] /\ pc' = "check"
      BY <1>t, <2>2, <3>1, SuccessUpdate
    <3>2. CASE charger' = CmdReset(charger) /\ pc' = "reset"
      BY <1>t, <3>2, ResetUpdate
    <3> QED BY <2>1, <3>1, <3>2
  <2> QED BY <1>3, <1>t, <2>3 DEF ChargerInv, Placed, ChosenIsValid, TypeOK, CmdFailed, world, caller
<1>4. CASE CmdCharged
  <2>1. charger' \in Item /\ charger'.state = "CHARGED" /\ charger'.cab = charger.cab
    BY <1>4, <1>t, ChargedUpdate DEF CmdCharged
  <2>2. charger.cab \in Cabs
    BY <1>4, <1>t DEF CmdCharged, Placed, ChosenIsValid
  <2> QED
    BY <1>4, <1>t, <2>1, <2>2 DEF ChargerInv, Placed, ChosenIsValid, TypeOK, CmdCharged, world, caller
<1>5. CASE CmdDischarged
  <2>1. charger' \in Item /\ charger'.state = charger.state /\ charger'.cab = charger.cab
        /\ ~charger'.wait
    BY <1>5, <1>t, ResetUpdate DEF CmdDischarged
  <2> QED BY <1>5, <1>t, <2>1 DEF ChargerInv, Placed, ChosenIsValid, TypeOK, CmdDischarged, world, caller
<1>6. CASE ResetDone
  <2>1. charger' \in Item /\ charger'.state = "DISCHARGED" /\ ~charger'.wait
    BY <1>6, <1>t, ClearUpdate DEF ResetDone, Placed
  <2> QED BY <1>6, <1>t, <2>1 DEF ChargerInv, Placed, ChosenIsValid, TypeOK, ResetDone, world, caller
<1> QED BY <1>1, <1>2, <1>3, <1>4, <1>5, <1>6

(* The slow call that sets a switch, and what follows it.                   *)
LEMMA SwitchTyped ==
  ASSUME TypeOK, pc = "switched" => call \in Started
  PROVE  pc = "switched" => SwitchSet \in [Cabs -> BOOLEAN]
BY DEF TypeOK, SwitchSet, Started

LEMMA InvSwitch == ChargerInv /\ (CmdSwitch \/ SwitchFailed \/ Switched) => ChargerInv'
<1> SUFFICES ASSUME ChargerInv, CmdSwitch \/ SwitchFailed \/ Switched PROVE ChargerInv'
  OBVIOUS
<1>t. TypeOK /\ Placed /\ charger \in Item
  BY DEF ChargerInv, TypeOK
<1>1. CASE CmdSwitch
  <2>1. charger.cab \in AnyCab /\ charger.cmd \in Cmds
    BY <1>1, <1>t, ItemFields DEF CmdSwitch
  <2>2. call' \in Started /\ call'.cab = charger.cab
    BY <1>1, <2>1 DEF CmdSwitch, Started, AnyCab, Cmds
  <2> QED
    BY <1>1, <1>t, <2>1, <2>2
    DEF ChargerInv, Placed, ChosenIsValid, TypeOK, CmdSwitch, world, caller, AnyCab
<1>2. CASE SwitchFailed
  <2>1. switch' \in [Cabs -> BOOLEAN]
    BY <1>2, <1>t, SwitchTyped DEF SwitchFailed, TypeOK, Placed
  <2> QED
    BY <1>2, <1>t, <2>1 DEF ChargerInv, Placed, ChosenIsValid, TypeOK, SwitchFailed, caller
<1>3. CASE Switched
  <2>1. switch' \in [Cabs -> BOOLEAN]
    BY <1>3, <1>t, SwitchTyped DEF Switched, Placed
  <2>2. charger.cab \in Cabs /\ call.cmd \in Cmds
    BY <1>3, <1>t DEF Switched, Placed, Started, Cmds
  <2>3. OrderOf(call) \in Order
    BY <2>2 DEF OrderOf, Order, Cmds
  <2>4. bpCmds' \in Seq(Order)
    BY <1>3, <1>t, <2>3 DEF Switched, TypeOK
  <2>5. CASE charger' = [charger EXCEPT !.wait = TRUE, !.success = -1] /\ pc' = "check"
    <3>1. charger' \in Item /\ charger'.state = charger.state /\ charger'.cab = charger.cab
      BY <1>t, <2>5, WaitUpdate
    <3> QED
      BY <1>3, <1>t, <2>1, <2>2, <2>4, <2>5, <3>1
      DEF ChargerInv, Placed, ChosenIsValid, TypeOK, Switched, caller
  <2>6. CASE charger' = CmdReset(charger) /\ pc' = "reset"
    <3>1. charger' \in Item /\ charger'.state = charger.state /\ charger'.cab = charger.cab
          /\ ~charger'.wait
      BY <1>t, <2>6, ResetUpdate
    <3> QED
      BY <1>3, <1>t, <2>1, <2>2, <2>4, <2>6, <3>1
      DEF ChargerInv, Placed, ChosenIsValid, TypeOK, Switched, caller
  <2> QED BY <1>3, <2>5, <2>6 DEF Switched
<1> QED BY <1>1, <1>2, <1>3

(* The battery service.                                                     *)
LEMMA InvAnswer ==
  ASSUME NEW ok \in BOOLEAN
  PROVE  ChargerInv /\ (BpAnswer(ok) \/ BpDisplaced) => ChargerInv'
<1> SUFFICES ASSUME ChargerInv, BpAnswer(ok) \/ BpDisplaced PROVE ChargerInv'
  OBVIOUS
<1>t. TypeOK /\ Placed /\ charger \in Item /\ bpCmds \in Seq(Order)
  BY DEF ChargerInv, TypeOK
<1>1. bpCmds # <<>> => Head(bpCmds) \in Order /\ Tail(bpCmds) \in Seq(Order)
  BY <1>t
<1>2. bpCmds' \in Seq(Order)
  BY <1>t, <1>1 DEF BpAnswer, BpDisplaced
<1>3. \A o \in Order : Obeyed(o) \in [Cabs -> BOOLEAN]
  BY <1>t DEF TypeOK, Obeyed, Order
<1>4. fet' \in [Cabs -> BOOLEAN]
  BY <1>t, <1>1, <1>3 DEF BpAnswer, BpDisplaced, TypeOK
<1>5. CASE BpAnswer(ok)
  <2>1. (IF ok THEN 1 ELSE 0) \in {-1, 0, 1}
    OBVIOUS
  <2>2. charger' = charger \/ charger' = [charger EXCEPT !.success = IF ok THEN 1 ELSE 0]
    BY <1>5 DEF BpAnswer
  <2>3. charger' \in Item /\ charger'.state = charger.state /\ charger'.cab = charger.cab
        /\ charger'.wait = charger.wait
    BY <1>t, <2>1, <2>2, SuccessUpdate
  <2> QED
    BY <1>5, <1>t, <1>2, <1>4, <2>3
    DEF ChargerInv, Placed, ChosenIsValid, TypeOK, BpAnswer, station, caller
<1>6. CASE BpDisplaced
  BY <1>6, <1>t, <1>2, <1>4
  DEF ChargerInv, Placed, ChosenIsValid, TypeOK, BpDisplaced, station, caller
<1> QED BY <1>5, <1>6

(* The API and the packs.                                                   *)
LEMMA InvCall ==
  ASSUME NEW c \in Cabs, NEW enable \in BOOLEAN
  PROVE  ChargerInv /\ (Charged(c) \/ Discharged(c) \/ EnableCab(c, enable)) => ChargerInv'
<1> SUFFICES ASSUME ChargerInv, Charged(c) \/ Discharged(c) \/ EnableCab(c, enable)
             PROVE  ChargerInv'
  OBVIOUS
<1>t. TypeOK /\ Placed /\ charger \in Item /\ charger.cab \in AnyCab
      /\ charger.chargeForce \in AnyCab /\ charger.dischargeForce \in AnyCab /\ calls \in Nat
      /\ c \in AnyCab /\ None \in AnyCab
  BY ItemFields DEF ChargerInv, TypeOK, AnyCab
<1>1. calls < CallMax /\ calls' = calls + 1
  BY DEF Charged, Discharged, EnableCab, Calls
<1>2. calls' \in Nat /\ calls' <= CallMax /\ calls' # 0
  BY <1>t, <1>1, ChargerAssumption
<1>3. charger' \in Item /\ charger'.state = charger.state /\ charger'.cab = charger.cab
      /\ charger'.wait = charger.wait
  <2>1. PICK d \in AnyCab, e \in AnyCab :
          charger' = charger \/ charger' = [charger EXCEPT !.chargeForce = d, !.dischargeForce = e]
    <3> DEFINE d == IF charger.chargeForce = c THEN None ELSE charger.chargeForce
               e == IF charger.dischargeForce = c THEN None ELSE charger.dischargeForce
    <3>1. d \in AnyCab /\ e \in AnyCab
      BY <1>t
    <3>2. CASE Charged(c)
      <4>1. charger' = [charger EXCEPT !.chargeForce = c, !.dischargeForce = e]
        BY <3>2, <1>t DEF Charged, Item
      <4> QED BY <1>t, <3>1, <4>1
    <3>3. CASE Discharged(c)
      <4>1. charger' = [charger EXCEPT !.chargeForce = d, !.dischargeForce = c]
        BY <3>3, <1>t DEF Discharged, Item
      <4> QED BY <1>t, <3>1, <4>1
    <3>4. CASE EnableCab(c, enable)
      BY <3>4, <1>t DEF EnableCab
    <3> QED BY <3>2, <3>3, <3>4
  <2> DEFINE s == [charger EXCEPT !.chargeForce = d, !.dischargeForce = e]
  <2>2. s \in Item /\ s.state = charger.state /\ s.cab = charger.cab /\ s.wait = charger.wait
    BY <1>t DEF Item, AnyCab
  <2> HIDE DEF s
  <2>3. charger' = charger \/ charger' = s
    BY <2>1 DEF s
  <2> QED BY <1>t, <2>2, <2>3
<1>4. mode' \in [Cabs -> {"ENABLE", "DISABLE", "BLACKLIST"}]
  BY <1>t DEF Charged, Discharged, EnableCab, TypeOK
<1>5. api' # None => api' \in Started /\ api'.cab \in Cabs
  BY <1>t DEF Charged, Discharged, EnableCab, Started, Placed, ChosenIsValid
<1>6. api' \in Started \cup {None}
  BY <1>5
<1>7. UNCHANGED <<pc, call, bpCmds, have, fet, switch>>
  BY DEF Charged, Discharged, EnableCab, station, world
<1> QED
  BY <1>t, <1>2, <1>3, <1>4, <1>5, <1>6, <1>7 DEF ChargerInv, Placed, ChosenIsValid, TypeOK

LEMMA InvCallStarts == ChargerInv /\ CallStarts => ChargerInv'
<1> SUFFICES ASSUME ChargerInv, CallStarts PROVE ChargerInv'
  OBVIOUS
<1>t. TypeOK /\ Placed /\ charger \in Item /\ api \in Started /\ api.cab \in Cabs
  BY DEF ChargerInv, TypeOK, Placed, CallStarts
<1>1. api.cab \in AnyCab /\ api.cmd \in Cmds
  BY <1>t DEF Started, AnyCab, Cmds
<1>2. charger' \in Item /\ charger'.state = charger.state /\ charger'.cab = api.cab
      /\ ~charger'.wait
  BY <1>t, <1>1, StartUpdate DEF CallStarts
<1> QED
  BY <1>t, <1>2 DEF ChargerInv, Placed, ChosenIsValid, TypeOK, CallStarts, station, world

LEMMA InvPack ==
  ASSUME NEW c \in Cabs
  PROVE  ChargerInv /\ (PackArrives(c) \/ PackLeaves(c)) => ChargerInv'
BY DEF ChargerInv, Placed, ChosenIsValid, TypeOK, PackArrives, PackLeaves, station, caller

LEMMA InvNext == ChargerInv /\ [Next]_vars => ChargerInv'
<1> SUFFICES ASSUME ChargerInv, [Next]_vars PROVE ChargerInv'
  OBVIOUS
<1>1. CASE Station
  BY <1>1, InvFind, InvStarts, InvWatch, InvCmd, InvSwitch DEF Station
<1>2. CASE BpDisplaced
  BY <1>2, InvAnswer
<1>3. CASE CallStarts
  BY <1>3, InvCallStarts
<1>4. ASSUME NEW ok \in BOOLEAN, BpAnswer(ok) PROVE ChargerInv'
  BY <1>4, InvAnswer
<1>5. ASSUME NEW c \in Cabs,
             StopStray(c) \/ Charged(c) \/ Discharged(c) \/ PackArrives(c) \/ PackLeaves(c)
               \/ \E enable \in BOOLEAN : EnableCab(c, enable)
      PROVE  ChargerInv'
  <2>1. ASSUME NEW enable \in BOOLEAN,
               Charged(c) \/ Discharged(c) \/ EnableCab(c, enable)
        PROVE  ChargerInv'
    BY <2>1, InvCall
  <2>2. CASE Charged(c) \/ Discharged(c)
    BY <2>1, <2>2
  <2> QED BY <1>5, <2>1, <2>2, InvStray, InvPack
<1>6. CASE UNCHANGED vars
  BY <1>6 DEF ChargerInv, Placed, ChosenIsValid, TypeOK, vars, station, world, caller
<1> QED BY <1>1, <1>2, <1>3, <1>4, <1>5, <1>6 DEF Next

(* Every variable keeps its type, and the battery of "the charged cabinet"  *)
(* is only looked up when there is one.                                     *)
THEOREM ChargerTypeCorrect == Spec => []TypeOK
<1>1. ChargerInv => TypeOK
  BY DEF ChargerInv
<1> QED BY InvInit, InvNext, <1>1, PTL DEF Spec

(* m_bps is never indexed with the cabinet -1 (checkChargerDischarging-     *)
(* Condition, cmdProcess), whatever calls come in the middle of a reset.    *)
THEOREM ChosenAlwaysValid == Spec => []ChosenIsValid
<1>1. ChargerInv => ChosenIsValid
  BY DEF ChargerInv, Placed
<1> QED BY InvInit, InvNext, <1>1, PTL DEF Spec
-----------------------------------------------------------------------------
(* A command stays in the queue until it is answered.                       *)
LEMMA AppendAsks ==
  ASSUME NEW q \in Seq(Order), NEW o \in Order, NEW c \in Cabs
  PROVE  /\ Asked(Append(q, o), o.cab)
         /\ Asked(q, c) => Asked(Append(q, o), c)
<1>1. Len(Append(q, o)) = Len(q) + 1 /\ Append(q, o)[Len(q) + 1] = o
  OBVIOUS
<1>2. \A i \in 1 .. Len(q) : Append(q, o)[i] = q[i]
  OBVIOUS
<1>3. Len(q) \in Nat
  OBVIOUS
<1> HIDE DEF Asked
<1>4. Asked(Append(q, o), o.cab)
  BY <1>1, <1>3 DEF Asked
<1>5. Asked(q, c) => Asked(Append(q, o), c)
  BY <1>1, <1>2, <1>3 DEF Asked
<1> QED BY <1>4, <1>5

LEMMA TailAsks ==
  ASSUME NEW q \in Seq(Order), q # <<>>, NEW c \in Cabs, Asked(q, c), Head(q).cab # c
  PROVE  Asked(Tail(q), c)
<1>1. PICK i \in 1 .. Len(q) : q[i].cab = c
  BY DEF Asked
<1>2. i # 1 /\ Len(q) \in Nat
  BY <1>1
<1>3. i - 1 \in 1 .. Len(Tail(q)) /\ Tail(q)[i - 1] = q[i]
  BY <1>2
<1> QED BY <1>1, <1>3 DEF Asked

LEMMA RotateAsks ==
  ASSUME NEW q \in Seq(Order), q # <<>>, NEW c \in Cabs, Asked(q, c)
  PROVE  Asked(Append(Tail(q), Head(q)), c)
<1>1. Head(q) \in Order /\ Tail(q) \in Seq(Order)
  OBVIOUS
<1>2. CASE Head(q).cab = c
  BY <1>1, <1>2, AppendAsks
<1>3. CASE Head(q).cab # c
  BY <1>1, <1>3, TailAsks, AppendAsks
<1> QED BY <1>2, <1>3

(* What the answer of a charge depends on.                                  *)
Expects(r) == r.cmd = "CHARGING" /\ r.wait /\ r.success = -1

LEMMA AnswerKept ==
  ASSUME ChargerInv, AnswerDue,
         Expects(charger') => Expects(charger) /\ charger'.cab = charger.cab,
         bpCmds' = bpCmds
  PROVE  AnswerDue'
BY DEF AnswerDue, Expects

LEMMA AnswerStation == ChargerInv /\ AnswerDue /\ Station => AnswerDue'
<1> SUFFICES ASSUME ChargerInv, AnswerDue, Station PROVE AnswerDue'
  OBVIOUS
<1>t. TypeOK /\ Placed /\ charger \in Item
  BY DEF ChargerInv, TypeOK
<1>1. CASE Check \/ StrayDone \/ CmdNone \/ CmdWaiting \/ CmdSwitch \/ SwitchFailed
  BY <1>1 DEF AnswerDue, Check, StrayDone, CmdNone, CmdWaiting, CmdSwitch, SwitchFailed
<1>2. CASE FindForced \/ FindCab
  <2>1. Expects(charger') => Expects(charger) /\ charger'.cab = charger.cab
    BY <1>2, ForcedUpdate DEF FindCab, Expects
  <2> QED BY <1>2, <2>1, AnswerKept DEF FindForced, FindCab
<1>3. CASE ForcedStarts \/ FoundStarts
  <2>1. ~Expects(charger')
    BY <1>3, StartsUpdate DEF Expects
  <2> QED BY <1>3, <2>1, AnswerKept DEF ForcedStarts, FoundStarts
<1>4. CASE Watch
  <2>1. charger.retry \in 0 .. RetryNumber - 1
    BY <1>t, ItemFields
  <2>2. \A r \in Item : ~Expects(Stop(r))
    BY StopUpdate DEF Expects
  <2>3. ASSUME NEW n \in 0 .. RetryNumber - 1
        PROVE  /\ [charger EXCEPT !.retry = n] \in Item
               /\ Expects([charger EXCEPT !.retry = n]) => Expects(charger)
               /\ [charger EXCEPT !.retry = n].cab = charger.cab
    BY <1>t, RetryUpdate DEF Expects
  <2>4. 0 \in 0 .. RetryNumber - 1
    BY ChargerAssumption
  <2>5. ~Broken(charger.retry + 1) => charger.retry + 1 \in 0 .. RetryNumber - 1
    BY <2>1, ChargerAssumption DEF Broken
  <2>6. \/ \E r \in Item : charger' = Stop(r)
        \/ charger' = charger
        \/ charger' = [charger EXCEPT !.retry = 0]
    <3>1. [charger EXCEPT !.retry = 0] \in Item
      BY <2>3, <2>4
    <3>2. ~Broken(charger.retry + 1) => [charger EXCEPT !.retry = charger.retry + 1] \in Item
      BY <2>3, <2>5
    <3> QED BY <1>4, <1>t, <3>1, <3>2 DEF Watch
  <2>7. Expects([charger EXCEPT !.retry = 0]) => Expects(charger)
    BY <2>3, <2>4
  <2>8. [charger EXCEPT !.retry = 0].cab = charger.cab
    BY <2>3, <2>4
  <2>9. Expects(charger') => Expects(charger) /\ charger'.cab = charger.cab
    BY <2>2, <2>6, <2>7, <2>8
  <2> QED BY <1>4, <2>9, AnswerKept DEF Watch
<1>5. CASE CmdTimeout
  <2>1. ~Expects(charger')
    BY <1>5, <1>t, TimedOutUpdate DEF CmdTimeout, Expects
  <2> QED BY <1>5, <2>1, AnswerKept DEF CmdTimeout
<1>6. CASE CmdFailed
  <2>1. \/ charger' = [charger EXCEPT !.success = -1] /\ charger.cmd = "DISCHARGING"
        \/ charger' = CmdReset(charger)
    BY <1>6 DEF CmdFailed
  <2>2. -1 \in {-1, 0, 1}
    OBVIOUS
  <2>3. ~Expects(charger')
    BY <1>t, <2>1, <2>2, ResetUpdate, SuccessUpdate DEF Expects
  <2> QED BY <1>6, <2>3, AnswerKept DEF CmdFailed
<1>7. CASE CmdCharged
  <2>1. ~Expects(charger')
    BY <1>7, <1>t, ChargedUpdate DEF CmdCharged, Expects
  <2> QED BY <1>7, <2>1, AnswerKept DEF CmdCharged
<1>8. CASE CmdDischarged
  <2>1. ~Expects(charger')
    BY <1>8, <1>t, ResetUpdate DEF CmdDischarged, Expects
  <2> QED BY <1>8, <2>1, AnswerKept DEF CmdDischarged
<1>9. CASE ResetDone
  <2>1. ~Expects(charger')
    BY <1>9, <1>t, ClearUpdate DEF ResetDone, Expects, Placed
  <2> QED BY <1>9, <2>1, AnswerKept DEF ResetDone
<1>10. CASE Switched
  <2>1. charger.cab \in Cabs /\ call.cmd \in Cmds
    BY <1>10, <1>t DEF Switched, Placed, Started, Cmds
  <2>2. OrderOf(call) \in Order /\ OrderOf(call).cab = charger.cab
    BY <2>1 DEF OrderOf, Order, Cmds
  <2>3. CASE charger' = [charger EXCEPT !.wait = TRUE, !.success = -1]
             /\ bpCmds' = Append(bpCmds, OrderOf(call))
    <3>1. charger'.cab = charger.cab
      BY <1>t, <2>3, WaitUpdate
    <3>2. bpCmds \in Seq(Order)
      BY <1>t DEF TypeOK
    <3>3. Asked(bpCmds', charger'.cab)
      BY <2>1, <2>2, <2>3, <3>1, <3>2, AppendAsks
    <3> QED BY <3>3 DEF AnswerDue
  <2>4. CASE charger' = CmdReset(charger) /\ bpCmds' = bpCmds
    <3>1. ~Expects(charger')
      BY <1>t, <2>4, ResetUpdate DEF Expects
    <3> QED BY <2>4, <3>1, AnswerKept
  <2> QED BY <1>10, <2>3, <2>4 DEF Switched
<1> QED BY <1>1, <1>2, <1>3, <1>4, <1>5, <1>6, <1>7, <1>8, <1>9, <1>10 DEF Station

LEMMA AnswerCab ==
  ASSUME NEW c \in Cabs
  PROVE  ChargerInv /\ AnswerDue /\ (StopStray(c) \/ Charged(c) \/ Discharged(c)) => AnswerDue'
<1> SUFFICES ASSUME ChargerInv, AnswerDue, StopStray(c) \/ Charged(c) \/ Discharged(c)
             PROVE  AnswerDue'
  OBVIOUS
<1>t. TypeOK /\ Placed /\ charger \in Item /\ bpCmds \in Seq(Order)
  BY DEF ChargerInv, TypeOK
<1>w. Expects(charger) => charger.cab \in Cabs /\ Asked(bpCmds, charger.cab)
  BY <1>t DEF AnswerDue, Expects, Placed, ChosenIsValid
<1>1. CASE StopStray(c)
  <2>1. [cab |-> c, cmd |-> "DISCHARGING"] \in Order
    BY DEF Order
  <2>2. bpCmds' = Append(bpCmds, [cab |-> c, cmd |-> "DISCHARGING"]) /\ charger' = charger
    BY <1>1 DEF StopStray, ToldToStop
  <2>3. Expects(charger) => Asked(bpCmds', charger.cab)
    BY <1>t, <1>w, <2>1, <2>2, AppendAsks
  <2> QED BY <2>2, <2>3 DEF AnswerDue, Expects
<1>2. CASE Charged(c)
  <2>1. charger'.cmd = charger.cmd /\ charger'.wait = charger.wait /\ charger'.cab = charger.cab
        /\ charger'.success = charger.success /\ bpCmds' = bpCmds
    BY <1>2, <1>t DEF Charged, Item
  <2> QED BY <2>1 DEF AnswerDue
<1>3. CASE Discharged(c)
  <2>1. charger'.cmd = charger.cmd /\ charger'.wait = charger.wait /\ charger'.cab = charger.cab
        /\ charger'.success = charger.success /\ bpCmds' = bpCmds
    BY <1>3, <1>t DEF Discharged, Item
  <2> QED BY <2>1 DEF AnswerDue
<1> QED BY <1>1, <1>2, <1>3

LEMMA AnswerService ==
  ASSUME NEW ok \in BOOLEAN
  PROVE  ChargerInv /\ AnswerDue /\ (BpAnswer(ok) \/ BpDisplaced \/ CallStarts) => AnswerDue'
<1> SUFFICES ASSUME ChargerInv, AnswerDue, BpAnswer(ok) \/ BpDisplaced \/ CallStarts
             PROVE  AnswerDue'
  OBVIOUS
<1>t. TypeOK /\ Placed /\ charger \in Item /\ bpCmds \in Seq(Order)
  BY DEF ChargerInv, TypeOK
<1>w. Expects(charger) => charger.cab \in Cabs /\ Asked(bpCmds, charger.cab)
  BY <1>t DEF AnswerDue, Expects, Placed, ChosenIsValid
<1>1. CASE BpAnswer(ok)
  <2>1. (IF ok THEN 1 ELSE 0) \in {-1, 0, 1} /\ (IF ok THEN 1 ELSE 0) # -1
    OBVIOUS
  <2>2. CASE charger.cab = Head(bpCmds).cab
    <3>1. charger' = [charger EXCEPT !.success = IF ok THEN 1 ELSE 0]
      BY <1>1, <2>2 DEF BpAnswer
    <3>2. ~Expects(charger')
      BY <1>t, <2>1, <3>1, SuccessUpdate DEF Expects
    <3> QED BY <3>2 DEF AnswerDue, Expects
  <2>3. CASE charger.cab # Head(bpCmds).cab
    <3>1. charger' = charger /\ bpCmds' = Tail(bpCmds) /\ bpCmds # <<>>
      BY <1>1, <2>3 DEF BpAnswer
    <3>2. Expects(charger) => Asked(bpCmds', charger.cab)
      BY <1>t, <1>w, <2>3, <3>1, TailAsks
    <3> QED BY <3>1, <3>2 DEF AnswerDue, Expects
  <2> QED BY <2>2, <2>3
<1>2. CASE BpDisplaced
  <2>1. charger' = charger /\ bpCmds # <<>> /\ bpCmds' = Append(Tail(bpCmds), Head(bpCmds))
    BY <1>2 DEF BpDisplaced
  <2>2. Expects(charger) => Asked(bpCmds', charger.cab)
    BY <1>t, <1>w, <2>1, RotateAsks
  <2> QED BY <2>1, <2>2 DEF AnswerDue, Expects
<1>3. CASE CallStarts
  <2>1. api.cab \in AnyCab /\ api.cmd \in Cmds
    BY <1>3, <1>t DEF CallStarts, Placed, Started, AnyCab, Cmds
  <2>2. ~Expects(charger')
    BY <1>3, <1>t, <2>1, StartUpdate DEF CallStarts, Expects
  <2> QED BY <2>2 DEF AnswerDue, Expects
<1> QED BY <1>1, <1>2, <1>3

LEMMA AnswerNext == ChargerInv /\ AnswerDue /\ [Next]_vars => AnswerDue'
<1> SUFFICES ASSUME ChargerInv, AnswerDue, [Next]_vars PROVE AnswerDue'
  OBVIOUS
<1>1. CASE Station
  BY <1>1, AnswerStation
<1>2. ASSUME NEW c \in Cabs, StopStray(c) \/ Charged(c) \/ Discharged(c) PROVE AnswerDue'
  BY <1>2, AnswerCab
<1>3. ASSUME NEW ok \in BOOLEAN, BpAnswer(ok) \/ BpDisplaced \/ CallStarts PROVE AnswerDue'
  BY <1>3, AnswerService
<1>4. ASSUME NEW c \in Cabs,
             PackArrives(c) \/ PackLeaves(c) \/ \E enable \in BOOLEAN : EnableCab(c, enable)
      PROVE  AnswerDue'
  BY <1>4 DEF AnswerDue, PackArrives, PackLeaves, EnableCab
<1>5. CASE UNCHANGED vars
  BY <1>5 DEF AnswerDue, vars
<1> QED BY <1>1, <1>2, <1>3, <1>4, <1>5 DEF Next

(* A charge that waits for its pack is never waiting for nothing: whatever  *)
(* m_cabCharging became while the switch was set, the command went to it.   *)
THEOREM AnswerAlwaysDue == Spec => []AnswerDue
<1>1. Init => AnswerDue
  BY DEF Init, NewCharger, AnswerDue
<1> QED BY InvInit, InvNext, <1>1, AnswerNext, PTL DEF Spec
-----------------------------------------------------------------------------
(* The refinement.  Only m_state and m_cabCharging matter.                  *)
LEMMA ChargingKept ==
  ASSUME charger'.state = charger.state,
         charger.state = "CHARGED" => charger'.cab = charger.cab
  PROVE  [Service!Next]_Charging
BY DEF Charging

LEMMA ChargingStation == ChargerInv /\ Station => [Service!Next]_Charging
<1> SUFFICES ASSUME ChargerInv, Station PROVE [Service!Next]_Charging
  OBVIOUS
<1>t. TypeOK /\ Placed /\ charger \in Item /\ charger.state \in {"DISCHARGED", "CHARGED"}
  BY ItemFields DEF ChargerInv, TypeOK
<1>1. CASE Check \/ StrayDone \/ CmdNone \/ CmdWaiting \/ CmdSwitch \/ SwitchFailed
  BY <1>1, ChargingKept DEF Check, StrayDone, CmdNone, CmdWaiting, CmdSwitch, SwitchFailed
<1>2. CASE FindForced \/ FindCab
  <2>1. charger.state = "DISCHARGED"
    BY <1>2, <1>t DEF FindForced, FindCab, Placed
  <2>2. charger'.state = charger.state
    BY <1>2, ForcedUpdate DEF FindCab
  <2> QED BY <2>1, <2>2, ChargingKept
<1>10. CASE ForcedStarts \/ FoundStarts
  BY <1>10, StartsUpdate, ChargingKept
<1>3. CASE Watch
  BY <1>3, WatchUpdate, ChargingKept
<1>4. CASE CmdTimeout
  BY <1>4, <1>t, TimedOutUpdate, ChargingKept DEF CmdTimeout
<1>5. CASE CmdFailed
  <2>1. charger' = [charger EXCEPT !.success = -1] \/ charger' = CmdReset(charger)
    BY <1>5 DEF CmdFailed
  <2>2. charger'.state = charger.state /\ charger'.cab = charger.cab
    BY <1>t, <2>1, ResetUpdate DEF Item
  <2> QED BY <2>2, ChargingKept
<1>6. CASE CmdDischarged
  BY <1>6, <1>t, ResetUpdate, ChargingKept DEF CmdDischarged
<1>7. CASE Switched
  <2>1. charger' = [charger EXCEPT !.wait = TRUE, !.success = -1] \/ charger' = CmdReset(charger)
    BY <1>7 DEF Switched
  <2>2. charger'.state = charger.state /\ charger'.cab = charger.cab
    BY <1>t, <2>1, ResetUpdate, WaitUpdate
  <2> QED BY <2>2, ChargingKept
<1>8. CASE CmdCharged
  <2>1. charger'.state = "CHARGED" /\ charger'.cab = charger.cab
    BY <1>8, <1>t, ChargedUpdate DEF CmdCharged
  <2>2. charger.cab \in Cabs
    BY <1>8, <1>t DEF CmdCharged, Placed, ChosenIsValid
  <2>3. CASE charger.state = "CHARGED"
    BY <2>1, <2>3, ChargingKept
  <2>4. CASE charger.state = "DISCHARGED"
    BY <2>1, <2>2, <2>4 DEF Charging, Service!Next, Service!Begin
  <2> QED BY <1>t, <2>3, <2>4
<1>9. CASE ResetDone
  <2>1. charger'.state = "DISCHARGED"
    BY <1>9, <1>t, ClearUpdate DEF ResetDone
  <2>2. charger.state = "CHARGED" => charger.cab # None
    BY <1>t, ChargerAssumption DEF Placed, ChosenIsValid
  <2> QED BY <1>t, <2>1, <2>2 DEF Charging, Service!Next, Service!Stop
<1> QED BY <1>1, <1>2, <1>3, <1>4, <1>5, <1>6, <1>7, <1>8, <1>9, <1>10 DEF Station

LEMMA ChargingNext ==
  ASSUME CallMax = 0
  PROVE  ChargerInv /\ [Next]_vars => [Service!Next]_Charging
<1> SUFFICES ASSUME ChargerInv, [Next]_vars PROVE [Service!Next]_Charging
  OBVIOUS
<1>1. calls = 0 /\ api = None
  BY DEF ChargerInv, TypeOK, Placed
<1>2. CASE Station
  BY <1>2, ChargingStation
<1>3. CASE BpDisplaced
  BY <1>3, ChargingKept DEF BpDisplaced
<1>4. ASSUME NEW ok \in BOOLEAN, BpAnswer(ok) PROVE [Service!Next]_Charging
  <2>1. charger' = charger \/ charger' = [charger EXCEPT !.success = IF ok THEN 1 ELSE 0]
    BY <1>4 DEF BpAnswer
  <2>2. charger'.state = charger.state /\ charger'.cab = charger.cab
    BY <2>1 DEF ChargerInv, TypeOK, Item
  <2> QED BY <2>2, ChargingKept
<1>5. ASSUME NEW c \in Cabs, StopStray(c) \/ PackArrives(c) \/ PackLeaves(c)
      PROVE  [Service!Next]_Charging
  BY <1>5, ChargingKept DEF StopStray, PackArrives, PackLeaves
<1>6. CASE UNCHANGED vars
  BY <1>6, ChargingKept DEF vars
<1>7. ~CallStarts /\ \A c \in Cabs : /\ ~Charged(c) /\ ~Discharged(c)
                                   /\ \A enable \in BOOLEAN : ~EnableCab(c, enable)
  BY <1>1 DEF CallStarts, Charged, Discharged, EnableCab, Calls
<1> QED BY <1>2, <1>3, <1>4, <1>5, <1>6, <1>7 DEF Next

(* With no call in the middle of its steps, the charger charges one cabinet *)
(* at a time: it implements ChargeService.                                  *)
THEOREM ChargerRefines ==
  ASSUME CallMax = 0
  PROVE  Spec => ChargeSpec
<1>1. Init => Service!Init
  BY DEF Init, NewCharger, Service!Init, Charging
<1>2. ChargerInv /\ [Next]_vars => [Service!Next]_Charging
  BY ChargingNext
<1> QED BY InvInit, InvNext, <1>1, <1>2, PTL DEF Spec, ChargeSpec, Service!Spec
-----------------------------------------------------------------------------
(* The search of a cabinet (CabChoice), for any number of cabinets.          *)
(* The invariant of the loop: ChoiceCorrect for the cabinets seen so far.   *)
Beaten(c) == volt[c] < volt[cab] \/ (volt[c] = volt[cab] /\ cab <= c)

ChoiceInv ==
  /\ fit \in SUBSET Numbers /\ volt \in [Numbers -> 0 .. VolMax] /\ next \in 0 .. CabNumber
  /\ \/ cab = NoCab /\ vol = 0 /\ \A c \in Usable : ~(c < next)
     \/ /\ cab \in Usable /\ cab < next /\ vol = volt[cab]
        /\ \A c \in Usable : c < next => Beaten(c)

LEMMA ChoiceInit == SearchInit => ChoiceInv
<1> SUFFICES ASSUME SearchInit PROVE ChoiceInv
  OBVIOUS
<1>1. \A c \in Usable : ~(c < next)
  BY DEF SearchInit, Usable, Numbers
<1>2. 0 \in 0 .. CabNumber
  BY ChoiceAssumption
<1> QED BY <1>1, <1>2 DEF SearchInit, ChoiceInv

LEMMA ChoiceLook == ChoiceInv /\ Look => ChoiceInv'
<1> SUFFICES ASSUME ChoiceInv, Look PROVE ChoiceInv'
  OBVIOUS
<1>1. /\ next \in Numbers /\ next' = next + 1 /\ fit' = fit /\ volt' = volt /\ fit \subseteq Numbers
      /\ next \in Int
  BY ChoiceAssumption DEF Look, ChoiceInv, Numbers
<1>2. \A c \in Numbers : c \in Int /\ volt[c] \in Int /\ volt[c] >= 0
  BY DEF ChoiceInv, Numbers
<1>3. fit' \in SUBSET Numbers /\ volt' \in [Numbers -> 0 .. VolMax] /\ next' \in 0 .. CabNumber
  BY ChoiceAssumption, <1>1 DEF ChoiceInv, Numbers
<1>4. Usable' = Usable /\ Usable \subseteq Numbers
  BY <1>1 DEF Usable
<1>5. vol \in Int /\ vol >= 0
  BY <1>2, <1>4 DEF ChoiceInv
<1>6. \A c \in Usable : c < next' => c < next \/ c = next
  BY <1>1, <1>2, <1>4
<1>7. CASE next \in fit /\ Better(next)
  <2>1. cab' = next /\ vol' = volt[next]
    BY <1>7 DEF Look
  <2>2. next \in Usable
    BY <1>1, <1>2, <1>5, <1>7 DEF Usable, Better
  <2>3. \A c \in Usable : c < next => volt[c] < volt[next]
    <3>1. CASE cab = NoCab /\ vol = 0 /\ \A c \in Usable : ~(c < next)
      BY <3>1
    <3>2. CASE /\ cab \in Usable /\ cab < next /\ vol = volt[cab]
               /\ \A c \in Usable : c < next => Beaten(c)
      <4>1. vol < volt[next] /\ volt[next] \in Int /\ volt[cab] \in Int
        BY <1>1, <1>2, <1>4, <1>7, <3>2 DEF Better
      <4>2. \A c \in Usable : c < next => volt[c] <= volt[cab]
        BY <1>2, <1>4, <3>2, <4>1 DEF Beaten
      <4>3. \A c \in Usable : volt[c] \in Int
        BY <1>2, <1>4
      <4> QED BY <3>2, <4>1, <4>2, <4>3
    <3> QED BY <3>1, <3>2 DEF ChoiceInv
  <2>4. \A c \in Usable : c < next' => Beaten(c)'
    BY <1>1, <1>2, <1>4, <1>6, <2>1, <2>3 DEF Beaten
  <2> QED BY <1>1, <1>3, <1>4, <2>1, <2>2, <2>4 DEF ChoiceInv
<1>8. CASE ~(next \in fit /\ Better(next))
  <2>1. cab' = cab /\ vol' = vol
    BY <1>8 DEF Look
  <2>2. next \in Usable => volt[next] <= vol /\ volt[next] > 0
    BY <1>1, <1>2, <1>5, <1>8 DEF Usable, Better
  <2>3. CASE cab = NoCab /\ vol = 0 /\ \A c \in Usable : ~(c < next)
    <3>1. next \notin Usable
      BY <1>1, <1>2, <2>2, <2>3
    <3>2. \A c \in Usable : ~(c < next')
      BY <1>6, <2>3, <3>1
    <3> QED BY <1>3, <1>4, <2>1, <2>3, <3>2 DEF ChoiceInv
  <2>4. CASE /\ cab \in Usable /\ cab < next /\ vol = volt[cab]
             /\ \A c \in Usable : c < next => Beaten(c)
    <3>1. cab \in Int /\ volt[cab] \in Int
      BY <1>2, <1>4, <2>4
    <3>2. next \in Usable => Beaten(next)
      BY <1>1, <1>2, <2>2, <2>4, <3>1 DEF Beaten
    <3>3. \A c \in Usable : c < next' => Beaten(c)
      BY <1>6, <2>4, <3>2
    <3>4. \A c \in Usable' : c < next' => Beaten(c)'
      BY <1>1, <1>4, <2>1, <3>3 DEF Beaten
    <3>5. cab' \in Usable' /\ cab' < next' /\ vol' = volt'[cab']
      BY <1>1, <1>4, <2>1, <2>4, <3>1
    <3> QED BY <1>3, <3>4, <3>5 DEF ChoiceInv
  <2> QED BY <2>3, <2>4 DEF ChoiceInv
<1> QED BY <1>7, <1>8

LEMMA ChoiceAgain == ChoiceInv /\ Again => ChoiceInv'
<1> SUFFICES ASSUME Again PROVE ChoiceInv'
  OBVIOUS
<1>1. \A c \in Usable' : ~(c < next')
  BY DEF Again, Usable, Numbers
<1>2. 0 \in 0 .. CabNumber
  BY ChoiceAssumption
<1> QED BY <1>1, <1>2 DEF Again, ChoiceInv

LEMMA ChoiceNext == ChoiceInv /\ [SearchNext]_searchVars => ChoiceInv'
<1> SUFFICES ASSUME ChoiceInv, [SearchNext]_searchVars PROVE ChoiceInv'
  OBVIOUS
<1>1. CASE UNCHANGED searchVars
  BY <1>1 DEF ChoiceInv, Beaten, Usable, searchVars
<1> QED BY <1>1, ChoiceLook, ChoiceAgain DEF SearchNext

(* Whatever the packs are, findCabToCharge returns what ChoiceCorrect says. *)
THEOREM ChoiceAlwaysCorrect == SearchSpec => []ChoiceCorrect
<1>1. ASSUME ChoiceInv PROVE ChoiceCorrect
  <2>1. \A c \in Usable : Done => c < next
    BY <1>1 DEF ChoiceInv, Done, Usable, Numbers
  <2>2. NoCab \notin Usable
    BY <1>1 DEF ChoiceInv, Usable, Numbers, NoCab
  <2> QED BY <1>1, <2>1, <2>2 DEF ChoiceInv, ChoiceCorrect, Beaten
<1>2. SearchInit => ChoiceInv
  BY ChoiceInit
<1>3. ChoiceInv /\ [SearchNext]_searchVars => ChoiceInv'
  BY ChoiceNext
<1> QED BY <1>1, <1>2, <1>3, PTL DEF SearchSpec
=============================================================================
