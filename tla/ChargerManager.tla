--------------------------- MODULE ChargerManager ---------------------------
(***************************************************************************)
(* One charger of the station and the cabinets it serves (ChargerManager:  *)
(* the chargers share nothing).  The station's thread loops over           *)
(*                                                                         *)
(*   "check"     ChargerManager::process looks at m_state and m_cmd        *)
(*   "find"      findCabToCharge chooses a cabinet                         *)
(*   "forced", "found"  and starts to charge it                            *)
(*   "watch"     checkConditionDischarge                                   *)
(*   "stray"     checkBpsInCharging, one cabinet a step                    *)
(*   "cmd"       cmdProcess                                                *)
(*   "switched"  the rest of it, after the slow call that sets a switch    *)
(*   "reset"     the end of chargerReset, after it has restarted the timer *)
(*                                                                         *)
(* charged, discharged and enableCab come from another thread, without a   *)
(* lock, between any two steps; so does the command they start after their *)
(* checks.  The commands for the packs are queued at the battery service,  *)
(* whose thread calls bpCmdCallback.  The interface m_if to the chargers   *)
(* is null in this version of the station.  Temperatures, currents and     *)
(* voltages are arbitrary at every check, and so is whether a running      *)
(* timer has expired.                                                      *)
(***************************************************************************)
EXTENDS Integers, Sequences

CONSTANTS Cabs,         \* m_cabIds of the charger
          None,         \* the cabinet -1
          RetryNumber,  \* CHARGER_RETRY_NUMBER
          CmdMax,       \* at most so many commands wait at the battery service
          CallMax       \* at most so many calls of the API

ASSUME ChargerAssumption ==
  /\ None \notin Cabs
  /\ RetryNumber \in Nat \ {0} /\ CmdMax \in Nat /\ CallMax \in Nat

VARIABLES
  charger,  \* the ChargerItem
  mode,     \* m_chargingCabState of every cabinet
  pc,       \* where the station's thread is
  call,     \* what it has chosen, or the arguments of its slow call
  bpCmds,   \* the charger's commands at the battery service
  have,     \* cabHaveBp of every cabinet
  fet,      \* whether the pack of the cabinet lets current in
  switch,   \* the charger switch of the cabinet
  calls,    \* calls of the API so far
  api       \* the command that a call of the API is about to start

station == <<pc, call>>
world   == <<have, fet, switch>>
caller  == <<calls, api>>
vars    == <<charger, mode, station, bpCmds, world, caller>>
-----------------------------------------------------------------------------
Item == [state : {"DISCHARGED", "CHARGED"},
         cab : Cabs \cup {None},                        \* m_cabCharging
         cmd : {"NONE", "CHARGING", "DISCHARGING"},
         wait : BOOLEAN,                                \* m_cmdWait
         success : {-1, 0, 1},                          \* m_cmdSuccess
         retry : 0 .. RetryNumber - 1,
         chargeForce : Cabs \cup {None},
         dischargeForce : Cabs \cup {None}]

Order == [cab : Cabs, cmd : {"CHARGING", "DISCHARGING"}]

(* A new ChargerItem, and the first cabinet of its list.                    *)
NewCharger(c) ==
  [state |-> "DISCHARGED", cab |-> c, cmd |-> "NONE", wait |-> FALSE, success |-> -1,
   retry |-> 0, chargeForce |-> None, dischargeForce |-> None]

Init ==
  /\ \E c \in Cabs : charger = NewCharger(c)
  /\ mode = [c \in Cabs |-> "ENABLE"]
  /\ pc = "check" /\ call = None
  /\ bpCmds = <<>>
  /\ have \in [Cabs -> BOOLEAN]
  /\ fet = [c \in Cabs |-> FALSE] /\ switch = [c \in Cabs |-> FALSE]
  /\ calls = 0 /\ api = None
-----------------------------------------------------------------------------
StartCmd(r, c, cmd) == [r EXCEPT !.cab = c, !.cmd = cmd, !.wait = FALSE, !.success = -1]
CmdReset(r) == [r EXCEPT !.cmd = "NONE", !.wait = FALSE, !.success = -1]

(* The end of chargerReset.  (Variant: m_state is not reset.)               *)
ClearedKeeps(r) == [r EXCEPT !.cab = None]
Cleared(r) == [r EXCEPT !.state = "DISCHARGED", !.cab = None]

Stop(r) == StartCmd(r, r.cab, "DISCHARGING")
-----------------------------------------------------------------------------
(* The station's thread.                                                    *)
(* (Variant: a charger that is charging looks for a cabinet too.)           *)
TurnAlways(r) == IF r.cmd # "NONE" THEN "cmd" ELSE "find"
Turn(r) == CASE r.cmd # "NONE" -> "cmd"
             [] r.cmd = "NONE" /\ r.state = "CHARGED" -> "watch"
             [] OTHER -> "find"

Check ==
  /\ pc = "check" /\ pc' = Turn(charger)
  /\ UNCHANGED <<charger, mode, call, bpCmds, world, caller>>

(* The cabinet and its pack may be charged now: there is a pack, and what   *)
(* else is looked at (temperatures, voltage, state of charge) may be so.    *)
Chargeable(c) == have[c]

(* A forced cabinet comes first; it is given up when its pack cannot be     *)
(* charged now.  It is read again when the command starts.                  *)
FindForced ==
  /\ pc = "find" /\ charger.chargeForce # None
  /\ \/ charger' = [charger EXCEPT !.chargeForce = None] /\ pc' = "cmd"
     \/ Chargeable(charger.chargeForce) /\ UNCHANGED charger /\ pc' = "forced"
  /\ UNCHANGED <<mode, call, bpCmds, world, caller>>

ForcedStarts ==
  /\ pc = "forced" /\ pc' = "cmd"
  /\ charger' = StartCmd(charger, charger.chargeForce, "CHARGING")
  /\ UNCHANGED <<mode, call, bpCmds, world, caller>>

(* Otherwise a cabinet that can be charged, if there is one (CabChoice says *)
(* which); the time of some cabinets in the blacklist may be over.          *)
FindCab ==
  /\ pc = "find" /\ charger.chargeForce = None
  /\ \E over \in SUBSET {c \in Cabs : mode[c] = "BLACKLIST"} :
       mode' = [c \in Cabs |-> IF c \in over THEN "ENABLE" ELSE mode[c]]
  /\ \/ UNCHANGED call /\ pc' = "cmd"
     \/ \E c \in Cabs :
          /\ mode'[c] = "ENABLE" /\ Chargeable(c) /\ c # charger.dischargeForce
          /\ call' = [cab |-> c, cmd |-> "CHARGING"] /\ pc' = "found"
  /\ UNCHANGED <<charger, bpCmds, world, caller>>

FoundStarts ==
  /\ pc = "found" /\ pc' = "cmd"
  /\ charger' = StartCmd(charger, call.cab, call.cmd) /\ call' = None
  /\ UNCHANGED <<mode, bpCmds, world, caller>>

(* The pack is gone, too hot or full; there is too much current; or there   *)
(* has been none for a while, for the RetryNumber-th time.                  *)
Broken(n) == n >= RetryNumber

Watch ==
  /\ pc = "watch"
  /\ \/ charger' = Stop(charger) /\ UNCHANGED mode
     \/ /\ have[charger.cab]
        /\ charger' = Stop(charger) /\ mode' = [mode EXCEPT ![charger.cab] = "BLACKLIST"]
     \/ /\ have[charger.cab]
        /\ LET n == charger.retry + 1 IN
             IF Broken(n)
             THEN /\ charger' = Stop([charger EXCEPT !.retry = 0])
                  /\ mode' = [mode EXCEPT ![charger.cab] = "BLACKLIST"]
             ELSE charger' = Stop([charger EXCEPT !.retry = n]) /\ UNCHANGED mode
     \/ /\ have[charger.cab]
        /\ charger' \in {charger, [charger EXCEPT !.retry = 0]} /\ UNCHANGED mode
  /\ pc' = "stray"
  /\ UNCHANGED <<call, bpCmds, world, caller>>

(* Another pack is charging too: its switch is turned off (nobody looks     *)
(* whether that worked) and its pack is told to stop (variant: it is not).  *)
SwitchOnly(c) == bpCmds
ToldToStop(c) == Append(bpCmds, [cab |-> c, cmd |-> "DISCHARGING"])

StopStray(c) ==
  /\ pc = "stray" /\ c # charger.cab /\ have[c] /\ fet[c]
  /\ Len(bpCmds) < CmdMax
  /\ switch' \in {switch, [switch EXCEPT ![c] = FALSE]}
  /\ bpCmds' = ToldToStop(c)
  /\ UNCHANGED <<charger, mode, station, have, fet, caller>>

StrayDone ==
  /\ pc = "stray" /\ pc' = "cmd"
  /\ UNCHANGED <<charger, mode, call, bpCmds, world, caller>>

CmdNone ==
  /\ pc = "cmd" /\ charger.cmd = "NONE" /\ pc' = "check"
  /\ UNCHANGED <<charger, mode, call, bpCmds, world, caller>>

(* A discharge is tried again until it succeeds; a charge is given up.      *)
(* (Variant: the discharge keeps m_cmdWait.)                                *)
TimedOutWaits(r) == IF r.cmd = "DISCHARGING" THEN r ELSE CmdReset(r)
TimedOut(r) == IF r.cmd = "DISCHARGING" THEN [r EXCEPT !.wait = FALSE] ELSE CmdReset(r)

CmdTimeout ==
  /\ pc = "cmd" /\ charger.cmd # "NONE"
  /\ charger' = TimedOut(charger)
  /\ pc' = "check"
  /\ UNCHANGED <<mode, call, bpCmds, world, caller>>

(* The slow call: the cabinet and the value are those of this moment.       *)
CmdSwitch ==
  /\ pc = "cmd" /\ charger.cmd # "NONE" /\ ~charger.wait
  /\ call' = [cab |-> charger.cab, cmd |-> charger.cmd]
  /\ pc' = "switched"
  /\ UNCHANGED <<charger, mode, bpCmds, world, caller>>

SwitchSet == [switch EXCEPT ![call.cab] = call.cmd = "CHARGING"]

(* No answer after three tries; the switch may have moved all the same.     *)
SwitchFailed ==
  /\ pc = "switched"
  /\ switch' \in {switch, SwitchSet}
  /\ pc' = "check" /\ call' = None
  /\ UNCHANGED <<charger, mode, bpCmds, have, fet, caller>>

(* The pack gets the command chosen before the call, in the cabinet chosen  *)
(* now.  (Variant: in the cabinet chosen before the call.)                  *)
OrderBefore(c) == [cab |-> c.cab, cmd |-> c.cmd]
OrderOf(c) == [cab |-> charger.cab, cmd |-> c.cmd]

Switched ==
  /\ pc = "switched" /\ call.cab # None
  /\ switch' = SwitchSet
  /\ \/ /\ have[charger.cab] /\ Len(bpCmds) < CmdMax
        /\ bpCmds' = Append(bpCmds, OrderOf(call))
        /\ charger' = [charger EXCEPT !.wait = TRUE, !.success = -1]
        /\ pc' = "check"
     \/ /\ ~have[charger.cab]
        /\ charger' = CmdReset(charger)
        /\ pc' = "reset" /\ UNCHANGED bpCmds
  /\ call' = None
  /\ UNCHANGED <<mode, have, fet, caller>>

(* m_cmdSuccess: nothing yet, failure (a discharge waits for its timer), or *)
(* success.                                                                 *)
CmdWaiting ==
  /\ pc = "cmd" /\ charger.cmd # "NONE" /\ charger.wait /\ charger.success = -1
  /\ pc' = "check"
  /\ UNCHANGED <<charger, mode, call, bpCmds, world, caller>>

CmdFailed ==
  /\ pc = "cmd" /\ charger.cmd # "NONE" /\ charger.wait /\ charger.success = 0
  /\ \/ /\ charger.cmd = "DISCHARGING" /\ pc' = "check"
        /\ charger' = [charger EXCEPT !.success = -1]
     \/ /\ charger.cmd = "CHARGING" /\ pc' = "reset"
        /\ charger' = CmdReset(charger)
  /\ UNCHANGED <<mode, call, bpCmds, world, caller>>

CmdCharged ==
  /\ pc = "cmd" /\ charger.cmd = "CHARGING" /\ charger.wait /\ charger.success = 1
  /\ charger' = [CmdReset(charger) EXCEPT !.state = "CHARGED",
                   !.chargeForce = IF @ = charger.cab THEN None ELSE @]
  /\ pc' = "check"
  /\ UNCHANGED <<mode, call, bpCmds, world, caller>>

CmdDischarged ==
  /\ pc = "cmd" /\ charger.cmd = "DISCHARGING" /\ charger.wait /\ charger.success = 1
  /\ charger' = CmdReset(charger)
  /\ pc' = "reset"
  /\ UNCHANGED <<mode, call, bpCmds, world, caller>>

ResetDone ==
  /\ pc = "reset" /\ pc' = "check"
  /\ charger' = Cleared(charger)
  /\ UNCHANGED <<mode, call, bpCmds, world, caller>>

Station ==
  \/ Check \/ FindForced \/ ForcedStarts \/ FindCab \/ FoundStarts
  \/ Watch \/ StrayDone
  \/ CmdNone \/ CmdTimeout \/ CmdSwitch \/ SwitchFailed \/ Switched
  \/ CmdWaiting \/ CmdFailed \/ CmdCharged \/ CmdDischarged \/ ResetDone
-----------------------------------------------------------------------------
(* The battery service: it executes the commands in order, except that the  *)
(* one in progress goes to the end of the queue when another is forced.     *)
(* bpCmdCallback takes an answer for the cabinet chosen now.                *)
Obeyed(o) == [fet EXCEPT ![o.cab] = o.cmd = "CHARGING"]

BpAnswer(ok) ==
  /\ bpCmds # <<>> /\ bpCmds' = Tail(bpCmds)
  /\ LET o == Head(bpCmds) IN
       /\ \/ have[o.cab] /\ fet' = Obeyed(o)
          \/ ~ok /\ UNCHANGED fet
       /\ charger' = IF charger.cab = o.cab
                     THEN [charger EXCEPT !.success = IF ok THEN 1 ELSE 0] ELSE charger
  /\ UNCHANGED <<mode, station, have, switch, caller>>

BpDisplaced ==
  /\ bpCmds # <<>> /\ bpCmds' = Append(Tail(bpCmds), Head(bpCmds))
  /\ fet' \in {fet} \cup {Obeyed(o) : o \in {Head(bpCmds)}}
  /\ UNCHANGED <<charger, mode, station, have, switch, caller>>
-----------------------------------------------------------------------------
(* The API, one call at a time.  All its calls are forced; one that changes *)
(* nothing is left out.  A call looks at the charger first and starts its   *)
(* command later.                                                           *)
Calls == calls < CallMax /\ calls' = calls + 1 /\ api = None

Charged(c) ==
  /\ Calls
  /\ ~(charger.state = "CHARGED" /\ charger.cab = c) /\ have[c]
  /\ mode' = [mode EXCEPT ![c] = "ENABLE"]
  /\ charger' = [charger EXCEPT !.chargeForce = c,
                    !.dischargeForce = IF @ = c THEN None ELSE @]
  /\ api' = IF charger.state = "CHARGED" THEN [cab |-> charger.cab, cmd |-> "DISCHARGING"]
                                         ELSE [cab |-> c, cmd |-> "CHARGING"]
  /\ UNCHANGED <<station, bpCmds, world>>

Discharged(c) ==
  /\ Calls
  /\ charger.state = "CHARGED" <=> charger.cab = c
  /\ charger' = [charger EXCEPT !.chargeForce = IF @ = c THEN None ELSE @,
                    !.dischargeForce = c]
  /\ api' = [cab |-> c, cmd |-> "DISCHARGING"]
  /\ UNCHANGED <<mode, station, bpCmds, world>>

EnableCab(c, enable) ==
  /\ Calls
  /\ mode' = [mode EXCEPT ![c] = IF enable THEN "ENABLE" ELSE "DISABLE"]
  /\ api' = IF ~enable /\ charger.state = "CHARGED" /\ charger.cab = c
            THEN [cab |-> c, cmd |-> "DISCHARGING"] ELSE None
  /\ UNCHANGED <<charger, station, bpCmds, world>>

CallStarts ==
  /\ api # None /\ api' = None
  /\ charger' = StartCmd(charger, api.cab, api.cmd)
  /\ UNCHANGED <<mode, station, bpCmds, world, calls>>

(* A pack is connected; or taken out, or lost from sight as it is.          *)
PackArrives(c) ==
  /\ ~have[c] /\ have' = [have EXCEPT ![c] = TRUE]
  /\ UNCHANGED <<charger, mode, station, bpCmds, fet, switch, caller>>

PackLeaves(c) ==
  /\ have[c] /\ have' = [have EXCEPT ![c] = FALSE]
  /\ fet' \in {fet, [fet EXCEPT ![c] = FALSE]}
  /\ UNCHANGED <<charger, mode, station, bpCmds, switch, caller>>

Next ==
  \/ Station \/ BpDisplaced \/ CallStarts
  \/ \E ok \in BOOLEAN : BpAnswer(ok)
  \/ \E c \in Cabs :
       \/ StopStray(c) \/ Charged(c) \/ Discharged(c) \/ PackArrives(c) \/ PackLeaves(c)
       \/ \E enable \in BOOLEAN : EnableCab(c, enable)

Spec == Init /\ [][Next]_vars
-----------------------------------------------------------------------------
(* Properties.                                                              *)

Started == [cab : Cabs \cup {None}, cmd : {"CHARGING", "DISCHARGING"}]

TypeOK ==
  /\ charger \in Item
  /\ mode \in [Cabs -> {"ENABLE", "DISABLE", "BLACKLIST"}]
  /\ pc \in {"check", "find", "forced", "found", "watch", "stray", "cmd", "switched", "reset"}
  /\ call \in Started \cup {None}
  /\ bpCmds \in Seq(Order)
  /\ have \in [Cabs -> BOOLEAN] /\ fet \in [Cabs -> BOOLEAN] /\ switch \in [Cabs -> BOOLEAN]
  /\ calls \in Nat /\ api \in Started \cup {None}

(* The battery of cabinet m_cabCharging is looked up (m_bps[m_cabCharging]) *)
(* while the charger is charging and when a switch has been set: there is a *)
(* cabinet then, though calls start commands in the middle of chargerReset  *)
(* and of the slow call.                                                    *)
ChosenIsValid == charger.state = "CHARGED" \/ charger.wait => charger.cab \in Cabs

Asked(q, c) == \E i \in 1 .. Len(q) : q[i].cab = c

(* A charge that waits for its pack (m_cmdWait) has a command for that pack *)
(* at the battery service, although calls change m_cabCharging while the    *)
(* switch is being set and answers of older commands come in.               *)
AnswerDue ==
  charger.cmd = "CHARGING" /\ charger.wait /\ charger.success = -1 => Asked(bpCmds, charger.cab)

Charging == IF charger.state = "CHARGED" THEN charger.cab ELSE None
Service == INSTANCE ChargeService WITH Slots <- Cabs, Nobody <- None, charging <- Charging

(* As long as nobody calls, the charger goes from one cabinet to another    *)
(* only through having stopped.                                             *)
ChargeSpec == Service!Spec

(* "Charger %d is already discharged at cabinet %d" is what discharged()    *)
(* says of this state, and does nothing: the pack takes no current then.    *)
AlreadyDischarged ==
  \A c \in Cabs :
    charger.state = "DISCHARGED" /\ charger.cab = c /\ charger.cmd = "NONE" /\ have[c]
      => ~fet[c]

(* Statements that calls break too (README, section 6).                     *)
(* discharged() refuses a cabinet that is not the one charging ("This       *)
(* cabinet is NOT charging, please check again"): the charger is not taken  *)
(* from the cabinet it charges.                                             *)
KeepsCab ==
  [][charger.state = "CHARGED" /\ charger'.state = "CHARGED"
       => charger'.cab = charger.cab]_vars

(* "Force charged cabinet %d, BP: %s": there is a forced cabinet then.      *)
ForcedIsValid == pc = "forced" => charger.chargeForce # None

(* CHARGING_CAB_DISABLE, "Cabinet is disable for charging": the charger     *)
(* does not begin to charge such a cabinet.                                 *)
DisabledNotCharged ==
  [][charger.state = "DISCHARGED" /\ charger'.state = "CHARGED"
       => mode[charger'.cab] # "DISABLE"]_vars

(* "Charger %d is charged at cabinet %d": the switch of the cabinet is on.  *)
ChargedIsSwitched ==
  [][charger.state = "DISCHARGED" /\ charger'.state = "CHARGED"
       => switch[charger'.cab]]_vars
-----------------------------------------------------------------------------
(* The station's thread runs for ever and its timers expire; the battery    *)
(* service answers every command.  Of the world it is assumed that it does  *)
(* not fail for ever: a switch asked again and again moves in the end, and  *)
(* a pack obeys in the end, both while the charger waits for it and while   *)
(* it does not.                                                             *)
Obeys == BpAnswer(TRUE)

Fairness ==
  /\ WF_vars(\E ok \in BOOLEAN : BpAnswer(ok))
  /\ WF_vars(Station) /\ WF_vars(CallStarts)
  /\ SF_vars(CmdTimeout) /\ SF_vars(CmdSwitch) /\ SF_vars(Switched) /\ SF_vars(CmdDischarged)
  /\ SF_vars(charger.wait /\ Obeys) /\ SF_vars(~charger.wait /\ Obeys)
  /\ \A c \in Cabs : SF_vars(StopStray(c))

FairSpec == Spec /\ Fairness

(* "Discharged Command have to execute successfully, Tried again": every    *)
(* command of the charger ends, though a discharge is never given up.       *)
CommandEnds == charger.cmd # "NONE" ~> charger.cmd = "NONE"

(* "The BP do NOT choose to charge, but They is still Charging State. It's  *)
(* Dangerous, Turn Off Right NOW": while the charger charges one cabinet,   *)
(* another one does not go on charging for ever.                            *)
Stray(c) == charger.state = "CHARGED" /\ charger.cab # c /\ have[c] /\ fet[c]
StrayStopped == \A c \in Cabs : Stray(c) ~> ~Stray(c)
=============================================================================
