---------------------------- MODULE BpManagement ----------------------------
(***************************************************************************)
(* The battery-pack service of the station: BpManager (command queue and   *)
(* battery records), BpCoCom (the one command in progress on the CAN bus)  *)
(* and BpAssignModule (giving a pack its CAN node id), which all run on    *)
(* the thread BssDevice::bpServiceRun.  One loop of that thread is         *)
(*                                                                         *)
(*   "can"    app_co_process: frames are received, the SDO client advances *)
(*   "assign" BpAssignModule::process                                      *)
(*   "select", "auth"  the rest of it, after a slow node-id line call      *)
(*   "resp"   BpCoCom::cmdHandleResponse                                   *)
(*   "bps"    the loop over m_bps of BpManager::process, one pack a step   *)
(*   "cmd"    the next command of the queue is started, or the command in  *)
(*            progress runs out of time                                    *)
(*                                                                         *)
(* The other threads (cabinet service, charger service, API) call resetBp, *)
(* assign, setCmd and assignDeviceToBp between any two of these steps.     *)
(* Clocks are abstract: a running timer may or may not have expired.  The  *)
(* SDO client is reduced to its status word and the transfer in progress.  *)
(* The packs and the doors are the environment.                            *)
(***************************************************************************)
EXTENDS Integers, Sequences, FiniteSets, Functions

CONSTANTS BpNumber,   \* m_bpNumber: slots 0 .. BpNumber-1
          Pack,       \* physical battery packs
          Device,     \* serial numbers of devices a pack can be matted with
          None,       \* a null pointer or an empty string
          Served,     \* slots whose door is opened and whose pack restarts
          QueueMax,   \* clients call only while about so many commands are outstanding
          RetryMax    \* BP_ASSIGNING_RETRY_MAX

ASSUME BpAssumption ==
  /\ BpNumber \in Nat \ {0}
  /\ Served \subseteq 0 .. BpNumber - 1
  /\ QueueMax \in Nat
  /\ RetryMax \in Nat

VARIABLES
  bp,         \* m_bps: the battery record of every slot
  assigning,  \* BpAssignModule::m_assigningBp
  retry,      \* BpAssignModule::m_retry
  queue,      \* BpManager::m_cmdQueue
  current,    \* BpManager::m_currentCmd
  comCurrent, \* BpCoCom::m_currentCmd
  sdo,        \* CO_DEVICE.sdo_client
  pc, scan,   \* where the service thread is, and the next pack of its loop
  conn,       \* serial number the observer was last told for every slot
  pack,       \* the pack in every slot
  addressed,  \* the pack of the slot has taken the node id of the slot
  door,       \* the door of every slot, as the cabinet service last saw it
  matted      \* the device number every pack has in its object dictionary

mgrVars == <<queue, current, comCurrent, sdo>>
asgVars == <<assigning, retry>>
thread  == <<pc, scan>>
env     == <<pack, addressed, door, matted>>
vars    == <<bp, asgVars, mgrVars, thread, conn, env>>
-----------------------------------------------------------------------------
Bps == 0 .. BpNumber - 1

Waits  == {"WAIT_REQUEST", "SLAVE_SELECT", "WAIT_CONFIRM"}
Middle == Waits \cup {"START", "SLAVE_SELECT_CONFIRM", "AUTHORIZING_START", "AUTHORIZING"}
State  == Middle \cup {"ASSIGNED", "FAILURE"}

(* CONTROL stands for REBOOT, CHARGED and DISCHARGED, whose callbacks       *)
(* belong to the charger and OTA services.                                  *)
Op   == {"READ_SN", "READ_VERSION", "READ_ASSIGNED", "WRITE_ASSIGNED", "CONTROL"}
InitOp == {"READ_VERSION", "READ_ASSIGNED"}
(* dev: the number the caller of assignDeviceToBp asked for (the code keeps *)
(* only a pointer to the buffer of the battery record).                     *)
Cmd  == [bp : Bps, op : Op, dev : Device \cup {None}]

(* A serial number as read: whose it is, and whether all of it arrived.     *)
Sn == [of : Pack, whole : BOOLEAN]

(* A null pointer and an empty string are told from everything else.        *)
ASSUME NoneAssumption ==
  /\ None \notin Bps /\ None \notin Pack /\ None \notin Device
  /\ None \notin Cmd /\ None \notin Sn

VersionMax == 2    \* m_info.m_version is followed up to two readings
InitMax    == 2    \* m_initStep is followed up to 2, its last value

BpRecord == [status  : State,
             sn      : Sn \cup {None},                \* m_sn, the SDO buffer
             info    : Sn \cup {None},                \* m_info.m_sn
             version : 0 .. VersionMax,               \* readings in m_info.m_version
             asgBuf  : Device \cup {None},            \* m_assignedSn, the SDO buffer
             waiting : BOOLEAN,                       \* m_waitingCmd
             step    : 0 .. InitMax]                  \* m_initStep

Blank == [status |-> "FAILURE", sn |-> None, info |-> None, version |-> 0, asgBuf |-> None, waiting |-> FALSE, step |-> 0]

Sdo == [status : {"idle", "busy", "success", "abort"},
        active : BOOLEAN,            \* state # CO_SDO_ST_IDLE
        cmd    : Cmd \cup {None}]    \* what the last transfer was started for

Pc == {"can", "assign", "select", "auth", "resp", "bps", "cmd"}

Command(b, op, d) == [bp |-> b, op |-> op, dev |-> d]
Outstanding == Len(queue) + (IF current = None THEN 0 ELSE 1)
Min2(a, b)  == IF a < b THEN a ELSE b
-----------------------------------------------------------------------------
Init ==
  /\ bp = [b \in Bps |-> Blank]
  /\ assigning = None /\ retry = 0
  /\ queue = <<>> /\ current = None /\ comCurrent = None
  /\ sdo = [status |-> "idle", active |-> FALSE, cmd |-> None]
  /\ pc = "can" /\ scan = 0
  /\ conn = [b \in Bps |-> None]
  /\ pack \in [Bps -> Pack \cup {None}]
  /\ \A b, c \in Bps : b # c /\ pack[b] # None => pack[b] # pack[c]
  /\ addressed = [b \in Bps |-> FALSE]
  /\ door = [b \in Bps |-> "closed"]
  /\ matted = [p \in Pack |-> None]
-----------------------------------------------------------------------------
(* The transfer of a command: an upload into, or a download from, a buffer  *)
(* of the battery record, at the node id of its slot.                       *)
Transfer(c) == [status |-> "busy", active |-> TRUE, cmd |-> c]

(* What a command starts on the SDO client (BpCoCom::cmdHandle): nothing    *)
(* when the pack is in FAILURE.                                             *)
Started(c, s, status) == IF status # "FAILURE" THEN Transfer(c) ELSE s

(* The record of the command's pack after its callback.                     *)
AfterCallback(c, ok) ==
  LET r == bp[c.bp] IN
  CASE c.op = "READ_SN" ->
         [r EXCEPT !.status = IF assigning = c.bp /\ r.status = "AUTHORIZING"
                              THEN "ASSIGNED" ELSE @]
    [] c.op = "READ_VERSION" ->
         IF ok THEN [r EXCEPT !.version = Min2(@ + 1, VersionMax),
                              !.step = Min2(@ + 1, InitMax), !.waiting = FALSE]
               ELSE [r EXCEPT !.waiting = FALSE]
    [] c.op = "READ_ASSIGNED" ->
         IF ok THEN [r EXCEPT !.step = Min2(@ + 1, InitMax), !.waiting = FALSE]
               ELSE [r EXCEPT !.waiting = FALSE]
    [] OTHER -> r

(* notifyAssigningState(FAILURE), bp->reset(), BpAssignModule::reset()      *)
(* (variant: without bp->reset()).                                          *)
FailAssignKeepsBp(b) ==
  /\ assigning' = None /\ retry' = 0
  /\ UNCHANGED bp

FailAssign(b) ==
  /\ bp' = [bp EXCEPT ![b] = Blank]
  /\ assigning' = None /\ retry' = 0

(* setCmd with _force: the command in progress goes back to the queue       *)
(* (variant: it is forgotten).                                              *)
ForceCmdDrops(c, status) ==
  /\ current' = c /\ comCurrent' = c
  /\ sdo' = Started(c, [sdo EXCEPT !.status = "idle"], status)
  /\ UNCHANGED queue

ForceCmd(c, status) ==
  /\ queue' = IF current = None THEN queue ELSE Append(queue, current)
  /\ current' = c /\ comCurrent' = c
  /\ sdo' = Started(c, [sdo EXCEPT !.status = "idle"], status)
-----------------------------------------------------------------------------
(* The service thread, step by step.                                        *)

(* recvAssignedData: an assignment frame of the pack whose line is low.     *)
CanFrame ==
  /\ pc = "can"
  /\ \E b \in Bps :
       /\ assigning = b /\ pack[b] # None
       /\ \/ /\ bp[b].status = "WAIT_REQUEST"
             /\ bp' = [bp EXCEPT ![b].status = "START"]
             /\ UNCHANGED addressed
          \/ /\ bp[b].status = "SLAVE_SELECT"
             /\ bp' = [bp EXCEPT ![b].status = "SLAVE_SELECT_CONFIRM"]
             /\ UNCHANGED addressed
          \/ /\ bp[b].status = "WAIT_CONFIRM"
             /\ bp' = [bp EXCEPT ![b].status = "AUTHORIZING_START"]
             /\ addressed' = [addressed EXCEPT ![b] = TRUE]
  /\ UNCHANGED <<asgVars, mgrVars, thread, conn, pack, door, matted>>

EndSdo ==
  /\ pc' = "assign"
  /\ UNCHANGED <<asgVars, queue, current, comCurrent, scan, conn, pack, addressed, door>>

(* CO_process did not run (its period is not over, or the SYNC cycle is in  *)
(* the slot of the TPDOs), or there is nothing to do.                       *)
SdoQuiet ==
  /\ pc = "can"
  /\ UNCHANGED <<bp, sdo, matted>>
  /\ EndSdo

(* A transfer without news: the status is busy, whatever it was reset to.   *)
SdoBusy ==
  /\ pc = "can" /\ sdo.active
  /\ sdo' = [sdo EXCEPT !.status = "busy"]
  /\ UNCHANGED <<bp, matted>>
  /\ EndSdo

(* A first segment of a serial number is written to m_sn.                   *)
SdoSegment ==
  /\ pc = "can" /\ sdo.active /\ sdo.cmd.op = "READ_SN"
  /\ addressed[sdo.cmd.bp]
  /\ bp' = [bp EXCEPT ![sdo.cmd.bp].sn = [of |-> pack[sdo.cmd.bp], whole |-> FALSE]]
  /\ sdo' = [sdo EXCEPT !.status = "busy"]
  /\ UNCHANGED matted
  /\ EndSdo

SdoSuccess ==
  /\ pc = "can" /\ sdo.active /\ addressed[sdo.cmd.bp]
  /\ LET b == sdo.cmd.bp
         p == pack[b] IN
       /\ bp' = CASE sdo.cmd.op = "READ_SN" ->
                       [bp EXCEPT ![b].sn = [of |-> p, whole |-> TRUE]]
                  [] sdo.cmd.op = "READ_ASSIGNED" -> [bp EXCEPT ![b].asgBuf = matted[p]]
                  [] OTHER -> bp
       /\ matted' = IF sdo.cmd.op = "WRITE_ASSIGNED"
                    THEN [matted EXCEPT ![p] = bp[b].asgBuf] ELSE matted
  /\ sdo' = [sdo EXCEPT !.status = "success", !.active = FALSE]
  /\ EndSdo

(* The pack aborts the transfer, or the timeout of the SDO client expires.  *)
SdoAbort ==
  /\ pc = "can" /\ sdo.active
  /\ sdo' = [sdo EXCEPT !.status = "abort", !.active = FALSE]
  /\ UNCHANGED <<bp, matted>>
  /\ EndSdo

SdoStep == SdoQuiet \/ SdoBusy \/ SdoSegment \/ SdoSuccess \/ SdoAbort

(* BpAssignModule::process.  The node-id line is set over the cabinet's     *)
(* serial port, which takes long: what follows the call is a step of its    *)
(* own ("select", "auth").                                                  *)
AssignQuiet ==
  /\ pc = "assign"
  /\ assigning # None => bp[assigning].status \in Waits \cup {"AUTHORIZING"}
  /\ pc' = "resp"
  /\ UNCHANGED <<bp, asgVars, mgrVars, scan, conn, env>>

(* The states process() leaves when their timer expires (variant: no timer  *)
(* runs while the pack confirms its node id).                               *)
TimedNoConfirm == {"WAIT_REQUEST", "SLAVE_SELECT", "AUTHORIZING"}
Timed == Waits \cup {"AUTHORIZING"}

AssignTimeout ==
  /\ pc = "assign" /\ assigning # None
  /\ bp[assigning].status \in Timed
  /\ bp' = [bp EXCEPT ![assigning].status = "FAILURE"]
  /\ pc' = "resp"
  /\ UNCHANGED <<asgVars, mgrVars, scan, conn, env>>

AssignCallLine ==
  /\ pc = "assign" /\ assigning # None
  /\ \/ bp[assigning].status = "START" /\ pc' = "select"
     \/ bp[assigning].status = "AUTHORIZING_START" /\ pc' = "auth"
  /\ UNCHANGED <<bp, asgVars, mgrVars, scan, conn, env>>

AssignLineFailed ==
  /\ pc \in {"select", "auth"}
  /\ FailAssign(assigning)
  /\ pc' = "resp"
  /\ UNCHANGED <<mgrVars, scan, conn, env>>

AssignSelected ==
  /\ pc = "select"
  /\ bp' = [bp EXCEPT ![assigning].status = "SLAVE_SELECT"]
  /\ pc' = "resp"
  /\ UNCHANGED <<asgVars, mgrVars, scan, conn, env>>

AssignAuthorize ==
  /\ pc = "auth"
  /\ ForceCmd(Command(assigning, "READ_SN", None), bp[assigning].status)
  /\ bp' = [bp EXCEPT ![assigning].status = "AUTHORIZING"]
  /\ pc' = "resp"
  /\ UNCHANGED <<asgVars, scan, conn, env>>

AssignSendNodeId ==
  /\ pc = "assign" /\ assigning # None
  /\ bp[assigning].status = "SLAVE_SELECT_CONFIRM"
  /\ bp' = [bp EXCEPT ![assigning].status = "WAIT_CONFIRM"]
  /\ pc' = "resp"
  /\ UNCHANGED <<asgVars, mgrVars, scan, conn, env>>

(* ASSIGNED, but m_sn is empty: the serial number is read again, at most    *)
(* RetryMax times.                                                          *)
RetriesSpent == retry >= RetryMax

AssignNoSn ==
  /\ pc = "assign" /\ assigning # None
  /\ bp[assigning].status = "ASSIGNED" /\ bp[assigning].sn = None
  /\ IF RetriesSpent
     THEN /\ bp' = [bp EXCEPT ![assigning].status = "FAILURE"]
          /\ UNCHANGED retry
     ELSE /\ bp' = [bp EXCEPT ![assigning].status = "AUTHORIZING_START"]
          /\ retry' = retry + 1
  /\ pc' = "resp"
  /\ UNCHANGED <<assigning, mgrVars, scan, conn, env>>

(* ASSIGNED with a serial number: notifyAssigningState tells the observer   *)
(* (variant: whatever became of the pack since its number was read).        *)
CanConnectAny == bp[assigning].sn # None
CanConnect == bp[assigning].status = "ASSIGNED" /\ bp[assigning].sn # None

AssignConnect ==
  /\ pc = "assign" /\ assigning # None
  /\ CanConnect
  /\ bp' = [bp EXCEPT ![assigning].info = bp[assigning].sn]
  /\ conn' = [conn EXCEPT ![assigning] = bp[assigning].sn]
  /\ assigning' = None /\ retry' = 0
  /\ pc' = "resp"
  /\ UNCHANGED <<mgrVars, scan, env>>

AssignFailure ==
  /\ pc = "assign" /\ assigning # None
  /\ bp[assigning].status = "FAILURE"
  /\ FailAssign(assigning)
  /\ pc' = "resp"
  /\ UNCHANGED <<mgrVars, scan, conn, env>>

AssignStep ==
  \/ AssignQuiet \/ AssignTimeout \/ AssignCallLine \/ AssignLineFailed
  \/ AssignSelected \/ AssignAuthorize \/ AssignSendNodeId
  \/ AssignNoSn \/ AssignConnect \/ AssignFailure

(* The end of a transfer, for the command in progress if there is one.      *)
Respond ==
  /\ pc = "resp" /\ comCurrent # None /\ sdo.status \in {"success", "abort"}
  /\ bp' = [bp EXCEPT ![comCurrent.bp] = AfterCallback(comCurrent, sdo.status = "success")]
  /\ comCurrent' = None /\ current' = None
  /\ sdo' = [sdo EXCEPT !.status = "idle"]
  /\ pc' = "bps"
  /\ UNCHANGED <<asgVars, queue, scan, conn, env>>

RespondNothing ==
  /\ pc = "resp" /\ (comCurrent = None \/ sdo.status \in {"idle", "busy"})
  /\ sdo' = IF comCurrent = None /\ sdo.status = "abort"
            THEN [sdo EXCEPT !.status = "idle"] ELSE sdo
  /\ pc' = "bps"
  /\ UNCHANGED <<bp, asgVars, queue, current, comCurrent, scan, conn, env>>

(* One turn of the loop over m_bps: the reading an assigned pack still      *)
(* lacks is queued, and a pack not heard of for m_timeout is disconnected.  *)
Lacks(r) ==
  IF r.status # "ASSIGNED" \/ r.waiting THEN None
  ELSE IF r.version = 0 /\ r.step = 0 THEN "READ_VERSION"
  ELSE IF r.step = 1 THEN "READ_ASSIGNED" ELSE None

ScanBp ==
  /\ pc = "bps"
  /\ LET op == Lacks(bp[scan]) IN
       /\ queue' = IF op = None THEN queue ELSE Append(queue, Command(scan, op, None))
       /\ \/ /\ bp' = [bp EXCEPT ![scan].waiting = @ \/ op # None]
             /\ UNCHANGED conn
          \/ /\ bp[scan].status = "ASSIGNED"
             /\ bp' = [bp EXCEPT ![scan] = Blank]
             /\ conn' = [conn EXCEPT ![scan] = None]
  /\ IF scan + 1 < BpNumber THEN scan' = scan + 1 /\ UNCHANGED pc
                            ELSE scan' = 0 /\ pc' = "cmd"
  /\ UNCHANGED <<asgVars, current, comCurrent, sdo, env>>

(* The next command is started, which also resets its timer ...             *)
CanDispatch == queue # <<>> /\ current = None /\ sdo.status = "idle"

Dispatch ==
  /\ pc = "cmd" /\ CanDispatch
  /\ current' = Head(queue) /\ comCurrent' = Head(queue)
  /\ queue' = Tail(queue)
  /\ sdo' = Started(Head(queue), sdo, bp[Head(queue).bp].status)
  /\ pc' = "can"
  /\ UNCHANGED <<bp, asgVars, scan, conn, env>>

NoDispatch ==
  /\ pc = "cmd" /\ ~CanDispatch
  /\ pc' = "can"
  /\ UNCHANGED <<bp, asgVars, mgrVars, scan, conn, env>>

(* ... or the timer of the command in progress expires.                     *)
CmdTimeout ==
  /\ pc = "cmd" /\ current # None
  /\ bp' = [bp EXCEPT ![current.bp] = AfterCallback(current, FALSE)]
  /\ current' = None /\ comCurrent' = None
  /\ sdo' = [sdo EXCEPT !.status = "idle"]
  /\ pc' = "can"
  /\ UNCHANGED <<asgVars, queue, scan, conn, env>>

ServiceStep ==
  \/ SdoStep \/ AssignStep \/ Respond \/ RespondNothing
  \/ ScanBp \/ Dispatch \/ NoDispatch \/ CmdTimeout
-----------------------------------------------------------------------------
(* Calls of the other services.  QueueMax bounds what they may leave        *)
(* outstanding; the code has no such bound, and the proofs need none.       *)

(* BpManager::assign of a pack in FAILURE; one in the middle of its         *)
(* assignment is left alone, and the callers ask for none that is ASSIGNED. *)
(* BpAssignModule::m_lock keeps it out of process().  The pack it takes     *)
(* over from is dropped.                                                    *)
Dropped(b) ==
  IF assigning \in Bps \ {b} THEN [bp EXCEPT ![assigning].status = "FAILURE"] ELSE bp

Assign(b) ==
  /\ pc \notin {"select", "auth"}
  /\ Len(queue) <= QueueMax
  /\ bp[b].status = "FAILURE"
  /\ \/ /\ bp' = [Dropped(b) EXCEPT ![b].status = "WAIT_REQUEST"]
        /\ assigning' = b
     \/ /\ bp' = [Dropped(b) EXCEPT ![b] = Blank]
        /\ assigning' = None
  /\ retry' = 0
  /\ UNCHANGED <<mgrVars, thread, conn, env>>

(* BpManager::resetBp (variants: the observer is not told; m_sn is kept).   *)
ResetToSilent(b) == bp' = [bp EXCEPT ![b] = Blank] /\ UNCHANGED conn

ResetToKeepsSn(b) ==
  /\ bp' = [bp EXCEPT ![b] = [Blank EXCEPT !.sn = bp[b].sn]]
  /\ conn' = IF bp[b].status = "ASSIGNED" THEN [conn EXCEPT ![b] = None] ELSE conn

ResetTo(b) ==
  /\ bp' = [bp EXCEPT ![b] = Blank]
  /\ conn' = IF bp[b].status = "ASSIGNED" THEN [conn EXCEPT ![b] = None] ELSE conn

(* The cabinet service resets a pack when its cabinet is lost ...           *)
CabinetLost(b) ==
  /\ ResetTo(b)
  /\ UNCHANGED <<asgVars, mgrVars, thread, env>>

(* ... and when it sees the door opened or closed.                          *)
DoorMoves(b) ==
  /\ b \in Served
  /\ door' = [door EXCEPT ![b] = IF @ = "closed" THEN "open" ELSE "closed"]
  /\ ResetTo(b)
  /\ UNCHANGED <<asgVars, mgrVars, thread, pack, addressed, matted>>

(* setCmd from the charger service.                                         *)
SetCmd(b) ==
  /\ Outstanding < QueueMax
  /\ queue' = Append(queue, Command(b, "CONTROL", None))
  /\ UNCHANGED <<bp, asgVars, current, comCurrent, sdo, thread, conn, env>>

(* setCmd(REBOOT, force) of the OTA service, which shares the thread.       *)
SetCmdForce(b) ==
  /\ pc = "can" /\ Outstanding < QueueMax
  /\ ForceCmd(Command(b, "CONTROL", None), bp[b].status)
  /\ UNCHANGED <<bp, asgVars, thread, conn, env>>

(* assignDeviceToBp: the number goes to the buffer m_assignedSn at once.    *)
AssignDevice(b, d) ==
  /\ Outstanding < QueueMax
  /\ bp[b].status = "ASSIGNED"
  /\ bp' = [bp EXCEPT ![b].asgBuf = d]
  /\ queue' = Append(queue, Command(b, "WRITE_ASSIGNED", d))
  /\ UNCHANGED <<asgVars, current, comCurrent, sdo, thread, conn, env>>
-----------------------------------------------------------------------------
(* The packs: one is put in or taken out while the door is open, and a pack *)
(* that restarts forgets its node id.                                       *)
SwapPack(b) ==
  /\ door[b] = "open"
  /\ \E p \in (Pack \cup {None}) \ {pack[b]} :
       /\ \A c \in Bps : p # None => pack[c] # p
       /\ pack' = [pack EXCEPT ![b] = p]
  /\ addressed' = [addressed EXCEPT ![b] = FALSE]
  /\ UNCHANGED <<bp, asgVars, mgrVars, thread, conn, door, matted>>

PackRestarts(b) ==
  /\ b \in Served /\ addressed[b]
  /\ addressed' = [addressed EXCEPT ![b] = FALSE]
  /\ UNCHANGED <<bp, asgVars, mgrVars, thread, conn, pack, door, matted>>

ClientStep ==
  \E b \in Bps :
    \/ Assign(b) \/ CabinetLost(b) \/ DoorMoves(b) \/ SetCmd(b) \/ SetCmdForce(b)
    \/ \E d \in Device : AssignDevice(b, d)
    \/ SwapPack(b) \/ PackRestarts(b)

Next == CanFrame \/ ServiceStep \/ ClientStep
Spec == Init /\ [][Next]_vars
-----------------------------------------------------------------------------
(* Properties.                                                              *)

TypeOK ==
  /\ bp \in [Bps -> BpRecord]
  /\ assigning \in Bps \cup {None} /\ retry \in 0 .. RetryMax
  /\ queue \in Seq(Cmd)
  /\ current \in Cmd \cup {None} /\ comCurrent \in Cmd \cup {None}
  /\ sdo \in Sdo
  /\ pc \in Pc /\ scan \in Bps
  /\ conn \in [Bps -> Sn \cup {None}]
  /\ pack \in [Bps -> Pack \cup {None}]
  /\ addressed \in [Bps -> BOOLEAN]
  /\ door \in [Bps -> {"open", "closed"}]
  /\ matted \in [Pack -> Device \cup {None}]

(* The commands nobody has answered yet.                                    *)
Pending == Range(queue) \cup ({current} \ {None})

(* Assignment frames carry no slot (COBID 0x70), so at most one pack may be *)
(* in the middle of the assignment, and it is the one the assign module     *)
(* works on: BpAssignModule::addBp drops the pack it replaces.              *)
SingleAssignment ==
  \A b \in Bps : bp[b].status \in Middle => assigning = b

(* The cabinet service and the battery service agree on which slots hold a  *)
(* connected pack, and on its serial number: every path that leaves         *)
(* ASSIGNED tells the observer, and none tells it of a pack that is not.    *)
ViewsAgree ==
  \A b \in Bps :
    /\ conn[b] # None <=> bp[b].status = "ASSIGNED" /\ assigning # b
    /\ conn[b] # None => conn[b] = bp[b].info

(* A pack that waits for an answer has a command that will bring it: the    *)
(* initialisation of a pack (m_waitingCmd) and its authorisation never wait *)
(* for a command that was dropped, though forced commands displace others,  *)
(* packs are reset under their commands and stale answers come in.          *)
AwaitedIsPending ==
  \A b \in Bps :
    /\ bp[b].waiting => \E c \in Pending : c.bp = b /\ c.op \in InitOp
    /\ bp[b].status = "AUTHORIZING" => \E c \in Pending : c.bp = b /\ c.op = "READ_SN"

(* The serial number the station shows for a closed slot is of the pack in  *)
(* the slot, whatever was still on the bus when the packs were exchanged.   *)
ShownIsPresent ==
  \A b \in Bps : conn[b] # None /\ door[b] = "closed" => conn[b].of = pack[b]

Copies(c, q, cur) ==
  Cardinality({i \in DOMAIN q : q[i] = c}) + (IF cur = c THEN 1 ELSE 0)

(* No command is lost: one leaves BpManager only when its callback is       *)
(* called, by the end of its transfer or by its timer.                      *)
NoCommandLost ==
  [][\A c \in Pending : Copies(c, queue', current') < Copies(c, queue, current)
       => c = current /\ pc \in {"resp", "cmd"}]_vars

(* BpCoCom logs "Bp %d command SUCCESS" for the command whose callback it   *)
(* calls: the transfer that succeeded must be the one of that command.      *)
SuccessIsOwn ==
  pc = "resp" /\ comCurrent # None /\ sdo.status = "success" => sdo.cmd = comCurrent

(* A failed reading of the serial number is tried again (the log says so):  *)
(* no pack is connected under a part of one.                                *)
ShownIsWhole == \A b \in Bps : conn[b] # None => conn[b].whole

(* Two statements the code does not keep either (README, section 6).        *)
(* m_info.m_version holds one reading of the version.                       *)
VersionOnce == \A b \in Bps : bp[b].version <= 1

(* A device number reported as written is the one its caller asked for.     *)
WrittenAsAsked ==
  (pc = "resp" /\ comCurrent # None /\ sdo.status = "success" /\ sdo.cmd = comCurrent
    /\ comCurrent.op = "WRITE_ASSIGNED")
  => matted[pack[comCurrent.bp]] = comCurrent.dev
-----------------------------------------------------------------------------
(* The service keeps the promise of SlotService.                            *)
Underway(b) == assigning = b /\ bp[b].status # "FAILURE"

View == [b \in Bps |-> IF conn[b] # None THEN "on"
                       ELSE IF Underway(b) THEN "assigning" ELSE "off"]

Slots == INSTANCE SlotService WITH Slots <- Bps, view <- View

(* Whatever the bus, the timers and the other threads do, the slots go      *)
(* through the steps of SlotService only: assignments never overlap, and a  *)
(* pack is announced only at the end of its own.                            *)
SlotsSpec == Slots!Spec
-----------------------------------------------------------------------------
(* The service thread runs for ever, and clocks run: a timer that keeps     *)
(* running expires, and a transfer that gets no answer is aborted.          *)
Fairness ==
  /\ WF_vars(ServiceStep)
  /\ SF_vars(AssignTimeout) /\ SF_vars(CmdTimeout) /\ SF_vars(SdoAbort)

FairSpec == Spec /\ Fairness

(* Every assignment ends, connected or failed, so that the assign module is *)
(* free for another pack: none of its states waits without a timer, and the *)
(* readings of an empty serial number are bounded.                          *)
AssignmentEnds == \A b \in Bps : Underway(b) ~> ~Underway(b)

(* "Push Bp %d command %s to queue, waiting for process": a queued command  *)
(* is eventually started.                                                   *)
QueueServed == queue # <<>> ~> current # None
=============================================================================
