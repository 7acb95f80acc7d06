------------------------------ MODULE Upgrade ------------------------------
(* The firmware upgrade of battery packs: the queue of OtaService, the boot  *)
(* slave, its CANopen output, the SDO client they share with the battery     *)
(* manager, and the pack's bootloader at the other end (external).           *)
(* The service thread runs one loop after the other: app_co_process (the SDO *)
(* server, then the client), BpManager::process, OtaService::process.        *)
EXTENDS Naturals, Sequences

CONSTANTS
  Requests,     \* calls of requestUpgrade
  Slots, Slot,  \* slot each is for
  Foreign,      \* requests for a device that is not a battery pack
  Unreadable,   \* requests whose file cannot be read
  Segments,     \* segments of a firmware
  RepeatMax,    \* SM_BOOT_SLAVE_REPEAT_MAX
  NoteMax,      \* announcements of the bootloader under way
  FaultMax,     \* disturbances of all upgrades together
  None

ASSUME UpgradeAssumption ==
  /\ Slot \in [Requests -> Slots]
  /\ Foreign \subseteq Requests /\ Unreadable \subseteq Requests /\ None \notin Requests
  /\ Segments \in Nat \ {0} /\ RepeatMax \in Nat \ {0}
  /\ NoteMax \in Nat /\ FaultMax \in Nat

VARIABLES
  pc,          \* the part of the loop that runs next
  queue,       \* m_upgradingDevs
  item,        \* m_state of each request
  cur,         \* m_currentUpgradingDev
  flagged,     \* slots the cabinet manager holds to be upgrading
  sync,        \* BpCoCom::m_sync
  reboot,      \* the reboot command is with the battery manager
  report,      \* onUpgradingStatus of each request
  boot,        \* the boot slave, its output and the SDO client
  pack,        \* the bootloader
  notes,       \* announcements on their way to the station's SDO server
  dups,        \* announcements that came twice
  lost,        \* transfers that reached the pack and failed at the station
  cmds         \* commands the battery manager dispatched during upgrades

ota == <<queue, item, cur, flagged, sync, reboot, report>>
vars == <<pc, queue, item, cur, flagged, sync, reboot, report, boot, pack, notes,
          dups, lost, cmds>>

Parts == {"server", "client", "manager", "ota", "dead"}
After(part) == CASE part = "server" -> "client" [] part = "client" -> "manager"
                 [] part = "manager" -> "ota" [] OTHER -> "server"

ItemStates == {"new", "idle", "online", "reboot", "upgrading", "done"}
SlaveStates == {"none", "idle", "request", "info", "seg", "finish", "abort"}
Kinds == {"request", "addr", "data", "crc", "size", "fwcrc", "version", "cmd"}
InfoKinds == {"size", "fwcrc", "version"}
SegKinds == <<"addr", "data", "crc">>
FwKinds == <<"size", "fwcrc", "version">>

ASSUME KindAssumption == None \notin Kinds

Reports == {"ok", "timeout", "reboot", "download"}

TypeOK ==
  /\ pc \in Parts /\ queue \in Seq(Requests) /\ item \in [Requests -> ItemStates]
  /\ cur \in Requests \cup {None} /\ flagged \subseteq Slots
  /\ sync \in BOOLEAN /\ reboot \in BOOLEAN
  /\ report \in [Requests -> Seq(Reports)]
  /\ boot \in [state : SlaveStates, index : 0..Segments, seg : 0..Segments, waiting : BOOLEAN,
               repeat : 0..(RepeatMax + 1), due : BOOLEAN,
               out : {"idle", "request", "info", "seg"}, step : 0..3,
               status : {"idle", "busy", "success", "abort"},
               what : Kinds \cup {None}, sent : 0..Segments, got : BOOLEAN, cmd : BOOLEAN]
  /\ pack \in [addr : 0..Segments, data : 0..Segments,
               stored : SUBSET (1..Segments), info : SUBSET InfoKinds]
  /\ notes \in Seq({"ready", "loading"})
  /\ dups \in 0..FaultMax /\ lost \in 0..FaultMax /\ cmds \in 0..FaultMax

NoBoot == [state |-> "none", index |-> 0, seg |-> 0, waiting |-> FALSE, repeat |-> 0,
           due |-> TRUE, out |-> "idle", step |-> 0, status |-> "idle", what |-> None,
           sent |-> 0, got |-> FALSE, cmd |-> FALSE]
NewPack == [addr |-> 0, data |-> 0, stored |-> {}, info |-> {}]

Init ==
  /\ pc = "server" /\ queue = <<>> /\ item = [r \in Requests |-> "new"] /\ cur = None
  /\ flagged = {} /\ sync = TRUE /\ reboot = FALSE
  /\ report = [r \in Requests |-> <<>>]
  /\ boot = NoBoot /\ pack = NewPack /\ notes = <<>>
  /\ dups = 0 /\ lost = 0 /\ cmds = 0

CanDisturb == dups + lost + cmds < FaultMax

Goes(part) == pc = part /\ pc' = After(part)

----------------------------------------------------------------------------
(* OtaService *)

\* requestUpgrade, in a thread of the application
Request(r) ==
  /\ pc # "dead" /\ item[r] = "new"
  /\ queue' = Append(queue, r) /\ item' = [item EXCEPT ![r] = "idle"]
  /\ UNCHANGED <<pc, cur, flagged, sync, reboot, report, boot, pack, notes, dups,
                 lost, cmds>>

\* setUpgradingState(false) of the cabinet  (variant: that of the next request's).
UnflaggedNext == IF queue = <<>> THEN flagged ELSE flagged \ {Slot[Head(queue)]}
Unflagged == flagged \ {Slot[cur]}

(* The boot master: it has a slave while a pack is upgraded.  A slave that is *)
(* there gets the new file and output; the output starts anew.                *)
NewOutput(b) == [b EXCEPT !.out = "idle", !.step = 0]
AddSlave(b) ==
  IF b.state = "none" THEN NewOutput([NoBoot EXCEPT !.state = "idle"]) ELSE NewOutput(b)

(* The slave is freed, with its file and output.  The transfer the SDO client *)
(* still holds is displaced by the reboot of the next pack.                   *)
RemoveSlave == NoBoot

(* resetUpgrading: the next request has 30 s to come online.  With no upgrade *)
(* under way it reads through a null pointer.                                 *)
ResetUpgrading(error) ==
  IF cur = None
  THEN /\ pc' = "dead"
       /\ UNCHANGED <<queue, item, cur, flagged, sync, report, boot>>
  ELSE /\ pc' = After(pc)
       /\ report' = [report EXCEPT ![cur] = Append(@, error)]
       /\ flagged' = Unflagged /\ sync' = TRUE /\ boot' = RemoveSlave
       /\ cur' = None
       /\ item' = [r \in Requests |->
                     IF r = cur THEN "done"
                     ELSE IF queue # <<>> /\ r = Head(queue) THEN "online" ELSE item[r]]
       /\ UNCHANGED queue

HeadWaits == cur = None /\ queue # <<>>

\* The pack the request names did not come (back) into its slot.
HeadTimeout ==
  /\ Goes("ota") /\ HeadWaits /\ item[Head(queue)] = "online"
  /\ report' = [report EXCEPT ![Head(queue)] = Append(@, "timeout")]
  /\ item' = [item EXCEPT ![Head(queue)] = "done"]
  /\ queue' = Tail(queue)
  /\ UNCHANGED <<cur, flagged, sync, reboot, boot, pack, notes, dups, lost, cmds>>

\* prepareUpgradingDev: the pack is in its slot and is told to reboot.
HeadStarts ==
  /\ Goes("ota") /\ HeadWaits /\ Head(queue) \notin Foreign
  /\ cur' = Head(queue) /\ queue' = Tail(queue)
  /\ item' = [item EXCEPT ![Head(queue)] = "reboot"]
  /\ flagged' = flagged \cup {Slot[Head(queue)]}
  /\ reboot' = TRUE
  /\ UNCHANGED <<sync, report, boot, pack, notes, dups, lost, cmds>>

Upgrading == cur # None /\ item[cur] = "upgrading"

\* sm_boot_master_process runs the slave, if there is one.
SlaveRuns == Upgrading /\ boot.state # "none"

OtaRests ==
  /\ Goes("ota") /\ ~SlaveRuns
  /\ UNCHANGED <<ota, boot, pack, notes, dups, lost, cmds>>

(* The 5 s of the upgrade have run out while the command, started just before *)
(* it with the same 5 s, has a millisecond to go.                             *)
RebootTimeout ==
  /\ pc = "ota" /\ cur # None /\ item[cur] = "reboot"
  /\ ResetUpgrading("timeout")
  /\ UNCHANGED <<reboot, pack, notes, dups, lost, cmds>>

\* startUpgradingDev: the pack's bootloader starts as well.
StartUpgrading == boot' = AddSlave(boot) /\ pack' = NewPack /\ notes' = <<>>

\* The command succeeds: SYNC is switched off, the transfer begins.
RebootSucceeds ==
  /\ pc = "manager" /\ reboot /\ reboot' = FALSE
  /\ IF cur = None
     THEN pc' = "dead" /\ UNCHANGED <<item, sync, boot, pack, notes>>
     ELSE /\ pc' = "ota"
          /\ item' = [item EXCEPT ![cur] = "upgrading"] /\ sync' = FALSE
          /\ StartUpgrading
  /\ UNCHANGED <<queue, cur, flagged, report, dups, lost, cmds>>

\* It is aborted, or its time runs out.
RebootFails ==
  /\ pc = "manager" /\ reboot /\ reboot' = FALSE
  /\ ResetUpgrading("reboot")
  /\ UNCHANGED <<pack, notes, dups, lost, cmds>>

----------------------------------------------------------------------------
(* The battery manager goes on dispatching its commands.  BpCoCom collects no *)
(* answer while SYNC is off, so they end by their timeout of 5 s.             *)

Starts(b, what) ==
  [b EXCEPT !.status = "busy", !.what = what, !.sent = 0, !.got = FALSE]

ManagerDispatches ==
  /\ Goes("manager") /\ Upgrading /\ ~boot.cmd /\ boot.status = "idle" /\ CanDisturb
  /\ cmds' = cmds + 1
  /\ boot' = [Starts(boot, "cmd") EXCEPT !.cmd = TRUE]
  /\ UNCHANGED <<ota, pack, notes, dups, lost>>

\* resetCmd resets the status, whosever transfer is under way.
ManagerTimeout ==
  /\ Goes("manager") /\ boot.cmd
  /\ boot' = [boot EXCEPT !.cmd = FALSE, !.status = "idle"]
  /\ UNCHANGED <<ota, pack, notes, dups, lost, cmds>>

\* The answer to a command that outlived its upgrade is due in the next loop.
ManagerRests ==
  /\ Goes("manager") /\ ~(reboot /\ cur = None)
  /\ UNCHANGED <<ota, boot, pack, notes, dups, lost, cmds>>

----------------------------------------------------------------------------
(* The boot slave and its output *)

\* The request is sent again and again, but not while the client is busy.
SendRequest(b) == IF b.status = "busy" THEN b ELSE Starts(b, "request")

\* What the output sends next, if the status lets it.
OutputSends(b, again) ==
  CASE b.out = "request" /\ again -> SendRequest(b)
    [] b.out = "info" /\ b.step < 3 /\ b.status \in {"success", "idle"} ->
         [Starts(b, FwKinds[b.step + 1]) EXCEPT !.step = @ + 1]
    [] b.out = "seg" /\ b.step < 3 /\ b.status = "idle" ->
         [Starts(b, SegKinds[b.step + 1]) EXCEPT !.step = @ + 1]
    [] OTHER -> b

\* What the slave makes of it: confirm_fw_info and the failure of confirm_seg.
ConfirmInfo(b, ok) == IF ok THEN [b EXCEPT !.state = "finish"] ELSE [b EXCEPT !.due = TRUE]
RefuseSeg(b) == [b EXCEPT !.waiting = FALSE]

\* The status `old` it read first, answered to the slave and reset, whatever was sent since.
OutputAnswers(b, old) ==
  CASE old = "abort" ->
         [CASE b.out = "seg" -> RefuseSeg(b) [] b.out = "info" -> ConfirmInfo(b, FALSE)
            [] OTHER -> b
          EXCEPT !.step = 0, !.status = "idle"]
    [] old = "success" ->
         IF b.out = "info" /\ b.step = 3
         THEN [ConfirmInfo(b, TRUE) EXCEPT !.step = 0, !.status = "idle"]
         ELSE [b EXCEPT !.status = "idle"]
    [] OTHER -> b

Output(b, again) == OutputAnswers(OutputSends(b, again), b.status)

\* The slave has the output ask for an upgrade, or send the firmware's information or a segment.
RequestUpgrade(b) == [b EXCEPT !.out = "request"]
SetFwInfo(b) == [b EXCEPT !.out = "info", !.step = 0, !.status = "idle"]
SetSegFw(b) == [b EXCEPT !.out = "seg", !.step = 0, !.status = "idle"]

\* Its input holds the binary made of the hex file, cut into segments.
FileRead == cur \notin Unreadable

\* A counted attempt; the last one aborts.
Repeated(b) ==
  [b EXCEPT !.repeat = @ + 1, !.state = IF b.repeat + 1 >= RepeatMax THEN "abort" ELSE @]

\* The timer of a segment  (variant: restarted for ever).
TimedOutAgain(b) == [b EXCEPT !.due = FALSE]
TimedOut(b) == IF b.due THEN [b EXCEPT !.state = "abort", !.due = FALSE] ELSE b

\* The switch of sm_boot_slave_process, except for the states that end it.
SlaveSwitch(b) ==
  CASE b.state = "idle" /\ b.due -> [b EXCEPT !.state = "request", !.repeat = 0]
    [] b.state = "request" /\ b.due -> RequestUpgrade([Repeated(b) EXCEPT !.due = FALSE])
    [] b.state = "info" /\ b.due -> SetFwInfo([Repeated(b) EXCEPT !.due = FALSE])
    [] b.state = "seg" /\ ~b.waiting ->
         IF FileRead
         THEN TimedOut(SetSegFw([Repeated(b) EXCEPT !.seg = b.index + 1, !.waiting = TRUE]))
         ELSE b
    [] b.state = "seg" /\ b.waiting -> TimedOut(b)
    [] OTHER -> b

Processed(again) == Output(boot, again)

\* The next tick composes the frame of a new transfer from the segment then loaded.
Composed(b) == IF b.sent = 0 THEN [b EXCEPT !.sent = b.seg] ELSE b

SlaveProcess ==
  /\ Goes("ota") /\ SlaveRuns
  /\ \E again \in BOOLEAN :
       /\ Processed(again).state \notin {"finish", "abort"}
       /\ boot' = Composed(SlaveSwitch(Processed(again)))
  /\ UNCHANGED <<ota, pack, notes, dups, lost, cmds>>

\* The boot master tells the service and destroys the slave.
SlaveFinishes ==
  /\ pc = "ota" /\ SlaveRuns /\ Processed(TRUE).state = "finish"
  /\ ResetUpgrading("ok")
  /\ UNCHANGED <<reboot, pack, notes, dups, lost, cmds>>

SlaveAborts ==
  /\ pc = "ota" /\ SlaveRuns /\ Processed(TRUE).state = "abort"
  /\ ResetUpgrading("download")
  /\ UNCHANGED <<reboot, pack, notes, dups, lost, cmds>>

TimerExpires ==
  /\ pc # "dead" /\ boot.state # "none" /\ ~boot.due
  /\ boot' = [boot EXCEPT !.due = TRUE]
  /\ UNCHANGED <<pc, ota, pack, notes, dups, lost, cmds>>

----------------------------------------------------------------------------
(* app_co_process: the server takes an announcement of the bootloader ...     *)

\* The last segment  (variant: compared with the index that follows).
LastSegmentEarly(n) == n + 1 >= Segments
LastSegment(n) == n >= Segments

Confirmed(b) ==
  LET all == LastSegment(b.index + 1)
  IN [b EXCEPT !.index = @ + 1, !.state = IF all THEN "info" ELSE @, !.due = all,
               !.repeat = 0, !.waiting = FALSE, !.step = 0]

ConfirmReady(b) == [b EXCEPT !.state = "seg", !.due = FALSE]

\* A note that is no confirmation of a segment makes a requested slave ready.
Announced(b, note) ==
  CASE b.out = "seg" /\ note = "loading" /\ b.step >= 3 -> Confirmed(b)
    [] b.out = "request" -> ConfirmReady(b)
    [] OTHER -> b

ServerTakes ==
  /\ Goes("server") /\ notes # <<>>
  /\ boot' = Announced(boot, Head(notes))
  /\ \/ notes' = Tail(notes) /\ UNCHANGED dups
     \/ CanDisturb /\ dups' = dups + 1 /\ UNCHANGED notes
  /\ UNCHANGED <<ota, pack, lost, cmds>>

ServerRests ==
  Goes("server") /\ UNCHANGED <<ota, boot, pack, notes, dups, lost, cmds>>

(* ... and the client finishes the transfer under way.                        *)
ClientEnds ==
  /\ Goes("client") /\ boot.what # None
  /\ \/ /\ boot.got \/ boot.what = "cmd"
        /\ boot' = [boot EXCEPT !.status = "success", !.what = None, !.got = FALSE]
        /\ UNCHANGED lost
     \/ /\ boot.got => CanDisturb
        /\ lost' = lost + (IF boot.got THEN 1 ELSE 0)
        /\ boot' = [boot EXCEPT !.status = "abort", !.what = None, !.got = FALSE]
  /\ UNCHANGED <<ota, pack, notes, dups, cmds>>

ClientRests ==
  Goes("client") /\ UNCHANGED <<ota, boot, pack, notes, dups, lost, cmds>>

----------------------------------------------------------------------------
(* The bootloader (external).  It announces that it is ready when asked, and  *)
(* asks for the next segment once one is stored: its address, its data and a  *)
(* CRC that matches have come.                                                *)

Notes(note) == IF Len(notes) < NoteMax THEN {notes, Append(notes, note)} ELSE {notes}

PackTakes ==
  /\ pc # "dead" /\ boot.what \notin {None, "cmd"} /\ ~boot.got
  /\ boot' = [boot EXCEPT !.got = TRUE]
  /\ LET seg == boot.sent
         whole == boot.what = "crc" /\ seg # 0 /\ pack.addr = seg /\ pack.data = seg
     IN /\ pack' = [addr |-> IF boot.what = "addr" THEN seg ELSE pack.addr,
                    data |-> IF boot.what = "data" THEN seg ELSE pack.data,
                    stored |-> pack.stored \cup (IF whole THEN {seg} ELSE {}),
                    info |-> pack.info \cup ({boot.what} \cap InfoKinds)]
        /\ notes' \in CASE boot.what = "request" -> Notes("ready")
                        [] whole -> Notes("loading")
                        [] OTHER -> {notes}
  /\ UNCHANGED <<pc, ota, dups, lost, cmds>>

Next ==
  \/ \E r \in Requests : Request(r)
  \/ HeadTimeout \/ HeadStarts \/ OtaRests \/ RebootTimeout
  \/ RebootSucceeds \/ RebootFails
  \/ ManagerDispatches \/ ManagerTimeout \/ ManagerRests
  \/ SlaveProcess \/ SlaveFinishes \/ SlaveAborts \/ TimerExpires
  \/ ServerTakes \/ ServerRests \/ ClientEnds \/ ClientRests \/ PackTakes

Answers == RebootSucceeds \/ RebootFails
Loop ==
  \/ HeadTimeout \/ HeadStarts \/ OtaRests \/ RebootTimeout \/ RebootSucceeds \/ RebootFails
  \/ ManagerDispatches \/ ManagerTimeout \/ ManagerRests
  \/ SlaveProcess \/ SlaveFinishes \/ SlaveAborts
  \/ ServerTakes \/ ServerRests \/ ClientEnds \/ ClientRests

Fairness ==
  /\ WF_vars(Loop) /\ WF_vars(TimerExpires)
  /\ SF_vars(Answers) /\ SF_vars(ClientEnds) /\ SF_vars(ManagerTimeout)

Spec == Init /\ [][Next]_vars /\ Fairness

----------------------------------------------------------------------------
(* Four ways lead out of an upgrade (two timers, the answer to the reboot,    *)
(* the boot slave).  Whichever is taken, in whatever order with the commands  *)
(* of the manager and the requests that wait: the cabinet manager spares the  *)
(* slot of the upgrade under way and no other; SYNC, with the assignments and *)
(* the answers to commands, is off exactly while firmware is sent; and a boot *)
(* slave lives as long, so that none goes on with the file of an old one.     *)
WhileUpgrading ==
  pc # "dead" =>
    /\ flagged = IF cur = None THEN {} ELSE {Slot[cur]}
    /\ sync <=> ~Upgrading
    /\ boot.state # "none" <=> Upgrading

(* A success means that the pack has stored every segment, if every           *)
(* announcement came once, no answer to a transfer was lost and the battery   *)
(* manager sent no command of its own meanwhile.                              *)
Succeeds == \E r \in Requests : report'[r] = <<"ok">> /\ report[r] = <<>>
Stored == pack.stored = 1..Segments
SuccessIsStored == [][Succeeds /\ dups + lost + cmds = 0 => Stored]_vars

(* A success means it whatever the manager sent.  (Violated: the abort of a   *)
(* manager's command is taken for the segment's, which is sent again; its     *)
(* second announcement then confirms the next segment.)                       *)
SuccessIsAlwaysStored == [][Succeeds /\ dups + lost = 0 => Stored]_vars

(* The answer to a reboot finds its upgrade.  (Violated: the 5 s of the       *)
(* upgrade may run out just before those of the command.)                     *)
NeverDead == pc # "dead"

(* An upgrade that has begun ends, and leaves SYNC on.                        *)
UpgradeEnds == (cur # None) ~> (cur = None /\ sync)

(* A success means that size, CRC and version have come too.  (Violated: each *)
(* is displaced by the next if a tick does not run it to its end.)            *)
SuccessIsComplete ==
  [][Succeeds => pack.info = InfoKinds]_vars

(* Every request is reported in the end.  (Violated: a head that is no pack   *)
(* blocks those behind it.)                                                   *)
AllReported == \A r \in Requests : item[r] = "idle" ~> item[r] = "done"
=============================================================================
