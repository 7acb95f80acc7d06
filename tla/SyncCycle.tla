----------------------------- MODULE SyncCycle -----------------------------
(* The SDO client inside the station's communication cycle: CO_process,      *)
(* called once a millisecond, first advances the SYNC cycle and runs the     *)
(* client only from the third tick of a cycle on.  While a battery pack is   *)
(* upgraded SYNC is off and the position in the cycle stands still.          *)
EXTENDS SdoTransfer

CONSTANT Period      \* cycle_period_ms, in ticks

ASSUME PeriodAssumption == Period \in Nat /\ Period >= 3

VARIABLES
  index,     \* sync.index_in_cycle (and time_in_cycle_ms: a tick is 1 ms)
  valid      \* SYNC is produced: sync.msg.id.valid, BpCoCom::m_sync

cycle == <<index, valid>>
allVars == <<cli, req, buf, srv, shadow, od, toSrv, toCli, forced, clean, hurt, owed, index, valid>>

CycleTypeOK == index \in 0..(Period - 1) /\ valid \in BOOLEAN

CycleInit == Init /\ index = 0 /\ valid = TRUE

\* CO_SYNC_process of the producer; the SYNC frame and its counters are left out.
Advanced ==
  IF ~valid THEN index ELSE IF index + 1 >= Period THEN 0 ELSE index + 1

\* A tick of the client that finds nothing to do.
ClientQuiet ==
  /\ cli.state \notin {"dlReq", "ulReq"}
  /\ cli.state = "idle" \/ cli.rx = None
  /\ UNCHANGED vars

ClientTick == ClientStep \/ ClientTimeout \/ ClientQuiet

(* BpCoCom::sync(false): the answer to the reboot command is handled in the   *)
(* loop whose tick completed its transfer  (variant: when it is sent).        *)
RebootedEarly == cli.status = "busy"
Rebooted == cli.status # "success" /\ cli'.status = "success"

\* One loop of the service in which the millisecond has passed.
Tick ==
  /\ index' = Advanced
  /\ \/ Advanced >= 2 /\ ClientTick
     \/ Advanced < 2 /\ UNCHANGED vars
  /\ \/ valid' = valid
     \/ valid /\ Rebooted /\ valid' = FALSE

\* BpCoCom::sync(true), when the upgrade is over.
SyncOn == ~valid /\ valid' = TRUE /\ UNCHANGED <<vars, index>>

\* What the client's user, the server and the bus do between the ticks.
Others ==
  /\ \/ Start \/ SrvTimeout \/ SrvStep \/ SrvRestarts
     \/ DeliverSrv \/ DeliverCli \/ LoseSrv \/ LoseCli
  /\ UNCHANGED cycle

CycleNext == Tick \/ SyncOn \/ Others

CycleFairness ==
  /\ WF_allVars(Tick) /\ SF_allVars(Tick /\ ClientTimeout)
  /\ WF_allVars(SrvStep /\ UNCHANGED cycle) /\ SF_allVars(SrvTimeout /\ UNCHANGED cycle)
  /\ WF_allVars((DeliverSrv \/ LoseSrv) /\ UNCHANGED cycle)
  /\ WF_allVars((DeliverCli \/ LoseCli) /\ UNCHANGED cycle)

CycleSpec == CycleInit /\ [][CycleNext]_allVars /\ CycleFairness

----------------------------------------------------------------------------
(* SYNC is only ever switched off at a position of the cycle that runs the    *)
(* client: at another one the firmware would never be sent, and nothing would *)
(* switch SYNC on again.                                                      *)
FrozenInWindow == ~valid => index >= 2

(* The client of the cycle is the client of SdoTransfer, its fairness         *)
(* included: the ticks the cycle withholds starve no transfer.                *)
Transfer == Spec
=============================================================================
