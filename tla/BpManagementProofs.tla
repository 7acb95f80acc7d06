------------------------- MODULE BpManagementProofs -------------------------
(***************************************************************************)
(* The safety properties of BpManagement, and that it implements           *)
(* SlotService, for every number of slots, packs and devices and every     *)
(* bound.                                                                  *)
(***************************************************************************)
EXTENDS BpManagement, FiniteSetTheorems, TLAPS

(* What the types of the variables do not say of each other.               *)
Linked ==
  /\ comCurrent = current
  /\ sdo.active => sdo.cmd # None
  /\ pc \in {"select", "auth"} => assigning # None
  /\ \A b \in Bps : addressed[b] => pack[b] # None

TypeInv == TypeOK /\ Linked

LEMMA BlankType == Blank \in BpRecord
BY DEF Blank, BpRecord, State, VersionMax, InitMax

(* A record keeps its type when one of its fields is set.                   *)
LEMMA FieldTypes ==
  ASSUME NEW r \in BpRecord
  PROVE  /\ \A st \in State : [r EXCEPT !.status = st] \in BpRecord
         /\ \A s \in Sn \cup {None} : [r EXCEPT !.sn = s] \in BpRecord
         /\ \A s \in Sn \cup {None} : [r EXCEPT !.info = s] \in BpRecord
         /\ \A d \in Device \cup {None} : [r EXCEPT !.asgBuf = d] \in BpRecord
         /\ \A w \in BOOLEAN : [r EXCEPT !.waiting = w] \in BpRecord
BY DEF BpRecord

LEMMA BpUpdates ==
  ASSUME NEW f \in [Bps -> BpRecord], NEW b
  PROVE  /\ \A st \in State : [f EXCEPT ![b].status = st] \in [Bps -> BpRecord]
         /\ \A s \in Sn \cup {None} : [f EXCEPT ![b].sn = s] \in [Bps -> BpRecord]
         /\ \A s \in Sn \cup {None} : [f EXCEPT ![b].info = s] \in [Bps -> BpRecord]
         /\ \A d \in Device \cup {None} : [f EXCEPT ![b].asgBuf = d] \in [Bps -> BpRecord]
         /\ \A w \in BOOLEAN : [f EXCEPT ![b].waiting = w] \in [Bps -> BpRecord]
BY FieldTypes

LEMMA StateType == Middle \subseteq State /\ Waits \subseteq State /\ {"ASSIGNED", "FAILURE"} \subseteq State
BY DEF State, Middle

LEMMA CommandType ==
  ASSUME NEW b \in Bps, NEW op \in Op, NEW d \in Device \cup {None}
  PROVE  Command(b, op, d) \in Cmd
BY DEF Command, Cmd

LEMMA CallbackType ==
  ASSUME TypeOK, NEW c \in Cmd, NEW ok
  PROVE  AfterCallback(c, ok) \in BpRecord
<1> DEFINE r == bp[c.bp]
<1>1. r \in BpRecord
  BY DEF TypeOK, Cmd
<1>2. Min2(r.version + 1, VersionMax) \in 0 .. VersionMax /\ Min2(r.step + 1, InitMax) \in 0 .. InitMax
  BY <1>1 DEF BpRecord, Min2, VersionMax, InitMax
<1>3. "ASSIGNED" \in State
  BY DEF State
<1> QED
  BY <1>1, <1>2, <1>3 DEF AfterCallback, BpRecord

LEMMA InitType == Init => TypeInv
BY BpAssumption, BlankType DEF Init, TypeInv, TypeOK, Linked, Sdo, Pc, Bps

LEMMA CanFrameType == TypeInv /\ CanFrame => TypeInv'
<1> SUFFICES ASSUME TypeInv, CanFrame PROVE TypeInv'
  OBVIOUS
<1>1. PICK b \in Bps :
        /\ pack[b] # None
        /\ bp' \in {[bp EXCEPT ![b].status = st] : st \in State}
        /\ addressed' \in {addressed, [addressed EXCEPT ![b] = TRUE]}
  BY DEF CanFrame, State, Middle, Waits
<1>2. bp' \in [Bps -> BpRecord]
  <2>1. PICK st \in State : bp' = [bp EXCEPT ![b].status = st]
    BY <1>1
  <2>2. bp \in [Bps -> BpRecord]
    BY DEF TypeInv, TypeOK
  <2> QED BY <2>1, <2>2, BpUpdates
<1>3. addressed' \in [Bps -> BOOLEAN] /\ \A c \in Bps : addressed'[c] => pack[c] # None
  BY <1>1 DEF TypeInv, TypeOK, Linked
<1> QED
  BY <1>2, <1>3 DEF TypeInv, TypeOK, Linked, CanFrame, asgVars, mgrVars, thread

LEMMA SdoStepType == TypeInv /\ SdoStep => TypeInv'
<1> SUFFICES ASSUME TypeInv, SdoStep PROVE TypeInv'
  OBVIOUS
<1> DEFINE b == sdo.cmd.bp
<1> USE DEF TypeInv, TypeOK, Linked, EndSdo, asgVars, Sdo, Pc
<1>1. CASE SdoQuiet
  BY <1>1 DEF SdoQuiet
<1>2. CASE SdoBusy
  BY <1>2 DEF SdoBusy
<1>3. CASE SdoSegment
  <2>1. b \in Bps /\ pack[b] \in Pack
    BY <1>3 DEF SdoSegment, Cmd
  <2>2. bp' \in [Bps -> BpRecord]
    BY <1>3, <2>1, BpUpdates DEF SdoSegment, Sn
  <2> QED BY <1>3, <2>2 DEF SdoSegment
<1>4. CASE SdoSuccess
  <2>1. b \in Bps /\ pack[b] \in Pack /\ sdo' \in Sdo /\ ~sdo'.active
    BY <1>4 DEF SdoSuccess, Cmd
  <2>2. [of |-> pack[b], whole |-> TRUE] \in Sn
    BY <2>1 DEF Sn
  <2>3. bp' \in [Bps -> BpRecord]
    BY <1>4, <2>1, <2>2, BpUpdates DEF SdoSuccess
  <2>4. bp[b].asgBuf \in Device \cup {None}
    BY <2>1 DEF BpRecord
  <2>5. matted' \in [Pack -> Device \cup {None}]
    BY <1>4, <2>1, <2>4 DEF SdoSuccess
  <2> QED BY <1>4, <2>1, <2>3, <2>5 DEF SdoSuccess
<1>5. CASE SdoAbort
  BY <1>5 DEF SdoAbort
<1> QED
  BY <1>1, <1>2, <1>3, <1>4, <1>5 DEF SdoStep

LEMMA StartedType ==
  ASSUME NEW s \in Sdo, NEW c \in Cmd, NEW st, s.active => s.cmd # None
  PROVE  Started(c, s, st) \in Sdo /\ (Started(c, s, st).active => Started(c, s, st).cmd # None)
BY NoneAssumption DEF Started, Transfer, Sdo

LEMMA ForceCmdType ==
  ASSUME TypeInv, NEW c \in Cmd, NEW st, ForceCmd(c, st)
  PROVE  /\ queue' \in Seq(Cmd) /\ current' \in Cmd /\ comCurrent' = current'
         /\ sdo' \in Sdo /\ (sdo'.active => sdo'.cmd # None)
<1> DEFINE s == [sdo EXCEPT !.status = "idle"]
<1>1. s \in Sdo /\ (s.active => s.cmd # None)
  BY DEF TypeInv, TypeOK, Linked, Sdo
<1>2. sdo' \in Sdo /\ (sdo'.active => sdo'.cmd # None)
  BY <1>1, StartedType DEF ForceCmd
<1>3. queue' \in Seq(Cmd)
  BY DEF ForceCmd, TypeInv, TypeOK
<1> QED
  BY <1>2, <1>3 DEF ForceCmd

LEMMA AssignStepType == TypeInv /\ AssignStep => TypeInv'
<1> SUFFICES ASSUME TypeInv, AssignStep PROVE TypeInv'
  OBVIOUS
<1> USE DEF TypeInv, TypeOK, Linked, asgVars, mgrVars, env, Pc
<1>1. CASE AssignQuiet
  BY <1>1 DEF AssignQuiet
<1>2. CASE AssignTimeout
  BY <1>2, BpUpdates DEF AssignTimeout, State
<1>3. CASE AssignCallLine
  BY <1>3 DEF AssignCallLine
<1>4. CASE AssignLineFailed
  BY <1>4, BlankType, BpAssumption DEF AssignLineFailed, FailAssign
<1>5. CASE AssignSelected
  BY <1>5, BpUpdates DEF AssignSelected, State, Middle, Waits
<1>6. CASE AssignAuthorize
  <2>1. Command(assigning, "READ_SN", None) \in Cmd
    BY <1>6, CommandType DEF AssignAuthorize, Op
  <2>2. /\ queue' \in Seq(Cmd) /\ current' \in Cmd /\ comCurrent' = current'
        /\ sdo' \in Sdo /\ (sdo'.active => sdo'.cmd # None)
    BY <1>6, <2>1, ForceCmdType DEF AssignAuthorize
  <2>3. bp' \in [Bps -> BpRecord]
    BY <1>6, BpUpdates DEF AssignAuthorize, State, Middle
  <2> QED BY <1>6, <2>2, <2>3 DEF AssignAuthorize
<1>7. CASE AssignSendNodeId
  BY <1>7, BpUpdates DEF AssignSendNodeId, State, Middle, Waits
<1>8. CASE AssignNoSn
  <2>1. bp' \in [Bps -> BpRecord]
    <3>1. bp' \in {[bp EXCEPT ![assigning].status = st] : st \in {"FAILURE", "AUTHORIZING_START"}}
      BY <1>8 DEF AssignNoSn
    <3>2. PICK st \in {"FAILURE", "AUTHORIZING_START"} : bp' = [bp EXCEPT ![assigning].status = st]
      BY <3>1
    <3>3. st \in State
      BY StateType DEF Middle
    <3> QED BY <3>2, <3>3, BpUpdates
  <2>2. retry' \in 0 .. RetryMax
    BY <1>8, BpAssumption DEF AssignNoSn, RetriesSpent
  <2> QED BY <1>8, <2>1, <2>2 DEF AssignNoSn
<1>9. CASE AssignConnect
  <2>1. bp[assigning].sn \in Sn
    BY <1>9 DEF AssignConnect, CanConnect, BpRecord
  <2> QED BY <1>9, <2>1, BpUpdates, BpAssumption DEF AssignConnect, CanConnect
<1>10. CASE AssignFailure
  BY <1>10, BlankType, BpAssumption DEF AssignFailure, FailAssign
<1> QED
  BY <1>1, <1>2, <1>3, <1>4, <1>5, <1>6, <1>7, <1>8, <1>9, <1>10 DEF AssignStep

LEMMA CommandStepType ==
  TypeInv /\ (Respond \/ RespondNothing \/ ScanBp \/ Dispatch \/ NoDispatch \/ CmdTimeout) => TypeInv'
<1> SUFFICES ASSUME TypeInv,
                    Respond \/ RespondNothing \/ ScanBp \/ Dispatch \/ NoDispatch \/ CmdTimeout
             PROVE  TypeInv'
  OBVIOUS
<1> USE DEF TypeInv, TypeOK, Linked, asgVars, mgrVars, env, Pc
<1>1. CASE Respond
  <2>1. AfterCallback(comCurrent, sdo.status = "success") \in BpRecord
    BY <1>1, CallbackType DEF Respond
  <2>2. bp' \in [Bps -> BpRecord]
    BY <1>1, <2>1 DEF Respond
  <2> QED BY <1>1, <2>2 DEF Respond, Sdo
<1>2. CASE RespondNothing
  BY <1>2 DEF RespondNothing, Sdo
<1>3. CASE ScanBp
  <2> DEFINE op == Lacks(bp[scan])
  <2>1. op # None => op \in Op
    BY DEF Lacks, Op
  <2>2. queue' \in Seq(Cmd)
    BY <1>3, <2>1, CommandType DEF ScanBp
  <2>3. bp' \in [Bps -> BpRecord] /\ conn' \in [Bps -> Sn \cup {None}]
    <3>1. (bp[scan].waiting \/ op # None) \in BOOLEAN
      OBVIOUS
    <3>2. bp' \in {[bp EXCEPT ![scan].waiting = bp[scan].waiting \/ op # None], [bp EXCEPT ![scan] = Blank]}
      BY <1>3 DEF ScanBp
    <3>3. [bp EXCEPT ![scan].waiting = bp[scan].waiting \/ op # None] \in [Bps -> BpRecord]
      BY <3>1, BpUpdates
    <3> QED BY <1>3, <3>2, <3>3, BlankType DEF ScanBp
  <2>4. scan' \in Bps /\ pc' \in {"bps", "cmd"}
    BY <1>3, BpAssumption DEF ScanBp, Bps
  <2> QED BY <1>3, <2>2, <2>3, <2>4 DEF ScanBp
<1>4. CASE Dispatch
  <2>1. Head(queue) \in Cmd /\ Tail(queue) \in Seq(Cmd)
    BY <1>4 DEF Dispatch, CanDispatch
  <2>2. sdo' \in Sdo /\ (sdo'.active => sdo'.cmd # None)
    BY <1>4, <2>1, StartedType DEF Dispatch
  <2> QED BY <1>4, <2>1, <2>2 DEF Dispatch
<1>5. CASE NoDispatch
  BY <1>5 DEF NoDispatch
<1>6. CASE CmdTimeout
  BY <1>6, CallbackType DEF CmdTimeout, Sdo
<1> QED
  BY <1>1, <1>2, <1>3, <1>4, <1>5, <1>6

LEMMA ClientStepType == TypeInv /\ ClientStep => TypeInv'
<1> SUFFICES ASSUME TypeInv, NEW b \in Bps,
                    \/ Assign(b) \/ CabinetLost(b) \/ DoorMoves(b) \/ SetCmd(b) \/ SetCmdForce(b)
                    \/ \E d \in Device : AssignDevice(b, d)
                    \/ SwapPack(b) \/ PackRestarts(b)
             PROVE  TypeInv'
  BY DEF ClientStep
<1> USE DEF TypeInv, TypeOK, Linked, asgVars, mgrVars, thread, env, Pc
<1>1. CASE Assign(b)
  <2>1. Dropped(b) \in [Bps -> BpRecord]
    BY BpUpdates DEF Dropped, State
  <2>2. bp' \in [Bps -> BpRecord]
    <3>1. [Dropped(b) EXCEPT ![b].status = "WAIT_REQUEST"] \in [Bps -> BpRecord]
      BY <2>1, StateType, BpUpdates DEF Waits
    <3>2. [Dropped(b) EXCEPT ![b] = Blank] \in [Bps -> BpRecord]
      BY <2>1, BlankType
    <3> QED BY <1>1, <3>1, <3>2 DEF Assign
  <2> QED BY <1>1, <2>2, BpAssumption DEF Assign
<1>2. CASE CabinetLost(b)
  BY <1>2, BlankType DEF CabinetLost, ResetTo
<1>3. CASE DoorMoves(b)
  BY <1>3, BlankType DEF DoorMoves, ResetTo
<1>4. CASE SetCmd(b)
  BY <1>4, CommandType DEF SetCmd, Op
<1>5. CASE SetCmdForce(b)
  <2>1. Command(b, "CONTROL", None) \in Cmd
    BY CommandType DEF Op
  <2> QED BY <1>5, <2>1, ForceCmdType DEF SetCmdForce
<1>6. CASE \E d \in Device : AssignDevice(b, d)
  <2>1. PICK d \in Device : AssignDevice(b, d)
    BY <1>6
  <2>2. Command(b, "WRITE_ASSIGNED", d) \in Cmd
    BY CommandType DEF Op
  <2>3. bp' \in [Bps -> BpRecord]
    BY <2>1, BpUpdates DEF AssignDevice
  <2> QED BY <2>1, <2>2, <2>3 DEF AssignDevice
<1>7. CASE SwapPack(b)
  BY <1>7 DEF SwapPack
<1>8. CASE PackRestarts(b)
  BY <1>8 DEF PackRestarts
<1> QED
  BY <1>1, <1>2, <1>3, <1>4, <1>5, <1>6, <1>7, <1>8

LEMMA TypeStep == TypeInv /\ [Next]_vars => TypeInv'
<1>1. TypeInv /\ UNCHANGED vars => TypeInv'
  BY DEF TypeInv, TypeOK, Linked, vars, asgVars, mgrVars, thread, env
<1> QED
  BY <1>1, CanFrameType, SdoStepType, AssignStepType, CommandStepType, ClientStepType
     DEF Next, ServiceStep

LEMMA TypeInvariant == Spec => []TypeInv
BY InitType, TypeStep, PTL DEF Spec

(* Every variable keeps its type, for all slots, packs and bounds: among    *)
(* the rest, no more than RetryMax readings are tried, and the loop over    *)
(* m_bps stays in m_bps.                                                    *)
THEOREM TypeCorrect == Spec => []TypeOK
BY TypeInvariant, PTL DEF TypeInv
-----------------------------------------------------------------------------
(* A serial number read while the door is closed is of the pack inside.     *)
ReadIsPresent == \A b \in Bps : door[b] = "closed" /\ bp[b].sn # None => bp[b].sn.of = pack[b]

SlotInv == SingleAssignment /\ ViewsAgree /\ ReadIsPresent /\ ShownIsPresent

LEMMA CallbackFields ==
  ASSUME TypeOK, NEW c \in Cmd, NEW ok
  PROVE  LET r == bp[c.bp]
             a == AfterCallback(c, ok)
         IN /\ a.sn = r.sn /\ a.info = r.info
            /\ a.status = IF c.op = "READ_SN" /\ assigning = c.bp /\ r.status = "AUTHORIZING"
                          THEN "ASSIGNED" ELSE r.status
            /\ a.waiting => r.waiting /\ c.op \notin InitOp
BY DEF AfterCallback, TypeOK, Cmd, BpRecord, InitOp

LEMMA InitSlot == Init => SlotInv
BY NoneAssumption DEF Init, SlotInv, SingleAssignment, ViewsAgree, ReadIsPresent, ShownIsPresent,
                      Blank, Middle, Waits

(* The steps that change no battery record, view, pack or door.             *)
LEMMA SlotFrame == SlotInv /\ UNCHANGED <<bp, assigning, conn, pack, door>> => SlotInv'
BY DEF SlotInv, SingleAssignment, ViewsAgree, ReadIsPresent, ShownIsPresent

(* The steps that change the record of one pack and nothing else of these.  *)
LEMMA SlotRecord ==
  ASSUME TypeOK, SlotInv, NEW b \in Bps, NEW r \in BpRecord,
         bp' = [bp EXCEPT ![b] = r], UNCHANGED <<assigning, conn, pack, door>>,
         r.status \in Middle => assigning = b,
         r.status = "ASSIGNED" /\ assigning # b <=> bp[b].status = "ASSIGNED" /\ assigning # b,
         r.info = bp[b].info,
         door[b] = "closed" /\ r.sn # None => r.sn.of = pack[b]
  PROVE  SlotInv'
<1>1. \A c \in Bps : bp'[c] = IF c = b THEN r ELSE bp[c]
  BY DEF TypeOK
<1>2. SingleAssignment'
  BY <1>1 DEF SlotInv, SingleAssignment
<1>3. ViewsAgree'
  BY <1>1 DEF SlotInv, ViewsAgree
<1>4. ReadIsPresent'
  BY <1>1 DEF SlotInv, ReadIsPresent
<1>5. ShownIsPresent'
  BY <1>1 DEF SlotInv, ShownIsPresent
<1> QED BY <1>2, <1>3, <1>4, <1>5 DEF SlotInv

(* A pack that is reset, and the observer told if it knew of it.            *)
LEMMA SlotReset ==
  ASSUME TypeOK, SlotInv, NEW b \in Bps,
         bp' = [bp EXCEPT ![b] = Blank],
         conn' = [conn EXCEPT ![b] = None],
         assigning' = assigning \/ (assigning = b /\ assigning' = None),
         pack' = pack, \A c \in Bps \ {b} : door'[c] = door[c]
  PROVE  SlotInv'
<1>1. \A c \in Bps : bp'[c] = IF c = b THEN Blank ELSE bp[c]
  BY DEF TypeOK
<1>2. \A c \in Bps : conn'[c] = IF c = b THEN None ELSE conn[c]
  BY DEF TypeOK
<1>3. Blank.sn = None /\ Blank.status = "FAILURE" /\ Blank.status \notin Middle
  BY DEF Blank, Middle, Waits
<1>4. SingleAssignment'
  BY <1>1, <1>3 DEF SlotInv, SingleAssignment
<1>5. ViewsAgree'
  BY <1>1, <1>2, <1>3, NoneAssumption DEF SlotInv, ViewsAgree
<1>6. ReadIsPresent'
  BY <1>1, <1>3 DEF SlotInv, ReadIsPresent
<1>7. ShownIsPresent'
  BY <1>2 DEF SlotInv, ShownIsPresent
<1> QED BY <1>4, <1>5, <1>6, <1>7 DEF SlotInv

LEMMA SdoStepSlot == TypeInv /\ SlotInv /\ SdoStep => SlotInv'
<1> SUFFICES ASSUME TypeInv, SlotInv, SdoStep PROVE SlotInv'
  OBVIOUS
<1> USE DEF EndSdo, asgVars
<1> DEFINE b == sdo.cmd.bp
<1>t. TypeOK /\ bp \in [Bps -> BpRecord]
  BY DEF TypeInv, TypeOK
<1>1. CASE UNCHANGED bp
  BY <1>1, SlotFrame DEF SdoStep, SdoQuiet, SdoBusy, SdoSegment, SdoSuccess, SdoAbort
<1>2. CASE \E s \in Sn : /\ s.of = pack[b]
                         /\ b \in Bps /\ bp' = [bp EXCEPT ![b].sn = s]
  <2>1. PICK s \in Sn : s.of = pack[b] /\ b \in Bps /\ bp' = [bp EXCEPT ![b].sn = s]
    BY <1>2
  <2> DEFINE r == [bp[b] EXCEPT !.sn = s]
  <2>2. r \in BpRecord /\ bp' = [bp EXCEPT ![b] = r]
    BY <1>t, <2>1, FieldTypes
  <2>3. r.status = bp[b].status /\ r.info = bp[b].info /\ r.sn = s
    BY <1>t, <2>1 DEF BpRecord
  <2>4. UNCHANGED <<assigning, conn, pack, door>>
    BY DEF SdoStep, SdoQuiet, SdoBusy, SdoSegment, SdoSuccess, SdoAbort
  <2>5. r.status \in Middle => assigning = b
    BY <2>1, <2>3 DEF SlotInv, SingleAssignment
  <2> HIDE DEF r
  <2> QED BY <1>t, <2>1, <2>2, <2>3, <2>4, <2>5, SlotRecord
<1>3. CASE \E d : b \in Bps /\ bp' = [bp EXCEPT ![b].asgBuf = d] /\ d \in Device \cup {None}
  <2>1. PICK d \in Device \cup {None} : b \in Bps /\ bp' = [bp EXCEPT ![b].asgBuf = d]
    BY <1>3
  <2> DEFINE r == [bp[b] EXCEPT !.asgBuf = d]
  <2>2. r \in BpRecord /\ bp' = [bp EXCEPT ![b] = r]
    BY <1>t, <2>1, FieldTypes
  <2>3. r.status = bp[b].status /\ r.info = bp[b].info /\ r.sn = bp[b].sn
    BY <1>t, <2>1 DEF BpRecord
  <2>4. UNCHANGED <<assigning, conn, pack, door>>
    BY DEF SdoStep, SdoQuiet, SdoBusy, SdoSegment, SdoSuccess, SdoAbort
  <2>5. (r.status \in Middle => assigning = b) /\ (door[b] = "closed" /\ r.sn # None => r.sn.of = pack[b])
    BY <2>1, <2>3 DEF SlotInv, SingleAssignment, ReadIsPresent
  <2> HIDE DEF r
  <2> QED BY <1>t, <2>1, <2>2, <2>3, <2>4, <2>5, SlotRecord
<1>4. SdoSegment \/ SdoSuccess => b \in Bps /\ pack[b] \in Pack
  BY DEF SdoSegment, SdoSuccess, TypeInv, TypeOK, Linked, Sdo, Cmd
<1>5. CASE SdoSegment
  <2>1. [of |-> pack[b], whole |-> FALSE] \in Sn
    BY <1>4, <1>5 DEF Sn
  <2> QED BY <1>2, <1>4, <1>5, <2>1 DEF SdoSegment
<1>6. CASE SdoSuccess
  <2>1. [of |-> pack[b], whole |-> TRUE] \in Sn
    BY <1>4, <1>6 DEF Sn
  <2>2. matted[pack[b]] \in Device \cup {None}
    BY <1>4, <1>6 DEF TypeInv, TypeOK
  <2> QED BY <1>1, <1>2, <1>3, <1>4, <1>6, <2>1, <2>2 DEF SdoSuccess
<1> QED BY <1>1, <1>5, <1>6 DEF SdoStep, SdoQuiet, SdoBusy, SdoAbort

(* A change of the assignment state of the pack being assigned.             *)
LEMMA SlotStatus ==
  ASSUME TypeOK, SlotInv, NEW st \in State, assigning # None,
         bp' = [bp EXCEPT ![assigning].status = st],
         UNCHANGED <<assigning, conn, pack, door>>
  PROVE  SlotInv'
<1> DEFINE r == [bp[assigning] EXCEPT !.status = st]
<1>1. assigning \in Bps /\ bp \in [Bps -> BpRecord]
  BY DEF TypeOK
<1>2. r \in BpRecord /\ bp' = [bp EXCEPT ![assigning] = r]
  BY <1>1, FieldTypes
<1>3. r.info = bp[assigning].info /\ r.sn = bp[assigning].sn
  BY <1>1 DEF BpRecord
<1>4. door[assigning] = "closed" /\ r.sn # None => r.sn.of = pack[assigning]
  BY <1>1, <1>3 DEF SlotInv, ReadIsPresent
<1> HIDE DEF r
<1> QED BY <1>1, <1>2, <1>3, <1>4, SlotRecord

LEMMA CanFrameSlot == TypeInv /\ SlotInv /\ CanFrame => SlotInv'
<1> SUFFICES ASSUME TypeInv, SlotInv, CanFrame PROVE SlotInv'
  OBVIOUS
<1>1. PICK st \in {"START", "SLAVE_SELECT_CONFIRM", "AUTHORIZING_START"} :
        assigning \in Bps /\ bp' = [bp EXCEPT ![assigning].status = st]
  BY DEF CanFrame
<1>2. st \in State /\ assigning # None
  BY <1>1, NoneAssumption DEF State, Middle
<1> QED BY <1>1, <1>2, SlotStatus DEF TypeInv, CanFrame, asgVars

LEMMA FailAssignSlot ==
  ASSUME TypeOK, SlotInv, assigning # None, FailAssign(assigning),
         UNCHANGED <<conn, pack, door>>
  PROVE  SlotInv'
<1>1. assigning \in Bps
  BY DEF TypeOK
<1>2. conn' = [conn EXCEPT ![assigning] = None]
  BY <1>1 DEF SlotInv, ViewsAgree, TypeOK
<1> QED BY <1>1, <1>2, SlotReset DEF FailAssign

LEMMA ConnectSlot == TypeInv /\ SlotInv /\ AssignConnect => SlotInv'
<1> SUFFICES ASSUME TypeInv, SlotInv, AssignConnect PROVE SlotInv'
  OBVIOUS
<1> DEFINE b == assigning
<1>1. b \in Bps /\ bp \in [Bps -> BpRecord] /\ conn \in [Bps -> Sn \cup {None}]
  BY DEF TypeInv, TypeOK, AssignConnect, CanConnect
<1>2. bp[b].status = "ASSIGNED" /\ bp[b].sn # None /\ assigning' = None /\ pack' = pack /\ door' = door
  BY DEF AssignConnect, CanConnect, env
<1>3. \A c \in Bps : /\ conn'[c] = IF c = b THEN bp[b].sn ELSE conn[c]
                     /\ bp'[c].status = bp[c].status /\ bp'[c].sn = bp[c].sn
                     /\ bp'[c].info = IF c = b THEN bp[b].sn ELSE bp[c].info
  BY <1>1 DEF AssignConnect, CanConnect, BpRecord
<1>4. SingleAssignment'
  BY <1>1, <1>2, <1>3 DEF SlotInv, SingleAssignment, Middle, Waits
<1>5. ViewsAgree'
  BY <1>1, <1>2, <1>3, NoneAssumption DEF SlotInv, ViewsAgree
<1>6. ReadIsPresent' /\ ShownIsPresent'
  BY <1>1, <1>2, <1>3 DEF SlotInv, ReadIsPresent, ShownIsPresent
<1> QED BY <1>4, <1>5, <1>6 DEF SlotInv

LEMMA AssignStepSlot == TypeInv /\ SlotInv /\ AssignStep => SlotInv'
<1> SUFFICES ASSUME TypeInv, SlotInv, AssignStep PROVE SlotInv'
  OBVIOUS
<1> USE DEF asgVars, mgrVars, env, TypeInv
<1>s. Middle \subseteq State /\ "FAILURE" \in State
  BY StateType
<1>1. CASE AssignQuiet
  BY <1>1, SlotFrame DEF AssignQuiet
<1>2. CASE AssignTimeout
  BY <1>2, <1>s, SlotStatus DEF AssignTimeout
<1>3. CASE AssignCallLine
  BY <1>3, SlotFrame DEF AssignCallLine
<1>4. CASE AssignLineFailed
  BY <1>4, FailAssignSlot DEF AssignLineFailed, Linked
<1>5. CASE AssignSelected
  BY <1>5, <1>s, SlotStatus DEF AssignSelected, Linked, Middle, Waits
<1>6. CASE AssignAuthorize
  BY <1>6, <1>s, SlotStatus DEF AssignAuthorize, Linked, Middle
<1>7. CASE AssignSendNodeId
  BY <1>7, <1>s, SlotStatus DEF AssignSendNodeId, Middle, Waits
<1>8. CASE AssignNoSn
  <2>1. PICK st \in {"FAILURE", "AUTHORIZING_START"} : bp' = [bp EXCEPT ![assigning].status = st]
    BY <1>8 DEF AssignNoSn
  <2>2. st \in State
    BY <1>s DEF Middle
  <2> QED BY <1>8, <2>1, <2>2, SlotStatus DEF AssignNoSn
<1>9. CASE AssignConnect
  BY <1>9, ConnectSlot
<1>10. CASE AssignFailure
  BY <1>10, FailAssignSlot DEF AssignFailure
<1> QED
  BY <1>1, <1>2, <1>3, <1>4, <1>5, <1>6, <1>7, <1>8, <1>9, <1>10 DEF AssignStep

LEMMA CallbackSlot ==
  ASSUME TypeInv, SlotInv, NEW c \in Cmd, NEW ok,
         bp' = [bp EXCEPT ![c.bp] = AfterCallback(c, ok)],
         UNCHANGED <<assigning, conn, pack, door>>
  PROVE  SlotInv'
<1> DEFINE b == c.bp
           r == AfterCallback(c, ok)
<1>1. b \in Bps /\ r \in BpRecord
  BY CallbackType DEF TypeInv, Cmd
<1>2. /\ r.sn = bp[b].sn /\ r.info = bp[b].info
      /\ r.status = IF c.op = "READ_SN" /\ assigning = b /\ bp[b].status = "AUTHORIZING"
                    THEN "ASSIGNED" ELSE bp[b].status
  BY CallbackFields DEF TypeInv
<1>3. r.status \in Middle => assigning = b
  BY <1>1, <1>2 DEF SlotInv, SingleAssignment
<1>4. r.status = "ASSIGNED" /\ assigning # b <=> bp[b].status = "ASSIGNED" /\ assigning # b
  BY <1>2
<1>5. door[b] = "closed" /\ r.sn # None => r.sn.of = pack[b]
  BY <1>1, <1>2 DEF SlotInv, ReadIsPresent
<1>6. bp' = [bp EXCEPT ![b] = r]
  OBVIOUS
<1> HIDE DEF r
<1> QED BY <1>1, <1>2, <1>3, <1>4, <1>5, <1>6, SlotRecord DEF TypeInv

LEMMA ScanBpSlot == TypeInv /\ SlotInv /\ ScanBp => SlotInv'
<1> SUFFICES ASSUME TypeInv, SlotInv, ScanBp PROVE SlotInv'
  OBVIOUS
<1> DEFINE op == Lacks(bp[scan])
           r  == [bp[scan] EXCEPT !.waiting = bp[scan].waiting \/ op # None]
<1>1. TypeOK /\ scan \in Bps /\ bp \in [Bps -> BpRecord]
  BY DEF TypeInv, TypeOK
<1>2. UNCHANGED <<assigning, pack, door>>
  BY DEF ScanBp, asgVars, env
<1>3. CASE bp' = [bp EXCEPT ![scan].waiting = @ \/ op # None] /\ UNCHANGED conn
  <2>1. (bp[scan].waiting \/ op # None) \in BOOLEAN
    OBVIOUS
  <2>2. r \in BpRecord /\ bp' = [bp EXCEPT ![scan] = r]
    BY <1>1, <1>3, <2>1, FieldTypes
  <2>3. r.status = bp[scan].status /\ r.sn = bp[scan].sn /\ r.info = bp[scan].info
    BY <1>1 DEF BpRecord
  <2>4. /\ r.status \in Middle => assigning = scan
        /\ door[scan] = "closed" /\ r.sn # None => r.sn.of = pack[scan]
    BY <1>1, <2>3 DEF SlotInv, SingleAssignment, ReadIsPresent
  <2> HIDE DEF r
  <2> QED BY <1>1, <1>2, <1>3, <2>2, <2>3, <2>4, SlotRecord
<1>4. CASE bp' = [bp EXCEPT ![scan] = Blank] /\ conn' = [conn EXCEPT ![scan] = None]
  BY <1>1, <1>2, <1>4, SlotReset
<1> QED BY <1>3, <1>4 DEF ScanBp

LEMMA CommandStepSlot ==
  TypeInv /\ SlotInv /\ (Respond \/ RespondNothing \/ Dispatch \/ NoDispatch \/ CmdTimeout) => SlotInv'
<1> SUFFICES ASSUME TypeInv, SlotInv, Respond \/ RespondNothing \/ Dispatch \/ NoDispatch \/ CmdTimeout
             PROVE  SlotInv'
  OBVIOUS
<1> USE DEF asgVars, mgrVars, env
<1>1. CASE Respond
  <2>1. comCurrent \in Cmd
    BY <1>1 DEF Respond, TypeInv, TypeOK
  <2> QED BY <1>1, <2>1, CallbackSlot DEF Respond
<1>2. CASE RespondNothing
  BY <1>2, SlotFrame DEF RespondNothing
<1>3. CASE Dispatch
  BY <1>3, SlotFrame DEF Dispatch
<1>4. CASE NoDispatch
  BY <1>4, SlotFrame DEF NoDispatch
<1>5. CASE CmdTimeout
  <2>1. current \in Cmd
    BY <1>5 DEF CmdTimeout, TypeInv, TypeOK
  <2> QED BY <1>5, <2>1, CallbackSlot DEF CmdTimeout
<1> QED BY <1>1, <1>2, <1>3, <1>4, <1>5

LEMMA ClientStepSlot == TypeInv /\ SlotInv /\ ClientStep => SlotInv'
<1> SUFFICES ASSUME TypeInv, SlotInv, NEW b \in Bps,
                    \/ Assign(b) \/ CabinetLost(b) \/ DoorMoves(b) \/ SetCmd(b) \/ SetCmdForce(b)
                    \/ \E d \in Device : AssignDevice(b, d)
                    \/ SwapPack(b) \/ PackRestarts(b)
             PROVE  SlotInv'
  BY DEF ClientStep
<1> USE DEF asgVars, mgrVars, thread, env
<1>t. TypeOK /\ bp \in [Bps -> BpRecord] /\ conn \in [Bps -> Sn \cup {None}]
  BY DEF TypeInv, TypeOK
<1>r. ResetTo(b) => bp' = [bp EXCEPT ![b] = Blank] /\ conn' = [conn EXCEPT ![b] = None]
  BY <1>t DEF ResetTo, SlotInv, ViewsAgree
<1>1. CASE Assign(b)
  <2>1. conn[b] = None /\ bp[b].status = "FAILURE"
    BY <1>1 DEF Assign, SlotInv, ViewsAgree
  <2>2. Dropped(b) \in [Bps -> BpRecord]
    BY <1>t, StateType, BpUpdates DEF Dropped
  <2>3. \A c \in Bps \ {b} : /\ Dropped(b)[c].info = bp[c].info
                             /\ Dropped(b)[c].sn = bp[c].sn
                             /\ Dropped(b)[c].status = IF assigning = c THEN "FAILURE" ELSE bp[c].status
    BY <1>t DEF Dropped, BpRecord
  <2>4. Dropped(b)[b] = bp[b]
    BY <1>t DEF Dropped
  <2>5. /\ \A c \in Bps \ {b} : bp'[c] = Dropped(b)[c]
        /\ bp'[b].sn # None => bp'[b].sn = bp[b].sn
        /\ \/ bp'[b].status = "WAIT_REQUEST" /\ assigning' = b
           \/ bp'[b].status = "FAILURE" /\ assigning' = None
    BY <1>1, <2>2, <2>4 DEF Assign, Blank, BpRecord
  <2>6. UNCHANGED <<conn, pack, door>>
    BY <1>1 DEF Assign
  <2>7. SingleAssignment'
    BY <2>3, <2>5 DEF SlotInv, SingleAssignment, Middle, Waits
  <2>8. ViewsAgree'
    BY <2>1, <2>3, <2>5, <2>6, NoneAssumption DEF SlotInv, ViewsAgree
  <2>9. ReadIsPresent' /\ ShownIsPresent'
    BY <2>3, <2>5, <2>6 DEF SlotInv, ReadIsPresent, ShownIsPresent
  <2> QED BY <2>7, <2>8, <2>9 DEF SlotInv
<1>2. CASE CabinetLost(b)
  BY <1>2, <1>t, <1>r, SlotReset DEF CabinetLost
<1>3. CASE DoorMoves(b)
  <2>1. \A c \in Bps \ {b} : door'[c] = door[c]
    BY <1>3 DEF DoorMoves, TypeInv, TypeOK
  <2> QED BY <1>3, <1>t, <1>r, <2>1, SlotReset DEF DoorMoves
<1>4. CASE SetCmd(b)
  BY <1>4, SlotFrame DEF SetCmd
<1>5. CASE SetCmdForce(b)
  BY <1>5, SlotFrame DEF SetCmdForce
<1>6. CASE \E d \in Device : AssignDevice(b, d)
  <2>1. PICK d \in Device : AssignDevice(b, d)
    BY <1>6
  <2> DEFINE r == [bp[b] EXCEPT !.asgBuf = d]
  <2>2. r \in BpRecord /\ bp' = [bp EXCEPT ![b] = r] /\ UNCHANGED <<assigning, conn, pack, door>>
    BY <1>t, <2>1, FieldTypes DEF AssignDevice
  <2>3. r.status = bp[b].status /\ r.sn = bp[b].sn /\ r.info = bp[b].info
    BY <1>t DEF BpRecord
  <2>4. /\ r.status \in Middle => assigning = b
        /\ door[b] = "closed" /\ r.sn # None => r.sn.of = pack[b]
    BY <2>3 DEF SlotInv, SingleAssignment, ReadIsPresent
  <2> HIDE DEF r
  <2> QED BY <1>t, <2>2, <2>3, <2>4, SlotRecord
<1>7. CASE SwapPack(b)
  <2>1. UNCHANGED <<bp, assigning, conn, door>> /\ door[b] = "open"
        /\ \A c \in Bps \ {b} : pack'[c] = pack[c]
    BY <1>7 DEF SwapPack, TypeInv, TypeOK
  <2>2. SingleAssignment' /\ ViewsAgree'
    BY <2>1 DEF SlotInv, SingleAssignment, ViewsAgree
  <2>3. ReadIsPresent' /\ ShownIsPresent'
    BY <2>1 DEF SlotInv, ReadIsPresent, ShownIsPresent
  <2> QED BY <2>2, <2>3 DEF SlotInv
<1>8. CASE PackRestarts(b)
  BY <1>8, SlotFrame DEF PackRestarts
<1> QED
  BY <1>1, <1>2, <1>3, <1>4, <1>5, <1>6, <1>7, <1>8

LEMMA SlotStep == TypeInv /\ SlotInv /\ [Next]_vars => SlotInv'
<1>1. SlotInv /\ UNCHANGED vars => SlotInv'
  BY SlotFrame DEF vars, asgVars, env
<1> QED
  BY <1>1, CanFrameSlot, SdoStepSlot, AssignStepSlot, ScanBpSlot, CommandStepSlot, ClientStepSlot
     DEF Next, ServiceStep

LEMMA SlotInvariant == Spec => []SlotInv
BY InitSlot, SlotStep, TypeInvariant, PTL DEF Spec

(* Whatever the number of slots, no two packs are ever in the middle of an  *)
(* assignment: their frames, which name no slot, cannot be confused.        *)
THEOREM AssignmentsExclude == Spec => []SingleAssignment
BY SlotInvariant, PTL DEF SlotInv

(* The cabinet service knows exactly the connected packs, by the serial     *)
(* number in their records.                                                 *)
THEOREM ViewsAlwaysAgree == Spec => []ViewsAgree
BY SlotInvariant, PTL DEF SlotInv

(* A closed slot never shows the serial number of a pack that was in it     *)
(* before: no late segment, stale answer or retry survives a door cycle.    *)
THEOREM ShownAlwaysPresent == Spec => []ShownIsPresent
BY SlotInvariant, PTL DEF SlotInv
-----------------------------------------------------------------------------
(* What leaves and enters the outstanding commands.                         *)
LEMMA AppendElements ==
  ASSUME NEW q \in Seq(Cmd), NEW c \in Cmd
  PROVE  Range(Append(q, c)) = Range(q) \cup {c}
<1> DEFINE a == Append(q, c)
<1>1. Len(a) = Len(q) + 1 /\ DOMAIN a = 1 .. Len(q) + 1 /\ DOMAIN q = 1 .. Len(q) /\ Len(q) \in Nat
  OBVIOUS
<1>2. a[Len(q) + 1] = c /\ \A i \in 1 .. Len(q) : a[i] = q[i]
  OBVIOUS
<1>3. ASSUME NEW x \in Range(a) PROVE x \in Range(q) \cup {c}
  <2>1. PICK i \in 1 .. Len(q) + 1 : x = a[i]
    BY <1>1 DEF Range
  <2>2. i \in 1 .. Len(q) \/ i = Len(q) + 1
    BY <1>1
  <2> QED BY <1>1, <1>2, <2>1, <2>2 DEF Range
<1>4. ASSUME NEW x \in Range(q) \cup {c} PROVE x \in Range(a)
  <2>1. CASE x = c
    BY <1>1, <1>2, <2>1 DEF Range
  <2>2. CASE x # c
    <3>1. PICK i \in 1 .. Len(q) : x = q[i]
      BY <1>1, <2>2 DEF Range
    <3>2. i \in DOMAIN a /\ x = a[i]
      BY <1>1, <1>2, <3>1
    <3> QED BY <3>2 DEF Range
  <2> QED BY <2>1, <2>2
<1> QED BY <1>3, <1>4

LEMMA TailElements ==
  ASSUME NEW q \in Seq(Cmd), q # <<>>
  PROVE  Range(q) \subseteq {Head(q)} \cup Range(Tail(q))
<1> DEFINE t == Tail(q)
<1>1. /\ DOMAIN q = 1 .. Len(q) /\ Len(q) \in Nat \ {0} /\ DOMAIN t = 1 .. Len(q) - 1
      /\ q[1] = Head(q) /\ \A i \in 1 .. Len(q) - 1 : t[i] = q[i + 1]
  OBVIOUS
<1>2. ASSUME NEW x \in Range(q) PROVE x \in {Head(q)} \cup Range(t)
  <2>1. PICK i \in 1 .. Len(q) : x = q[i]
    BY <1>1 DEF Range
  <2>2. CASE i = 1
    BY <1>1, <2>1, <2>2
  <2>3. CASE i # 1
    <3>1. i - 1 \in DOMAIN t /\ x = t[i - 1]
      BY <1>1, <2>1, <2>3
    <3> QED BY <3>1 DEF Range
  <2> QED BY <2>2, <2>3
<1> QED BY <1>2

LEMMA PendingAppend ==
  ASSUME TypeOK, NEW c \in Cmd, queue' = Append(queue, c), current' = current
  PROVE  Pending \subseteq Pending' /\ c \in Pending'
BY AppendElements DEF TypeOK, Pending

(* The displaced command goes back to the queue.                            *)
LEMMA PendingForce ==
  ASSUME TypeOK, NEW c \in Cmd, NEW st, ForceCmd(c, st)
  PROVE  Pending \subseteq Pending' /\ c \in Pending'
<1>1. c \in Pending'
  BY NoneAssumption DEF ForceCmd, Pending
<1>2. CASE current = None
  BY <1>1, <1>2 DEF ForceCmd, Pending
<1>3. CASE current # None
  <2>1. current \in Cmd /\ queue \in Seq(Cmd)
    BY <1>3 DEF TypeOK
  <2>2. Range(queue') = Range(queue) \cup {current}
    BY <1>3, <2>1, AppendElements DEF ForceCmd
  <2> QED BY <1>1, <2>2 DEF Pending
<1> QED BY <1>1, <1>2, <1>3

LEMMA PendingDispatch == TypeOK /\ Dispatch => Pending \subseteq Pending'
<1> SUFFICES ASSUME TypeOK, Dispatch PROVE Pending \subseteq Pending'
  OBVIOUS
<1>1. queue # <<>> /\ current = None /\ queue \in Seq(Cmd)
  BY DEF Dispatch, CanDispatch, TypeOK
<1>2. Head(queue) \in Cmd
  BY <1>1
<1>3. Head(queue) \in Pending'
  BY <1>2, NoneAssumption DEF Dispatch, Pending
<1>4. Range(queue) \subseteq {Head(queue)} \cup Range(queue')
  BY <1>1, TailElements DEF Dispatch
<1> QED BY <1>1, <1>3, <1>4 DEF Pending
-----------------------------------------------------------------------------
(* No command is dropped, and no pack starts to wait.                       *)
LEMMA AwaitFrame ==
  ASSUME AwaitedIsPending, Pending \subseteq Pending',
         \A b \in Bps : /\ bp'[b].waiting => bp[b].waiting
                        /\ bp'[b].status = "AUTHORIZING" => bp[b].status = "AUTHORIZING"
  PROVE  AwaitedIsPending'
<1> SUFFICES ASSUME NEW b \in Bps
             PROVE  /\ bp'[b].waiting => \E c \in Pending' : c.bp = b /\ c.op \in InitOp
                    /\ bp'[b].status = "AUTHORIZING" => \E c \in Pending' : c.bp = b /\ c.op = "READ_SN"
  BY DEF AwaitedIsPending
<1> QED BY DEF AwaitedIsPending

LEMMA BlankWaits == Blank.waiting = FALSE /\ Blank.status = "FAILURE"
BY DEF Blank

LEMMA InitAwait == Init => AwaitedIsPending
BY BlankWaits DEF Init, AwaitedIsPending

(* A callback: the pack of the command no longer waits for it.              *)
LEMMA CallbackAwait ==
  ASSUME TypeInv, SlotInv, AwaitedIsPending, current # None, NEW ok,
         bp' = [bp EXCEPT ![current.bp] = AfterCallback(current, ok)],
         queue' = queue, current' = None
  PROVE  AwaitedIsPending'
<1> DEFINE k == current.bp
           r == AfterCallback(current, ok)
<1>1. current \in Cmd /\ k \in Bps /\ bp \in [Bps -> BpRecord]
  BY DEF TypeInv, TypeOK, Cmd
<1>2. /\ r.waiting => bp[k].waiting /\ current.op \notin InitOp
      /\ r.status = "AUTHORIZING" => bp[k].status = "AUTHORIZING"
                                     /\ ~(current.op = "READ_SN" /\ assigning = k)
  BY <1>1, CallbackFields DEF TypeInv
<1>3. \A b \in Bps : bp'[b] = IF b = k THEN r ELSE bp[b]
  BY <1>1
<1>4. Pending \subseteq Pending' \cup {current}
  BY DEF Pending
<1>5. bp[k].status = "AUTHORIZING" => assigning = k
  BY <1>1 DEF SlotInv, SingleAssignment, Middle
<1> HIDE DEF r
<1> SUFFICES ASSUME NEW b \in Bps
             PROVE  /\ bp'[b].waiting => \E c \in Pending' : c.bp = b /\ c.op \in InitOp
                    /\ bp'[b].status = "AUTHORIZING" => \E c \in Pending' : c.bp = b /\ c.op = "READ_SN"
  BY DEF AwaitedIsPending
<1>6. ASSUME bp'[b].waiting PROVE \E c \in Pending' : c.bp = b /\ c.op \in InitOp
  <2>1. bp[b].waiting /\ (b = k => current.op \notin InitOp)
    BY <1>2, <1>3, <1>6
  <2>2. PICK c \in Pending : c.bp = b /\ c.op \in InitOp
    BY <2>1 DEF AwaitedIsPending
  <2> QED BY <1>4, <2>1, <2>2
<1>7. ASSUME bp'[b].status = "AUTHORIZING" PROVE \E c \in Pending' : c.bp = b /\ c.op = "READ_SN"
  <2>1. bp[b].status = "AUTHORIZING" /\ (b = k => current.op # "READ_SN")
    BY <1>2, <1>3, <1>5, <1>7
  <2>2. PICK c \in Pending : c.bp = b /\ c.op = "READ_SN"
    BY <2>1 DEF AwaitedIsPending
  <2> QED BY <1>4, <2>1, <2>2
<1> QED BY <1>6, <1>7

LEMMA SdoStepAwait == TypeInv /\ AwaitedIsPending /\ SdoStep => AwaitedIsPending'
<1> SUFFICES ASSUME TypeInv, AwaitedIsPending, SdoStep PROVE AwaitedIsPending'
  OBVIOUS
<1>1. bp \in [Bps -> BpRecord]
  BY DEF TypeInv, TypeOK
<1>2. Pending' = Pending
  BY DEF SdoStep, SdoQuiet, SdoBusy, SdoSegment, SdoSuccess, SdoAbort, EndSdo, Pending
<1>3. \A b \in Bps : bp'[b].waiting = bp[b].waiting /\ bp'[b].status = bp[b].status
  BY <1>1 DEF SdoStep, SdoQuiet, SdoBusy, SdoSegment, SdoSuccess, SdoAbort, EndSdo, BpRecord
<1> QED BY <1>2, <1>3, AwaitFrame

LEMMA CanFrameAwait == TypeInv /\ AwaitedIsPending /\ CanFrame => AwaitedIsPending'
<1> SUFFICES ASSUME TypeInv, AwaitedIsPending, CanFrame PROVE AwaitedIsPending'
  OBVIOUS
<1>1. bp \in [Bps -> BpRecord] /\ Pending' = Pending
  BY DEF TypeInv, TypeOK, CanFrame, mgrVars, Pending
<1>2. \A b \in Bps : /\ bp'[b].waiting => bp[b].waiting
                     /\ bp'[b].status = "AUTHORIZING" => bp[b].status = "AUTHORIZING"
  BY <1>1 DEF CanFrame, BpRecord
<1> QED BY <1>1, <1>2, AwaitFrame

LEMMA AuthorizeAwait == TypeInv /\ AwaitedIsPending /\ AssignAuthorize => AwaitedIsPending'
<1> SUFFICES ASSUME TypeInv, AwaitedIsPending, AssignAuthorize PROVE AwaitedIsPending'
  OBVIOUS
<1> DEFINE c == Command(assigning, "READ_SN", None)
<1>1. TypeOK /\ bp \in [Bps -> BpRecord] /\ assigning \in Bps
  BY DEF TypeInv, TypeOK, Linked, AssignAuthorize
<1>2. c \in Cmd /\ c.bp = assigning /\ c.op = "READ_SN"
  BY <1>1, CommandType DEF Op, Command
<1>3. Pending \subseteq Pending' /\ c \in Pending'
  BY <1>1, <1>2, PendingForce DEF AssignAuthorize
<1>4. \A b \in Bps : /\ bp'[b].waiting = bp[b].waiting
                     /\ b # assigning => bp'[b].status = bp[b].status
  BY <1>1 DEF AssignAuthorize, BpRecord
<1> HIDE DEF c
<1> SUFFICES ASSUME NEW b \in Bps
             PROVE  /\ bp'[b].waiting => \E k \in Pending' : k.bp = b /\ k.op \in InitOp
                    /\ bp'[b].status = "AUTHORIZING" => \E k \in Pending' : k.bp = b /\ k.op = "READ_SN"
  BY DEF AwaitedIsPending
<1> QED BY <1>2, <1>3, <1>4 DEF AwaitedIsPending

LEMMA AssignStepAwait == TypeInv /\ AwaitedIsPending /\ AssignStep => AwaitedIsPending'
<1> SUFFICES ASSUME TypeInv, AwaitedIsPending, AssignStep PROVE AwaitedIsPending'
  OBVIOUS
<1>1. CASE AssignAuthorize
  BY <1>1, AuthorizeAwait
<1>2. CASE ~AssignAuthorize
  <2>1. bp \in [Bps -> BpRecord] /\ Pending' = Pending
    BY <1>2 DEF TypeInv, TypeOK, mgrVars, Pending, AssignStep, AssignQuiet, AssignTimeout, AssignCallLine,
                AssignLineFailed, AssignSelected, AssignSendNodeId, AssignNoSn, AssignConnect, CanConnect, AssignFailure
  <2> DEFINE quiet == \A b \in Bps : /\ bp'[b].waiting => bp[b].waiting
                                     /\ bp'[b].status = "AUTHORIZING" => bp[b].status = "AUTHORIZING"
  <2>2. bp' = bp => quiet
    OBVIOUS
  <2>3. bp' = [bp EXCEPT ![assigning] = Blank] => quiet
    BY <2>1, BlankWaits
  <2>4. ASSUME NEW st, st # "AUTHORIZING", bp' = [bp EXCEPT ![assigning].status = st] PROVE quiet
    BY <2>1, <2>4 DEF BpRecord
  <2>5. ASSUME NEW s, bp' = [bp EXCEPT ![assigning].info = s] PROVE quiet
    BY <2>1, <2>5 DEF BpRecord
  <2>6. quiet
    <3> HIDE DEF quiet
    <3> QED BY <1>2, <2>2, <2>3, <2>4, <2>5
            DEF AssignStep, AssignQuiet, AssignTimeout, AssignCallLine, AssignLineFailed, AssignSelected,
                AssignSendNodeId, AssignNoSn, AssignConnect, CanConnect, AssignFailure, FailAssign
  <2> QED BY <2>1, <2>6, AwaitFrame
<1> QED BY <1>1, <1>2

LEMMA ScanBpAwait == TypeInv /\ AwaitedIsPending /\ ScanBp => AwaitedIsPending'
<1> SUFFICES ASSUME TypeInv, AwaitedIsPending, ScanBp PROVE AwaitedIsPending'
  OBVIOUS
<1> DEFINE op == Lacks(bp[scan])
           c  == Command(scan, op, None)
<1>1. TypeOK /\ bp \in [Bps -> BpRecord] /\ scan \in Bps
  BY DEF TypeInv, TypeOK
<1>2. \A b \in Bps : /\ b # scan => bp'[b].waiting = bp[b].waiting
                     /\ bp'[b].status = "AUTHORIZING" => bp[b].status = "AUTHORIZING"
                     /\ bp'[scan].waiting => bp[scan].waiting \/ op # None
  BY <1>1, BlankWaits DEF ScanBp, BpRecord
<1>3. CASE op = None
  <2>1. Pending' = Pending
    BY <1>3 DEF ScanBp, Pending
  <2> QED BY <1>2, <1>3, <2>1, AwaitFrame
<1>4. CASE op # None
  <2>1. c \in Cmd /\ c.bp = scan /\ c.op \in InitOp
    BY <1>1, <1>4, CommandType DEF Lacks, Op, InitOp, Command
  <2>2. queue' = Append(queue, c) /\ current' = current
    BY <1>4 DEF ScanBp
  <2>3. Pending \subseteq Pending' /\ c \in Pending'
    BY <1>1, <2>1, <2>2, PendingAppend
  <2> HIDE DEF c
  <2> SUFFICES ASSUME NEW b \in Bps
               PROVE  /\ bp'[b].waiting => \E k \in Pending' : k.bp = b /\ k.op \in InitOp
                      /\ bp'[b].status = "AUTHORIZING" => \E k \in Pending' : k.bp = b /\ k.op = "READ_SN"
    BY DEF AwaitedIsPending
  <2> QED BY <1>2, <2>1, <2>3 DEF AwaitedIsPending
<1> QED BY <1>3, <1>4

LEMMA CommandStepAwait ==
  TypeInv /\ SlotInv /\ AwaitedIsPending /\ (Respond \/ RespondNothing \/ Dispatch \/ NoDispatch \/ CmdTimeout)
    => AwaitedIsPending'
<1> SUFFICES ASSUME TypeInv, SlotInv, AwaitedIsPending,
                    Respond \/ RespondNothing \/ Dispatch \/ NoDispatch \/ CmdTimeout
             PROVE  AwaitedIsPending'
  OBVIOUS
<1> USE DEF mgrVars
<1>1. CASE Respond
  <2>1. current # None /\ comCurrent = current
    BY <1>1 DEF Respond, TypeInv, Linked
  <2> QED BY <1>1, <2>1, CallbackAwait DEF Respond
<1>2. CASE RespondNothing
  <2>1. Pending' = Pending
    BY <1>2 DEF RespondNothing, Pending
  <2> QED BY <1>2, <2>1, AwaitFrame DEF RespondNothing
<1>3. CASE Dispatch
  BY <1>3, PendingDispatch, AwaitFrame DEF Dispatch, TypeInv
<1>4. CASE NoDispatch
  <2>1. Pending' = Pending
    BY <1>4 DEF NoDispatch, Pending
  <2> QED BY <1>4, <2>1, AwaitFrame DEF NoDispatch
<1>5. CASE CmdTimeout
  BY <1>5, CallbackAwait DEF CmdTimeout
<1> QED BY <1>1, <1>2, <1>3, <1>4, <1>5

LEMMA ClientStepAwait == TypeInv /\ AwaitedIsPending /\ ClientStep => AwaitedIsPending'
<1> SUFFICES ASSUME TypeInv, AwaitedIsPending, NEW b \in Bps,
                    \/ Assign(b) \/ CabinetLost(b) \/ DoorMoves(b) \/ SetCmd(b) \/ SetCmdForce(b)
                    \/ \E d \in Device : AssignDevice(b, d)
                    \/ SwapPack(b) \/ PackRestarts(b)
             PROVE  AwaitedIsPending'
  BY DEF ClientStep
<1> USE DEF mgrVars
<1>t. TypeOK /\ bp \in [Bps -> BpRecord]
  BY DEF TypeInv, TypeOK
<1> DEFINE quiet == \A c \in Bps : /\ bp'[c].waiting => bp[c].waiting
                                   /\ bp'[c].status = "AUTHORIZING" => bp[c].status = "AUTHORIZING"
<1>p. queue' = queue /\ current' = current => Pending' = Pending
  BY DEF Pending
<1>r. bp' = [bp EXCEPT ![b] = Blank] => quiet
  BY <1>t, BlankWaits
<1>1. CASE Assign(b)
  <2>1. /\ Dropped(b) \in [Bps -> BpRecord]
        /\ \A c \in Bps : /\ Dropped(b)[c].waiting = bp[c].waiting
                          /\ Dropped(b)[c].status = "AUTHORIZING" => bp[c].status = "AUTHORIZING"
    <3>1. Dropped(b) \in [Bps -> BpRecord]
      BY <1>t, StateType, BpUpdates DEF Dropped
    <3> QED BY <1>t, <3>1 DEF Dropped, BpRecord
  <2>2. quiet
    <3> DEFINE f == Dropped(b)
    <3>1. f \in [Bps -> BpRecord] /\ \A c \in Bps : f[c] \in BpRecord
      BY <2>1
    <3>2. \A c \in Bps : f[c].waiting = bp[c].waiting /\ (f[c].status = "AUTHORIZING" => bp[c].status = "AUTHORIZING")
      BY <2>1
    <3> HIDE DEF f
    <3>3. bp' = [f EXCEPT ![b].status = "WAIT_REQUEST"] => quiet
      BY <3>1, <3>2 DEF BpRecord
    <3>4. bp' = [f EXCEPT ![b] = Blank] => quiet
      BY <3>1, <3>2, BlankWaits
    <3>5. bp' \in {[f EXCEPT ![b].status = "WAIT_REQUEST"], [f EXCEPT ![b] = Blank]}
      BY <1>1 DEF Assign, f
    <3> QED BY <3>3, <3>4, <3>5
  <2> QED BY <1>1, <1>p, <2>2, AwaitFrame DEF Assign
<1>2. CASE CabinetLost(b)
  BY <1>2, <1>p, <1>r, AwaitFrame DEF CabinetLost, ResetTo
<1>3. CASE DoorMoves(b)
  BY <1>3, <1>p, <1>r, AwaitFrame DEF DoorMoves, ResetTo
<1>4. CASE SetCmd(b)
  <2>1. Command(b, "CONTROL", None) \in Cmd
    BY CommandType DEF Op
  <2> QED BY <1>4, <1>t, <2>1, PendingAppend, AwaitFrame DEF SetCmd
<1>5. CASE SetCmdForce(b)
  <2>1. Command(b, "CONTROL", None) \in Cmd
    BY CommandType DEF Op
  <2>2. Pending \subseteq Pending'
    BY <1>5, <1>t, <2>1, PendingForce DEF SetCmdForce
  <2> QED BY <1>5, <2>2, AwaitFrame DEF SetCmdForce
<1>6. CASE \E d \in Device : AssignDevice(b, d)
  <2>1. PICK d \in Device : AssignDevice(b, d)
    BY <1>6
  <2>2. Command(b, "WRITE_ASSIGNED", d) \in Cmd
    BY CommandType DEF Op
  <2>3. quiet
    BY <1>t, <2>1 DEF AssignDevice, BpRecord
  <2> QED BY <1>t, <2>1, <2>2, <2>3, PendingAppend, AwaitFrame DEF AssignDevice
<1>7. CASE SwapPack(b)
  BY <1>7, <1>p, AwaitFrame DEF SwapPack
<1>8. CASE PackRestarts(b)
  BY <1>8, <1>p, AwaitFrame DEF PackRestarts
<1> QED
  BY <1>1, <1>2, <1>3, <1>4, <1>5, <1>6, <1>7, <1>8

LEMMA AwaitStep == TypeInv /\ SlotInv /\ AwaitedIsPending /\ [Next]_vars => AwaitedIsPending'
<1>1. AwaitedIsPending /\ UNCHANGED vars => AwaitedIsPending'
  <2>1. UNCHANGED vars => Pending' = Pending /\ bp' = bp
    BY DEF vars, mgrVars, Pending
  <2> QED BY <2>1, AwaitFrame
<1> QED
  BY <1>1, CanFrameAwait, SdoStepAwait, AssignStepAwait, ScanBpAwait, CommandStepAwait, ClientStepAwait
     DEF Next, ServiceStep

(* A pack never waits for an answer nothing will bring: whatever commands   *)
(* are forced, dropped by a timer, or answered late, the command a pack's   *)
(* m_waitingCmd or its authorisation stands for is still outstanding.       *)
THEOREM AwaitedAlwaysPending == Spec => []AwaitedIsPending
BY InitAwait, AwaitStep, TypeInvariant, SlotInvariant, PTL DEF Spec

-----------------------------------------------------------------------------
(* Where a command stands in a queue.                                       *)
InQueue(c, q) == {i \in DOMAIN q : q[i] = c}

LEMMA QueueFinite ==
  ASSUME NEW c, NEW q \in Seq(Cmd)
  PROVE  IsFiniteSet(InQueue(c, q)) /\ Cardinality(InQueue(c, q)) \in Nat
<1>1. IsFiniteSet(1 .. Len(q))
  BY FS_Interval
<1>2. InQueue(c, q) \in SUBSET (1 .. Len(q))
  BY DEF InQueue
<1> QED BY <1>1, <1>2, FS_Subset, FS_CardinalityType

LEMMA CopiesAppended ==
  ASSUME NEW c, NEW q \in Seq(Cmd), NEW x \in Cmd
  PROVE  Cardinality(InQueue(c, Append(q, x)))
           = Cardinality(InQueue(c, q)) + (IF x = c THEN 1 ELSE 0)
<1> DEFINE a == Append(q, x)
<1>1. /\ DOMAIN a = 1 .. Len(q) + 1 /\ DOMAIN q = 1 .. Len(q) /\ Len(q) \in Nat
      /\ a[Len(q) + 1] = x /\ \A i \in 1 .. Len(q) : a[i] = q[i]
  OBVIOUS
<1>2. CASE x = c
  <2>1. InQueue(c, a) = InQueue(c, q) \cup {Len(q) + 1} /\ Len(q) + 1 \notin InQueue(c, q)
    BY <1>1, <1>2 DEF InQueue
  <2> QED BY <1>2, <2>1, QueueFinite, FS_AddElement
<1>3. CASE x # c
  <2>1. InQueue(c, a) = InQueue(c, q)
    BY <1>1, <1>3 DEF InQueue
  <2> QED BY <1>3, <2>1, QueueFinite
<1> QED BY <1>2, <1>3

LEMMA CopiesTaken ==
  ASSUME NEW c, NEW q \in Seq(Cmd), q # <<>>
  PROVE  Cardinality(InQueue(c, q))
           = Cardinality(InQueue(c, Tail(q))) + (IF Head(q) = c THEN 1 ELSE 0)
<1> DEFINE t == Tail(q)
           S == InQueue(c, q) \ {1}
           f == [i \in InQueue(c, t) |-> i + 1]
<1>1. /\ DOMAIN q = 1 .. Len(q) /\ Len(q) \in Nat \ {0} /\ DOMAIN t = 1 .. Len(q) - 1
      /\ t \in Seq(Cmd) /\ q[1] = Head(q) /\ \A i \in 1 .. Len(q) - 1 : t[i] = q[i + 1]
  OBVIOUS
<1>2. \A i \in InQueue(c, t) : i \in Nat /\ f[i] = i + 1 /\ f[i] \in S
  BY <1>1 DEF InQueue
<1>3. \A j \in S : j - 1 \in InQueue(c, t) /\ f[j - 1] = j
  BY <1>1 DEF InQueue
<1>4. f \in Bijection(InQueue(c, t), S)
  <2>1. f \in [InQueue(c, t) -> S]
    BY <1>2
  <2>2. \A i, j \in InQueue(c, t) : f[i] = f[j] => i = j
    BY <1>2
  <2>3. f \in Surjection(InQueue(c, t), S)
    BY <1>3, <2>1 DEF Surjection
  <2>4. f \in Injection(InQueue(c, t), S)
    BY <2>1, <2>2 DEF Injection, IsInjective
  <2> QED BY <2>3, <2>4 DEF Bijection
<1>5. Cardinality(S) = Cardinality(InQueue(c, t))
  <2>1. IsFiniteSet(InQueue(c, t))
    BY <1>1, QueueFinite
  <2>2. ExistsBijection(InQueue(c, t), S)
    BY <1>4 DEF ExistsBijection
  <2> QED BY <2>1, <2>2, FS_Bijection
<1>6. 1 \in InQueue(c, q) <=> Head(q) = c
  BY <1>1 DEF InQueue
<1>7. /\ Cardinality(S) = IF Head(q) = c THEN Cardinality(InQueue(c, q)) - 1
                                         ELSE Cardinality(InQueue(c, q))
      /\ Cardinality(InQueue(c, q)) \in Nat
  BY <1>6, QueueFinite, FS_RemoveElement
<1>8. CASE Head(q) = c
  BY <1>5, <1>7, <1>8
<1>9. CASE Head(q) # c
  BY <1>5, <1>7, <1>9
<1> QED BY <1>8, <1>9

LEMMA CopiesCount ==
  ASSUME NEW c, NEW q, NEW cur
  PROVE  Copies(c, q, cur) = Cardinality(InQueue(c, q)) + (IF cur = c THEN 1 ELSE 0)
BY DEF Copies, InQueue

Kept == \A c \in Pending : Copies(c, queue', current') >= Copies(c, queue, current)

LEMMA PendingType == ASSUME TypeOK, NEW c \in Pending PROVE c \in Cmd /\ c # None
<1>1. c \in Range(queue) \/ (c = current /\ c # None)
  BY DEF Pending
<1>2. CASE c \in Range(queue)
  <2>1. c \in Cmd
    BY <1>2 DEF TypeOK, Range
  <2> QED BY <2>1, NoneAssumption
<1>3. CASE c = current /\ c # None
  BY <1>3 DEF TypeOK
<1> QED BY <1>1, <1>2, <1>3

LEMMA KeptSame == ASSUME TypeOK, queue' = queue, current' = current PROVE Kept
<1> SUFFICES ASSUME NEW c \in Pending
             PROVE  Copies(c, queue, current) >= Copies(c, queue, current)
  BY DEF Kept
<1>1. Cardinality(InQueue(c, queue)) \in Nat
  BY QueueFinite DEF TypeOK
<1> QED BY <1>1, CopiesCount

LEMMA KeptAppend ==
  ASSUME TypeOK, NEW x \in Cmd, queue' = Append(queue, x), current' = current
  PROVE  Kept
<1> SUFFICES ASSUME NEW c \in Pending
             PROVE  Copies(c, Append(queue, x), current) >= Copies(c, queue, current)
  BY DEF Kept
<1>1. Cardinality(InQueue(c, queue)) \in Nat
  BY QueueFinite DEF TypeOK
<1>2. Cardinality(InQueue(c, Append(queue, x)))
        = Cardinality(InQueue(c, queue)) + (IF x = c THEN 1 ELSE 0)
  BY CopiesAppended DEF TypeOK
<1> QED BY <1>1, <1>2, CopiesCount

(* A forced command: the one it displaces goes back to the queue.           *)
LEMMA KeptForce ==
  ASSUME TypeOK, NEW x \in Cmd, NEW st, ForceCmd(x, st)
  PROVE  Kept
<1> SUFFICES ASSUME NEW c \in Pending
             PROVE  Copies(c, queue', current') >= Copies(c, queue, current)
  BY DEF Kept
<1>1. Cardinality(InQueue(c, queue)) \in Nat /\ c # None
  BY QueueFinite, PendingType DEF TypeOK
<1>2. CASE current = None
  BY <1>1, <1>2, CopiesCount DEF ForceCmd
<1>3. CASE current # None
  <2>1. current \in Cmd /\ queue' = Append(queue, current)
    BY <1>3 DEF TypeOK, ForceCmd
  <2>2. Cardinality(InQueue(c, queue'))
          = Cardinality(InQueue(c, queue)) + (IF current = c THEN 1 ELSE 0)
    BY <2>1, CopiesAppended DEF TypeOK
  <2> QED BY <1>1, <2>2, CopiesCount
<1> QED BY <1>2, <1>3

LEMMA KeptDispatch == ASSUME TypeOK, Dispatch PROVE Kept
<1> SUFFICES ASSUME NEW c \in Pending
             PROVE  Copies(c, queue', current') >= Copies(c, queue, current)
  BY DEF Kept
<1>1. /\ queue # <<>> /\ current = None /\ queue \in Seq(Cmd) /\ c # None
      /\ current' = Head(queue) /\ queue' = Tail(queue) /\ Tail(queue) \in Seq(Cmd)
  BY PendingType DEF Dispatch, CanDispatch, TypeOK
<1>2. Cardinality(InQueue(c, queue))
        = Cardinality(InQueue(c, queue')) + (IF current' = c THEN 1 ELSE 0)
  BY <1>1, CopiesTaken
<1>3. Cardinality(InQueue(c, queue)) \in Nat /\ Cardinality(InQueue(c, queue')) \in Nat
  BY <1>1, QueueFinite
<1> QED BY <1>1, <1>2, <1>3, CopiesCount

(* What answers a command takes away that one only.                         *)
LEMMA OthersKept ==
  ASSUME TypeOK, queue' = queue, current' = None
  PROVE  \A c \in Pending : c # current => Copies(c, queue', current') >= Copies(c, queue, current)
<1> SUFFICES ASSUME NEW c \in Pending, c # current
             PROVE  Copies(c, queue, None) >= Copies(c, queue, current)
  OBVIOUS
<1>1. Cardinality(InQueue(c, queue)) \in Nat
  BY QueueFinite DEF TypeOK
<1> QED BY <1>1, CopiesCount

LEMMA ServiceStepKept ==
  ASSUME TypeInv, ServiceStep, ~Respond, ~CmdTimeout
  PROVE  Kept
<1>1. TypeOK
  BY DEF TypeInv
<1>2. CASE SdoStep
  BY <1>1, <1>2, KeptSame DEF SdoStep, SdoQuiet, SdoBusy, SdoSegment, SdoSuccess, SdoAbort, EndSdo
<1>3. CASE AssignStep
  <2>1. CASE AssignAuthorize
    <3>1. Command(assigning, "READ_SN", None) \in Cmd
      BY <1>1, <2>1, CommandType DEF AssignAuthorize, TypeInv, Linked, TypeOK, Op
    <3> QED BY <1>1, <2>1, <3>1, KeptForce DEF AssignAuthorize
  <2>2. CASE ~AssignAuthorize
    BY <1>1, <1>3, <2>2, KeptSame
       DEF AssignStep, AssignQuiet, AssignTimeout, AssignCallLine, AssignLineFailed, AssignSelected,
           AssignSendNodeId, AssignNoSn, AssignConnect, AssignFailure, mgrVars
  <2> QED BY <2>1, <2>2
<1>4. CASE RespondNothing \/ NoDispatch
  BY <1>1, <1>4, KeptSame DEF RespondNothing, NoDispatch, mgrVars
<1>5. CASE ScanBp
  <2> DEFINE op == Lacks(bp[scan])
  <2>1. UNCHANGED current /\ queue' = IF op = None THEN queue ELSE Append(queue, Command(scan, op, None))
    BY <1>5 DEF ScanBp
  <2>2. op # None => Command(scan, op, None) \in Cmd
    BY <1>1, CommandType DEF TypeOK, Lacks, Op
  <2> QED BY <1>1, <2>1, <2>2, KeptSame, KeptAppend
<1>6. CASE Dispatch
  BY <1>1, <1>6, KeptDispatch
<1> QED BY <1>2, <1>3, <1>4, <1>5, <1>6 DEF ServiceStep

(* What each step does to the two variables, by the name of the helper.     *)
LEMMA NextKept ==
  ASSUME TypeInv, [Next]_vars, ~Respond, ~CmdTimeout
  PROVE  Kept
<1>1. TypeOK
  BY DEF TypeInv
<1>2. CASE CanFrame
  BY <1>1, <1>2, KeptSame DEF CanFrame, mgrVars
<1>3. CASE ServiceStep
  BY <1>3, ServiceStepKept
<1>4. CASE ClientStep
  <2>1. PICK b \in Bps :
          \/ Assign(b) \/ CabinetLost(b) \/ DoorMoves(b) \/ SetCmd(b) \/ SetCmdForce(b)
          \/ \E d \in Device : AssignDevice(b, d)
          \/ SwapPack(b) \/ PackRestarts(b)
    BY <1>4 DEF ClientStep
  <2>2. Command(b, "CONTROL", None) \in Cmd /\ \A d \in Device : Command(b, "WRITE_ASSIGNED", d) \in Cmd
    BY CommandType DEF Op
  <2>3. CASE SetCmd(b)
    BY <1>1, <2>2, <2>3, KeptAppend DEF SetCmd
  <2>4. CASE SetCmdForce(b)
    BY <1>1, <2>2, <2>4, KeptForce DEF SetCmdForce
  <2>5. CASE \E d \in Device : AssignDevice(b, d)
    BY <1>1, <2>2, <2>5, KeptAppend DEF AssignDevice
  <2>6. CASE Assign(b) \/ CabinetLost(b) \/ DoorMoves(b) \/ SwapPack(b) \/ PackRestarts(b)
    BY <1>1, <2>6, KeptSame DEF Assign, CabinetLost, DoorMoves, SwapPack, PackRestarts, mgrVars
  <2> QED BY <2>1, <2>3, <2>4, <2>5, <2>6
<1>5. CASE UNCHANGED vars
  BY <1>1, <1>5, KeptSame DEF vars, mgrVars
<1> QED BY <1>2, <1>3, <1>4, <1>5 DEF Next

LEMMA CopiesType == ASSUME TypeOK, NEW c PROVE Copies(c, queue, current) \in Nat
<1>1. Cardinality(InQueue(c, queue)) \in Nat
  BY QueueFinite DEF TypeOK
<1> QED BY <1>1, CopiesCount

(* One step loses no command but the one it answers.                        *)
LEMMA StepLosesNone ==
  ASSUME TypeInv, TypeInv', [Next]_vars, NEW c \in Pending,
         Copies(c, queue', current') < Copies(c, queue, current)
  PROVE  c = current /\ pc \in {"resp", "cmd"}
<1>1. TypeOK /\ Copies(c, queue, current) \in Nat /\ Copies(c, queue', current') \in Nat
  <2>1. TypeOK /\ TypeOK'
    BY DEF TypeInv
  <2>2. Cardinality(InQueue(c, queue')) \in Nat
    BY <2>1, QueueFinite DEF TypeOK
  <2> QED BY <2>1, <2>2, CopiesType, CopiesCount
<1>2. CASE Respond \/ CmdTimeout
  <2>1. queue' = queue /\ current' = None /\ pc \in {"resp", "cmd"}
    BY <1>2 DEF Respond, CmdTimeout
  <2> QED BY <1>1, <2>1, OthersKept
<1>3. CASE ~Respond /\ ~CmdTimeout
  BY <1>1, <1>3, NextKept DEF Kept
<1> QED BY <1>2, <1>3

(* No command is lost, however many are forced, queued and displaced: a     *)
(* step takes away copies of one only by calling its callback.              *)
THEOREM CommandsKept == Spec => NoCommandLost
<1>1. TypeInv /\ TypeInv' /\ [Next]_vars
        => [\A c \in Pending : Copies(c, queue', current') < Copies(c, queue, current)
             => c = current /\ pc \in {"resp", "cmd"}]_vars
  BY StepLosesNone
<1> QED BY <1>1, TypeInvariant, PTL DEF Spec, NoCommandLost

-----------------------------------------------------------------------------
(* The battery manager implements SlotService: each step shows its packs as *)
(* the abstract specification allows, or leaves them as they were.          *)

LEMMA ViewValue ==
  \A b \in Bps : View[b] = IF conn[b] # None THEN "on" ELSE IF Underway(b) THEN "assigning" ELSE "off"
BY DEF View

LEMMA ViewShape == View = [b \in Bps |-> View[b]]
BY DEF View

(* Only the slot being assigned is under way, and it is not on.             *)
LEMMA ViewCases ==
  ASSUME SlotInv, NEW b \in Bps
  PROVE  /\ View[b] = "assigning" <=> Underway(b)
         /\ Underway(b) => assigning = b /\ conn[b] = None
         /\ View[b] = "on" <=> conn[b] # None
BY ViewValue DEF SlotInv, ViewsAgree, Underway

(* What a step does to one slot, the others keeping theirs.                 *)
LEMMA ViewStep ==
  ASSUME NEW b \in Bps, \A c \in Bps \ {b} : View'[c] = View[c],
         \/ View'[b] = View[b]
         \/ View'[b] = "off"
         \/ View[b] = "assigning" /\ View'[b] = "on"
         \/ View[b] = "off" /\ View'[b] = "assigning" /\ \A c \in Bps : View[c] # "assigning"
  PROVE  [Slots!Next]_View
<1>1. View' = [c \in Bps |-> View'[c]]
  BY DEF View
<1>2. CASE View'[b] = View[b]
  <2>1. View' = View
    BY <1>1, <1>2, ViewShape
  <2> QED BY <2>1
<1>3. CASE View'[b] = "off" /\ View[b] # "off"
  <2>1. View' = [View EXCEPT ![b] = "off"]
    BY <1>1, <1>3, ViewShape
  <2>2. Slots!Leave(b)
    BY <1>3, <2>1 DEF Slots!Leave
  <2> QED BY <2>2 DEF Slots!Next
<1>4. CASE View[b] = "assigning" /\ View'[b] = "on"
  <2>1. View' = [View EXCEPT ![b] = "on"]
    BY <1>1, <1>4, ViewShape
  <2>2. Slots!Connect(b)
    BY <1>4, <2>1 DEF Slots!Connect
  <2> QED BY <2>2 DEF Slots!Next
<1>5. CASE View[b] = "off" /\ View'[b] = "assigning" /\ \A c \in Bps : View[c] # "assigning"
  <2>1. View' = [c \in Bps |-> IF c = b THEN "assigning"
                               ELSE IF View[c] = "assigning" THEN "off" ELSE View[c]]
    BY <1>1, <1>5
  <2>2. Slots!Begin(b)
    BY <1>5, <2>1 DEF Slots!Begin
  <2> QED BY <2>2 DEF Slots!Next
<1> QED BY <1>2, <1>3, <1>4, <1>5

LEMMA ViewSame ==
  ASSUME \A b \in Bps : Underway(b)' = Underway(b), conn' = conn
  PROVE  [Slots!Next]_View
<1>1. \A b \in Bps : View'[b] = View[b]
  BY DEF View
<1>2. View' = View
  BY <1>1 DEF View
<1> QED BY <1>2

LEMMA InitView == Init => Slots!Init
BY NoneAssumption DEF Init, Slots!Init, View, Underway

(* A step that leaves the assignment states and the observer alone.         *)
LEMMA ViewFrame ==
  ASSUME \A b \in Bps : bp'[b].status = "FAILURE" <=> bp[b].status = "FAILURE",
         UNCHANGED <<assigning, conn>>
  PROVE  [Slots!Next]_View
<1>1. \A b \in Bps : Underway(b)' = Underway(b)
  BY DEF Underway
<1> QED BY <1>1, ViewSame

(* A step of the pack being assigned only.                                  *)
LEMMA ViewAssigning ==
  ASSUME TypeInv, SlotInv, assigning # None, UNCHANGED conn,
         \A b \in Bps \ {assigning} : bp'[b] = bp[b],
         assigning' = assigning \/ assigning' = None
  PROVE  [Slots!Next]_View
<1>1. assigning \in Bps /\ conn[assigning] = None
  BY DEF TypeInv, TypeOK, SlotInv, ViewsAgree
<1>2. \A c \in Bps \ {assigning} : Underway(c)' = Underway(c)
  BY NoneAssumption DEF Underway
<1>3. \A c \in Bps \ {assigning} : View'[c] = View[c] /\ View[c] # "assigning"
  BY <1>2 DEF View, Underway
<1>4. View[assigning] \in {"off", "assigning"} /\ View'[assigning] \in {"off", "assigning"}
  BY <1>1 DEF View
<1>5. View[assigning] = "off" => \A c \in Bps : View[c] # "assigning"
  BY <1>3
<1> QED BY <1>1, <1>3, <1>4, <1>5, ViewStep

(* A pack that is reset and gone for the observer.                          *)
LEMMA ViewReset ==
  ASSUME TypeInv, NEW b \in Bps,
         bp' = [bp EXCEPT ![b] = Blank], conn' = [conn EXCEPT ![b] = None],
         UNCHANGED assigning
  PROVE  [Slots!Next]_View
<1>1. \A c \in Bps \ {b} : Underway(c)' = Underway(c) /\ conn'[c] = conn[c]
  BY DEF Underway, TypeInv, TypeOK
<1>2. \A c \in Bps \ {b} : View'[c] = View[c]
  BY <1>1 DEF View
<1>3. View'[b] = "off"
  BY BlankWaits DEF View, Underway, TypeInv, TypeOK
<1> QED BY <1>2, <1>3, ViewStep

LEMMA CanFrameView == TypeInv /\ SlotInv /\ CanFrame => [Slots!Next]_View
<1> SUFFICES ASSUME TypeInv, SlotInv, CanFrame PROVE [Slots!Next]_View
  OBVIOUS
<1>1. PICK b \in Bps : /\ bp[b].status # "FAILURE"
                      /\ \E st : st # "FAILURE" /\ bp' = [bp EXCEPT ![b].status = st]
  BY DEF CanFrame
<1>2. PICK st : st # "FAILURE" /\ bp' = [bp EXCEPT ![b].status = st]
  BY <1>1
<1>3. \A c \in Bps : bp'[c].status = "FAILURE" <=> bp[c].status = "FAILURE"
  BY <1>1, <1>2 DEF TypeInv, TypeOK, BpRecord
<1> QED BY <1>3, ViewFrame DEF CanFrame, asgVars

LEMMA SdoStepView == TypeInv /\ SlotInv /\ SdoStep => [Slots!Next]_View
<1> SUFFICES ASSUME TypeInv, SlotInv, SdoStep PROVE [Slots!Next]_View
  OBVIOUS
<1> USE DEF EndSdo, asgVars
<1>1. bp \in [Bps -> BpRecord]
  BY DEF TypeInv, TypeOK
<1>2. \A b \in Bps : bp'[b].status = bp[b].status
  BY <1>1 DEF SdoStep, SdoQuiet, SdoBusy, SdoSegment, SdoSuccess, SdoAbort, BpRecord
<1> QED BY <1>2, ViewFrame DEF SdoStep, SdoQuiet, SdoBusy, SdoSegment, SdoSuccess, SdoAbort

LEMMA ConnectView == TypeInv /\ SlotInv /\ AssignConnect => [Slots!Next]_View
<1> SUFFICES ASSUME TypeInv, SlotInv, AssignConnect PROVE [Slots!Next]_View
  OBVIOUS
<1>1. assigning \in Bps /\ conn \in [Bps -> Sn \cup {None}] /\ bp \in [Bps -> BpRecord]
  BY DEF TypeInv, TypeOK, AssignConnect, CanConnect
<1>2. conn[assigning] = None /\ bp[assigning].status = "ASSIGNED" /\ bp[assigning].sn # None
  BY <1>1 DEF AssignConnect, CanConnect, SlotInv, ViewsAgree
<1>3. View[assigning] = "assigning"
  BY <1>1, <1>2 DEF View, Underway
<1>4. conn' = [conn EXCEPT ![assigning] = bp[assigning].sn] /\ assigning' = None
  BY DEF AssignConnect, CanConnect
<1>5. View'[assigning] = "on"
  BY <1>1, <1>2, <1>4 DEF View
<1>6. \A c \in Bps \ {assigning} : View'[c] = View[c]
  BY <1>1, <1>4, NoneAssumption DEF View, Underway
<1> QED BY <1>1, <1>3, <1>5, <1>6, ViewStep

LEMMA AssignStepView == TypeInv /\ SlotInv /\ AssignStep => [Slots!Next]_View
<1> SUFFICES ASSUME TypeInv, SlotInv, AssignStep PROVE [Slots!Next]_View
  OBVIOUS
<1> USE DEF asgVars, mgrVars, env
<1>1. CASE AssignQuiet \/ AssignCallLine
  BY <1>1, ViewFrame DEF AssignQuiet, AssignCallLine
<1>2. CASE AssignConnect
  BY <1>2, ConnectView
<1>3. CASE ~(AssignQuiet \/ AssignCallLine \/ AssignConnect)
  <2>1. assigning # None /\ UNCHANGED conn
    BY <1>3 DEF TypeInv, Linked, AssignStep, AssignTimeout, AssignLineFailed, AssignSelected, AssignAuthorize,
                AssignSendNodeId, AssignNoSn, AssignFailure
  <2>2. \A b \in Bps \ {assigning} : bp'[b] = bp[b]
    BY <1>3 DEF TypeInv, TypeOK, AssignStep, AssignTimeout, AssignLineFailed, AssignSelected, AssignAuthorize,
                AssignSendNodeId, AssignNoSn, AssignFailure, FailAssign
  <2>3. assigning' = assigning \/ assigning' = None
    BY <1>3 DEF AssignStep, AssignTimeout, AssignLineFailed, AssignSelected, AssignAuthorize,
                AssignSendNodeId, AssignNoSn, AssignFailure, FailAssign
  <2> QED BY <2>1, <2>2, <2>3, ViewAssigning
<1> QED BY <1>1, <1>2, <1>3

LEMMA CallbackView ==
  ASSUME TypeInv, NEW c \in Cmd, NEW ok,
         bp' = [bp EXCEPT ![c.bp] = AfterCallback(c, ok)], UNCHANGED <<assigning, conn>>
  PROVE  [Slots!Next]_View
<1>1. c.bp \in Bps /\ bp \in [Bps -> BpRecord]
  BY DEF TypeInv, TypeOK, Cmd
<1>2. AfterCallback(c, ok).status = "FAILURE" <=> bp[c.bp].status = "FAILURE"
  BY CallbackFields DEF TypeInv
<1>3. \A b \in Bps : bp'[b].status = "FAILURE" <=> bp[b].status = "FAILURE"
  BY <1>1, <1>2
<1> QED BY <1>3, ViewFrame

LEMMA CommandStepView ==
  TypeInv /\ SlotInv /\ (Respond \/ RespondNothing \/ ScanBp \/ Dispatch \/ NoDispatch \/ CmdTimeout)
    => [Slots!Next]_View
<1> SUFFICES ASSUME TypeInv, SlotInv,
                    Respond \/ RespondNothing \/ ScanBp \/ Dispatch \/ NoDispatch \/ CmdTimeout
             PROVE  [Slots!Next]_View
  OBVIOUS
<1> USE DEF asgVars, mgrVars, env
<1>1. CASE Respond
  <2>1. comCurrent \in Cmd
    BY <1>1 DEF Respond, TypeInv, TypeOK
  <2> QED BY <1>1, <2>1, CallbackView DEF Respond
<1>2. CASE RespondNothing \/ Dispatch \/ NoDispatch
  BY <1>2, ViewFrame DEF RespondNothing, Dispatch, NoDispatch
<1>3. CASE ScanBp
  <2>1. scan \in Bps /\ bp \in [Bps -> BpRecord] /\ UNCHANGED assigning
    BY <1>3 DEF ScanBp, TypeInv, TypeOK
  <2>2. CASE bp' = [bp EXCEPT ![scan] = Blank] /\ conn' = [conn EXCEPT ![scan] = None]
    BY <2>1, <2>2, ViewReset
  <2>3. CASE UNCHANGED conn /\ \E w : bp' = [bp EXCEPT ![scan].waiting = w]
    <3>1. \A b \in Bps : bp'[b].status = bp[b].status
      BY <2>1, <2>3 DEF BpRecord
    <3> QED BY <2>1, <2>3, <3>1, ViewFrame
  <2> QED BY <1>3, <2>2, <2>3 DEF ScanBp
<1>4. CASE CmdTimeout
  <2>1. current \in Cmd
    BY <1>4 DEF CmdTimeout, TypeInv, TypeOK
  <2> QED BY <1>4, <2>1, CallbackView DEF CmdTimeout
<1> QED BY <1>1, <1>2, <1>3, <1>4

(* A new assignment takes over from the one under way.                      *)
LEMMA AssignView ==
  ASSUME TypeInv, SlotInv, NEW b \in Bps, Assign(b)
  PROVE  [Slots!Next]_View
<1>1. /\ bp \in [Bps -> BpRecord] /\ UNCHANGED conn /\ bp[b].status = "FAILURE"
      /\ conn[b] = None /\ View[b] = "off"
  BY DEF TypeInv, TypeOK, Assign, SlotInv, ViewsAgree, View, Underway
<1>2. Dropped(b) \in [Bps -> BpRecord] /\ Dropped(b)[b] = bp[b]
  BY <1>1, StateType, BpUpdates DEF Dropped
<1>3. \/ bp'[b].status = "WAIT_REQUEST" /\ assigning' = b
      \/ assigning' = None
  BY <1>2 DEF Assign, BpRecord
<1>4. \A c \in Bps \ {b} : View'[c] = IF View[c] = "assigning" THEN "off" ELSE View[c]
  BY <1>1, <1>3, NoneAssumption DEF View, Underway
<1>5. CASE bp'[b].status = "WAIT_REQUEST" /\ assigning' = b
  <2>1. View'[b] = "assigning"
    BY <1>1, <1>5 DEF View, Underway
  <2>2. View' = [c \in Bps |-> IF c = b THEN "assigning"
                               ELSE IF View[c] = "assigning" THEN "off" ELSE View[c]]
    BY <1>4, <2>1 DEF View
  <2>3. Slots!Begin(b)
    BY <1>1, <2>2 DEF Slots!Begin
  <2> QED BY <2>3 DEF Slots!Next
<1>6. CASE assigning' = None
  <2>1. View'[b] = "off"
    BY <1>1, <1>6, NoneAssumption DEF View, Underway
  <2>2. CASE \E c \in Bps : View[c] = "assigning"
    <3>1. PICK c \in Bps : View[c] = "assigning"
      BY <2>2
    <3>2. \A d \in Bps \ {c} : View[d] # "assigning"
      BY <3>1, ViewCases
    <3>3. \A d \in Bps \ {c} : View'[d] = View[d]
      BY <1>1, <1>4, <2>1, <3>2
    <3>4. View'[c] = "off"
      BY <1>4, <2>1, <3>1
    <3> QED BY <3>3, <3>4, ViewStep
  <2>3. CASE \A c \in Bps : View[c] # "assigning"
    BY <1>1, <1>4, <2>1, <2>3, ViewStep
  <2> QED BY <2>2, <2>3
<1> QED BY <1>3, <1>5, <1>6

LEMMA ClientStepView == TypeInv /\ SlotInv /\ ClientStep => [Slots!Next]_View
<1> SUFFICES ASSUME TypeInv, SlotInv, NEW b \in Bps,
                    \/ Assign(b) \/ CabinetLost(b) \/ DoorMoves(b) \/ SetCmd(b) \/ SetCmdForce(b)
                    \/ \E d \in Device : AssignDevice(b, d)
                    \/ SwapPack(b) \/ PackRestarts(b)
             PROVE  [Slots!Next]_View
  BY DEF ClientStep
<1> USE DEF asgVars, mgrVars, thread, env
<1>1. CASE Assign(b)
  BY <1>1, AssignView
<1>2. ResetTo(b) => bp' = [bp EXCEPT ![b] = Blank] /\ conn' = [conn EXCEPT ![b] = None]
  BY DEF ResetTo, SlotInv, ViewsAgree, TypeInv, TypeOK
<1>3. CASE CabinetLost(b) \/ DoorMoves(b)
  BY <1>2, <1>3, ViewReset DEF CabinetLost, DoorMoves
<1>4. CASE \E d \in Device : AssignDevice(b, d)
  <2>1. \A c \in Bps : bp'[c].status = bp[c].status
    BY <1>4 DEF AssignDevice, TypeInv, TypeOK, BpRecord
  <2> QED BY <1>4, <2>1, ViewFrame DEF AssignDevice
<1>5. CASE SetCmd(b) \/ SetCmdForce(b) \/ SwapPack(b) \/ PackRestarts(b)
  BY <1>5, ViewFrame DEF SetCmd, SetCmdForce, SwapPack, PackRestarts
<1> QED BY <1>1, <1>3, <1>4, <1>5

LEMMA StepView == TypeInv /\ SlotInv /\ [Next]_vars => [Slots!Next]_View
<1>1. UNCHANGED vars => [Slots!Next]_View
  BY ViewFrame DEF vars, asgVars
<1> QED
  BY <1>1, CanFrameView, SdoStepView, AssignStepView, CommandStepView, ClientStepView DEF Next, ServiceStep

(* The battery service implements SlotService: every step of its thread, of *)
(* its clients and of the bus is a step of one slot there, or none.         *)
THEOREM Refinement == Spec => SlotsSpec
BY InitView, StepView, TypeInvariant, SlotInvariant, PTL DEF Spec, SlotsSpec, Slots!Spec
=============================================================================
