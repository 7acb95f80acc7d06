----------------------------- MODULE SdoProofs -----------------------------
(***************************************************************************)
(* Proofs about SdoTransfer and SyncCycle, for every set of objects, every *)
(* length of the long ones and of the buses.                               *)
(***************************************************************************)
EXTENDS SyncCycle, FiniteSetTheorems, TLAPS

(* The inductive invariant: the types, the timers, and that a transfer never  *)
(* counts beyond the object it is about.                                      *)
ClientTyped ==
  /\ cli \in [state : CliStates, timer : BOOLEAN, toggle : {0, 1}, off : 0..Segments, late : 0..ChanMax,
              rx : SrvFrame \cup {None}, status : {"idle", "busy", "success", "abort"}]
  /\ req \in [op : {"down", "up"}, obj : Objects, val : Data]
  /\ buf \in [1..Segments -> Data \cup {None}]
  /\ forced \in 0..ForceMax /\ clean \in BOOLEAN

ServerTyped ==
  /\ srv \in [state : SrvStates, timer : BOOLEAN, toggle : {0, 1}, off : 0..Segments,
              rx : CliFrame \cup {None}, obj : Objects \cup {None},
              internal : BOOLEAN, tx : SrvFrame \cup {None}]
  /\ shadow \in [Extended -> Content] /\ od \in [Objects -> Content]

BusTyped ==
  /\ toSrv \in Seq(CliFrame) /\ toCli \in Seq(SrvFrame)
  /\ Len(toSrv) <= ChanMax /\ Len(toCli) <= ChanMax /\ hurt \in BOOLEAN

ClientCounts ==
  /\ cli.state = "dlRsp" => cli.off = 0
  /\ cli.state = "ulSeg" => cli.off < Segs(req.obj)

ServerCounts ==
  /\ srv.state \in {"dlRsp", "dlSeg", "ulSeg"} => srv.obj \in Objects
  /\ srv.state = "ulSeg" \/ (srv.state = "dlSeg" /\ ~srv.internal) => srv.off < Segs(srv.obj)
  /\ srv.internal => srv.tx \in SrvFrame

ClientArmed ==
  /\ cli.state = "idle" => ~cli.timer /\ cli.rx = None
  /\ cli.state \in {"dlRsp", "dlSeg", "ulRsp", "ulSeg"} => cli.timer
ServerArmed ==
  /\ srv.state = "idle" => ~srv.timer
  /\ srv.state \in {"dlRsp", "dlSeg", "ulSeg"} => srv.timer \/ srv.internal

ClientInv == ClientTyped /\ ClientCounts /\ ClientArmed
ServerInv == ServerTyped /\ ServerCounts /\ ServerArmed
SdoInv == ClientInv /\ ServerInv /\ BusTyped

-----------------------------------------------------------------------------
(* Frames, buses and lengths. *)
LEMMA SegsBounds == ASSUME NEW o PROVE Segs(o) \in 1..Segments
BY SdoAssumption DEF Segs

LEMMA ClientMessage ==
  ASSUME NEW cs \in CliCs, NEW o \in Objects \cup {None}, NEW t \in {0, 1},
         NEW v \in Data \cup {None}, NEW l \in BOOLEAN,
         cs \in {"dlInit", "ulInit"} => o \in Objects,
         cs = "dlSeg" \/ (cs = "dlInit" /\ o \notin Long) => v \in Data
  PROVE  Msg(cs, o, t, v, l) \in CliFrame
BY DEF Msg, CliFrame, Frame

LEMMA ServerMessage ==
  ASSUME NEW cs \in SrvCs, NEW o \in Objects \cup {None}, NEW t \in {0, 1},
         NEW v \in Data \cup {None}, NEW l \in BOOLEAN
  PROVE  Msg(cs, o, t, v, l) \in SrvFrame
BY DEF Msg, SrvFrame, Frame

LEMMA AbortMessage == AbortMsg \in CliFrame /\ AbortMsg \in SrvFrame
BY DEF AbortMsg, Msg, CliFrame, SrvFrame, Frame, CliCs, SrvCs

LEMMA ClientFrameFields ==
  ASSUME NEW m \in CliFrame
  PROVE  /\ m.cs \in CliCs /\ m.obj \in Objects \cup {None} /\ m.toggle \in {0, 1} /\ m.last \in BOOLEAN
         /\ m.cs \in {"dlInit", "ulInit"} => m.obj \in Objects
         /\ m.cs = "dlSeg" \/ (m.cs = "dlInit" /\ m.obj \notin Long) => m.val \in Data
BY DEF CliFrame, Frame

LEMMA ServerFrameFields ==
  ASSUME NEW m \in SrvFrame
  PROVE  /\ m.cs \in SrvCs /\ m.toggle \in {0, 1} /\ m.val \in Data \cup {None} /\ m.last \in BOOLEAN
BY DEF SrvFrame, Frame

LEMMA PutTyped ==
  ASSUME NEW F, NEW bus \in Seq(F), Len(bus) <= ChanMax, NEW m \in F
  PROVE  Put(bus, m) \in Seq(F) /\ Len(Put(bus, m)) <= ChanMax
BY SdoAssumption DEF Put

LEMMA TailTyped ==
  ASSUME NEW F, NEW bus \in Seq(F), Len(bus) <= ChanMax, bus # <<>>
  PROVE  Head(bus) \in F /\ Tail(bus) \in Seq(F) /\ Len(Tail(bus)) <= ChanMax
BY SdoAssumption

LEMMA SentToServer ==
  ASSUME BusTyped, NEW m \in CliFrame, ToServer(m), toCli' = toCli
  PROVE  BusTyped'
<1>1. Put(toSrv, m) \in Seq(CliFrame) /\ Len(Put(toSrv, m)) <= ChanMax
  BY PutTyped DEF BusTyped
<1>2. toSrv' = Put(toSrv, m) /\ hurt' \in BOOLEAN
  BY DEF ToServer, BusTyped
<1> QED BY <1>1, <1>2 DEF BusTyped

LEMMA SentToClient ==
  ASSUME BusTyped, NEW m \in SrvFrame, ToClient(m), toSrv' = toSrv
  PROVE  BusTyped'
<1>1. Put(toCli, m) \in Seq(SrvFrame) /\ Len(Put(toCli, m)) <= ChanMax
  BY PutTyped DEF BusTyped
<1>2. toCli' = Put(toCli, m) /\ hurt' \in BOOLEAN
  BY DEF ToClient, BusTyped
<1> QED BY <1>1, <1>2 DEF BusTyped

(* A step of one side leaves what the other keeps alone. *)
LEMMA ServerKept == ASSUME ServerInv, UNCHANGED <<srv, shadow, od>> PROVE ServerInv'
BY DEF ServerInv, ServerTyped, ServerCounts, ServerArmed

LEMMA ClientKept == ASSUME ClientInv, UNCHANGED <<cli, req, buf, forced, clean>> PROVE ClientInv'
BY DEF ClientInv, ClientTyped, ClientCounts, ClientArmed

-----------------------------------------------------------------------------
(* The client. *)
CliRecord == [state : CliStates, timer : BOOLEAN, toggle : {0, 1}, off : 0..Segments, late : 0..ChanMax,
              rx : SrvFrame \cup {None}, status : {"idle", "busy", "success", "abort"}]

LEMMA TimedFields ==
  ASSUME SdoInv
  PROVE  /\ Timed(cli) \in CliRecord /\ Timed(cli).timer /\ Timed(cli).state = cli.state
         /\ Timed(cli).off = cli.off /\ Timed(cli).toggle = cli.toggle /\ Timed(cli).status = cli.status
<1>1. cli \in CliRecord
  BY DEF SdoInv, ClientInv, ClientTyped, CliRecord
<1>2. Len(toCli) \in 0..ChanMax
  BY SdoAssumption DEF SdoInv, BusTyped
<1> QED BY <1>1, <1>2 DEF Timed, CliRecord

LEMMA NearerFields ==
  ASSUME SdoInv
  PROVE  /\ Nearer \in CliRecord /\ Nearer.timer = cli.timer /\ Nearer.state = cli.state
         /\ Nearer.off = cli.off /\ Nearer.toggle = cli.toggle /\ Nearer.status = cli.status
         /\ Nearer.rx = cli.rx
<1>1. cli \in CliRecord
  BY DEF SdoInv, ClientInv, ClientTyped, CliRecord
<1>2. PICK n \in 0..ChanMax : n = IF cli.late = 0 THEN 0 ELSE cli.late - 1
  BY <1>1, SdoAssumption DEF CliRecord
<1>3. Nearer = [cli EXCEPT !.late = n]
  BY <1>2 DEF Nearer
<1> QED BY <1>1, <1>3 DEF CliRecord

(* Nothing of the client's invariant is about `late`.                          *)
LEMMA ClientNearer ==
  ASSUME ClientInv, cli' \in CliRecord, cli'.state = cli.state, cli'.timer = cli.timer,
         cli'.off = cli.off, cli'.rx = cli.rx, clean' \in BOOLEAN, UNCHANGED <<req, buf, forced>>
  PROVE  ClientInv'
BY DEF ClientInv, ClientTyped, ClientCounts, ClientArmed, CliRecord, Segs

(* A transfer ends at rest, however it does. *)
LEMMA ClientEnded ==
  ASSUME ClientInv, NEW status \in {"success", "abort"}, cli' = CliEnds(status),
         buf' \in [1..Segments -> Data \cup {None}], UNCHANGED <<req, forced, clean>>
  PROVE  ClientInv'
<1>1. cli' = [[cli EXCEPT !.timer = FALSE, !.rx = None, !.state = "idle"] EXCEPT !.status = status]
  BY DEF CliEnds, Aborted
<1>2. cli \in CliRecord
  BY DEF ClientInv, ClientTyped, CliRecord
<1>3. cli' \in CliRecord /\ cli'.state = "idle" /\ ~cli'.timer /\ cli'.rx = None
  BY <1>1, <1>2 DEF CliRecord, CliStates
<1> QED BY <1>3 DEF ClientInv, ClientTyped, ClientCounts, ClientArmed, CliRecord

(* A client that has sent something and waits for the answer.                 *)
LEMMA ClientWaits ==
  ASSUME ClientInv, cli' \in CliRecord, cli'.timer,
         cli'.state \in {"dlRsp", "dlSeg", "ulRsp", "ulSeg"},
         cli'.state = "dlRsp" => cli'.off = 0,
         cli'.state = "ulSeg" => cli'.off < Segs(req.obj),
         buf' \in [1..Segments -> Data \cup {None}], UNCHANGED <<req, forced, clean>>
  PROVE  ClientInv'
<1>1. cli'.state # "idle"
  OBVIOUS
<1> QED BY <1>1 DEF ClientInv, ClientTyped, ClientCounts, ClientArmed, CliRecord, Segs

LEMMA StartStep ==
  ASSUME SdoInv, Start
  PROVE  SdoInv'
<1> USE DEF SdoInv
<1>1. PICK op \in {"down", "up"}, o \in Objects, d \in Data :
        /\ req' = [op |-> op, obj |-> o, val |-> d]
        /\ cli' = [cli EXCEPT !.state = IF op = "down" THEN "dlReq" ELSE "ulReq", !.status = "busy"]
  BY DEF Start
<1>2. cli \in CliRecord
  BY DEF ClientInv, ClientTyped, CliRecord
<1>3. cli' \in CliRecord /\ cli'.state \in {"dlReq", "ulReq"}
  BY <1>1, <1>2 DEF CliRecord, CliStates
<1>4. forced' \in 0..ForceMax /\ clean' \in BOOLEAN /\ hurt' \in BOOLEAN
  <2>1. ForceMax \in Nat /\ forced \in 0..ForceMax
    BY SdoAssumption DEF ClientInv, ClientTyped
  <2>2. forced' \in 0..ForceMax
    BY <2>1 DEF Start
  <2> QED BY <2>2 DEF Start, Quiescent
<1>5. req' \in [op : {"down", "up"}, obj : Objects, val : Data] /\ buf' \in [1..Segments -> Data \cup {None}]
  BY <1>1 DEF Start
<1>6. ClientInv'
  BY <1>3, <1>4, <1>5 DEF ClientInv, ClientTyped, ClientCounts, ClientArmed, CliRecord
<1>7. ServerInv'
  BY ServerKept DEF Start
<1>8. BusTyped'
  BY <1>4 DEF Start, BusTyped
<1> QED BY <1>6, <1>7, <1>8

LEMMA ClientTimeoutStep ==
  ASSUME SdoInv, ClientTimeout
  PROVE  SdoInv'
<1> USE DEF SdoInv
<1>1. ClientInv'
  BY ClientEnded DEF ClientTimeout, ClientInv, ClientTyped
<1>2. ServerInv' /\ BusTyped'
  BY ServerKept DEF ClientTimeout, ServerSame, BusTyped
<1> QED BY <1>1, <1>2

LEMMA ClientAbortedStep ==
  ASSUME SdoInv, ClientAborted
  PROVE  SdoInv'
<1> USE DEF SdoInv
<1>1. ClientInv'
  BY ClientEnded DEF ClientAborted, ClientInv, ClientTyped
<1>2. ServerInv' /\ BusTyped'
  BY ServerKept DEF ClientAborted, ServerSame, BusTyped
<1> QED BY <1>1, <1>2

LEMMA ClientInitReqStep ==
  ASSUME SdoInv, ClientInitReq
  PROVE  SdoInv'
<1> USE DEF SdoInv
<1> DEFINE cs == IF cli.state = "dlReq" THEN "dlInit" ELSE "ulInit"
           val == IF cli.state = "dlReq" /\ req.obj \notin Long THEN req.val ELSE None
           m == Msg(cs, req.obj, 0, val, FALSE)
<1>1. /\ ToServer(m) /\ ServerSame /\ UNCHANGED <<req, buf, forced, clean>>
      /\ cli' = [Timed(cli) EXCEPT !.state = IF cli.state = "dlReq" THEN "dlRsp" ELSE "ulRsp",
                                   !.toggle = 0, !.off = 0, !.rx = None]
  BY DEF ClientInitReq, FirstToggle
<1>2. /\ cs \in {"dlInit", "ulInit"} /\ val \in Data \cup {None} /\ req.obj \in Objects
      /\ cs = "dlInit" /\ req.obj \notin Long => val \in Data
  BY DEF ClientInv, ClientTyped
<1> HIDE DEF cs, val
<1>3. m \in CliFrame
  BY <1>2, ClientMessage DEF CliCs
<1> HIDE DEF m
<1>4. BusTyped'
  BY <1>1, <1>3, SentToServer DEF ServerSame
<1>5. Timed(cli) \in CliRecord /\ Timed(cli).timer /\ 0 \in 0..Segments
  BY TimedFields, SdoAssumption
<1>6. cli' \in CliRecord /\ cli'.state \in {"dlRsp", "ulRsp"} /\ cli'.timer /\ cli'.off = 0
  BY <1>1, <1>5 DEF CliRecord, CliStates
<1>7. ClientInv'
  BY <1>1, <1>6, ClientWaits DEF ClientInv, ClientTyped
<1> QED BY <1>1, <1>4, <1>7, ServerKept DEF ServerSame

LEMMA ClientRefusesStep ==
  ASSUME SdoInv, ClientRefuses
  PROVE  SdoInv'
<1> USE DEF SdoInv
<1>1. ClientInv'
  BY ClientEnded DEF ClientRefuses, ClientInv, ClientTyped
<1>2. BusTyped'
  BY AbortMessage, SentToServer DEF ClientRefuses, ServerSame
<1> QED BY <1>1, <1>2, ServerKept DEF ClientRefuses, ServerSame

LEMMA ClientSucceedsStep ==
  ASSUME SdoInv, ClientSucceeds, ServerSame, UNCHANGED <<req, forced, clean>>,
         buf' \in [1..Segments -> Data \cup {None}]
  PROVE  SdoInv'
<1> USE DEF SdoInv
<1>1. ClientInv'
  BY ClientEnded DEF ClientSucceeds
<1>2. BusTyped'
  BY DEF ClientSucceeds, ServerSame, BusTyped
<1> QED BY <1>1, <1>2, ServerKept DEF ServerSame

LEMMA SendsSegmentStep ==
  ASSUME SdoInv, NEW t \in {0, 1}, ClientSendsSegment(t), cli.off < Segs(req.obj),
         ServerSame, UNCHANGED <<req, buf, forced, clean>>
  PROVE  SdoInv'
<1> USE DEF SdoInv
<1> DEFINE last == Segs(req.obj) <= cli.off + 1
           m == Msg("dlSeg", None, t, req.val, last)
<1>1. last \in BOOLEAN /\ req.val \in Data /\ cli.off \in 0..Segments /\ Segs(req.obj) \in 1..Segments
  BY SegsBounds DEF ClientInv, ClientTyped
<1>2. /\ Timed(cli) \in CliRecord /\ Timed(cli).timer /\ Timed(cli).off = cli.off
      /\ ToServer(m) /\ cli' = [Timed(cli) EXCEPT !.state = "dlSeg", !.toggle = t,
                                                  !.off = cli.off + 1, !.rx = None]
  BY TimedFields DEF ClientSendsSegment
<1> HIDE DEF last
<1>3. m \in CliFrame
  BY <1>1, ClientMessage DEF CliCs
<1> HIDE DEF m
<1>4. BusTyped'
  BY <1>2, <1>3, SentToServer DEF ServerSame
<1>5. cli \in CliRecord /\ cli.off + 1 \in 0..Segments
  BY <1>1, SdoAssumption DEF ClientInv, ClientTyped, CliRecord
<1>6. cli' \in CliRecord /\ cli'.state = "dlSeg" /\ cli'.timer
  BY <1>2, <1>5 DEF CliRecord, CliStates
<1>7. ClientInv'
  BY <1>6, ClientWaits DEF ClientInv, ClientTyped
<1> QED BY <1>4, <1>7, ServerKept DEF ServerSame

LEMMA ClientDlStep ==
  ASSUME SdoInv, ClientDlInitRsp \/ ClientDlSegRsp
  PROVE  SdoInv'
<1> USE DEF SdoInv
<1>1. buf \in [1..Segments -> Data \cup {None}] /\ cli.toggle \in {0, 1} /\ Flip(cli.toggle) \in {0, 1}
      /\ cli.off \in 0..Segments /\ Segs(req.obj) \in 1..Segments
  BY SegsBounds DEF ClientInv, ClientTyped, Flip
<1>2. ServerSame /\ UNCHANGED <<req, buf, forced, clean>>
  BY DEF ClientDlInitRsp, ClientDlSegRsp
<1>3. CASE ClientSucceeds
  BY <1>1, <1>2, <1>3, ClientSucceedsStep
<1>4. CASE ClientDlInitRsp /\ ~ClientSucceeds
  <2>1. cli.off = 0 /\ ClientSendsSegment(cli.toggle)
    BY <1>4 DEF ClientDlInitRsp, Answered, ClientInv, ClientCounts
  <2>2. cli.off < Segs(req.obj)
    BY <1>1, <2>1, SdoAssumption
  <2> QED BY <1>1, <1>2, <2>1, <2>2, SendsSegmentStep
<1>5. CASE ClientDlSegRsp /\ ~ClientSucceeds
  <2>1. ~AllSent /\ ClientSendsSegment(Flip(cli.toggle))
    BY <1>5 DEF ClientDlSegRsp
  <2>2. cli.off < Segs(req.obj)
    BY <1>1, <2>1, SdoAssumption DEF AllSent
  <2> QED BY <1>1, <1>2, <2>1, <2>2, SendsSegmentStep
<1> QED BY <1>3, <1>4, <1>5

LEMMA ClientOutOfMemStep ==
  ASSUME SdoInv, ClientOutOfMem
  PROVE  SdoInv'
<1> USE DEF SdoInv
<1>1. ClientInv'
  BY ClientEnded DEF ClientOutOfMem, ClientInv, ClientTyped
<1>2. Put(toSrv, AbortMsg) \in Seq(CliFrame) /\ Len(Put(toSrv, AbortMsg)) <= ChanMax
  BY AbortMessage, PutTyped DEF BusTyped
<1>3. BusTyped'
  BY <1>2 DEF ClientOutOfMem, ServerSame, BusTyped
<1> QED BY <1>1, <1>3, ServerKept DEF ClientOutOfMem, ServerSame

(* The client asks for the segment after `off` and waits for it.              *)
LEMMA AsksSegmentStep ==
  ASSUME SdoInv, NEW t \in {0, 1}, NEW n \in 0..Segments, n < Segs(req.obj),
         ToServer(Msg("ulSeg", None, t, None, FALSE)),
         cli' \in CliRecord, cli'.state = "ulSeg", cli'.timer, cli'.off = n,
         ServerSame, buf' \in [1..Segments -> Data \cup {None}], UNCHANGED <<req, forced, clean>>
  PROVE  SdoInv'
<1> USE DEF SdoInv
<1> DEFINE m == Msg("ulSeg", None, t, None, FALSE)
<1>1. m \in CliFrame
  BY ClientMessage DEF CliCs
<1> HIDE DEF m
<1>2. BusTyped'
  BY <1>1, SentToServer DEF m, ServerSame
<1>3. ClientInv'
  BY ClientWaits
<1> QED BY <1>2, <1>3, ServerKept DEF ServerSame

LEMMA ClientUlInitRspStep ==
  ASSUME SdoInv, ClientUlInitRsp
  PROVE  SdoInv'
<1> USE DEF SdoInv
<1>1. /\ cli \in CliRecord /\ cli.rx \in SrvFrame /\ cli.state = "ulRsp" /\ 1 \in 1..Segments
      /\ buf \in [1..Segments -> Data \cup {None}] /\ 0 \in 0..Segments /\ 0 < Segs(req.obj)
      /\ ServerSame /\ UNCHANGED <<req, forced, clean>>
  BY SegsBounds, SdoAssumption DEF ClientUlInitRsp, Answered, ClientInv, ClientTyped, CliRecord
<1>2. CASE buf' = [buf EXCEPT ![1] = cli.rx.val] /\ ClientSucceeds
  <2>1. cli.rx.val \in Data \cup {None}
    BY <1>1, ServerFrameFields
  <2>2. buf' \in [1..Segments -> Data \cup {None}]
    BY <1>1, <1>2, <2>1
  <2> QED BY <1>1, <1>2, <2>2, ClientSucceedsStep
<1>3. CASE /\ ToServer(Msg("ulSeg", None, 0, None, FALSE)) /\ UNCHANGED buf
           /\ cli' = [Timed(cli) EXCEPT !.state = "ulSeg", !.off = 0, !.rx = None]
  <2>1. cli' \in CliRecord /\ cli'.state = "ulSeg" /\ cli'.timer /\ cli'.off = 0
    BY <1>1, <1>3, TimedFields DEF CliRecord, CliStates
  <2> QED BY <1>1, <1>3, <2>1, AsksSegmentStep
<1> QED BY <1>2, <1>3 DEF ClientUlInitRsp

LEMMA ClientUlSegRspStep ==
  ASSUME SdoInv, ClientUlSegRsp
  PROVE  SdoInv'
<1> USE DEF SdoInv
<1>1. /\ cli \in CliRecord /\ cli.rx \in SrvFrame /\ cli.state = "ulSeg" /\ cli.toggle \in {0, 1}
      /\ buf \in [1..Segments -> Data \cup {None}] /\ cli.off \in 0..Segments
      /\ cli.off < Segs(req.obj) /\ Segs(req.obj) \in 1..Segments /\ Segments \in Nat
      /\ ServerSame /\ UNCHANGED <<req, forced, clean>>
  BY SegsBounds, SdoAssumption
     DEF ClientUlSegRsp, Answered, ClientInv, ClientTyped, ClientCounts, CliRecord
<1>2. cli.rx.val \in Data \cup {None} /\ cli.rx.last = (Segs(req.obj) <= cli.off + 1)
  BY <1>1, ServerFrameFields DEF ClientUlSegRsp, Unfit
<1>3. buf' = [buf EXCEPT ![cli.off + 1] = cli.rx.val]
  BY DEF ClientUlSegRsp
<1>4. buf' \in [1..Segments -> Data \cup {None}]
  BY <1>1, <1>2, <1>3
<1>5. CASE ClientSucceeds
  BY <1>1, <1>4, <1>5, ClientSucceedsStep
<1>6. CASE ~cli.rx.last /\ ~ClientSucceeds
  <2>1. cli.off + 1 \in 0..Segments /\ cli.off + 1 < Segs(req.obj) /\ Flip(cli.toggle) \in {0, 1}
    <3>1. ~(Segs(req.obj) <= cli.off + 1)
      BY <1>2, <1>6, Zenon
    <3> QED BY <1>1, <3>1 DEF Flip
  <2>2. /\ ToServer(Msg("ulSeg", None, Flip(cli.toggle), None, FALSE))
        /\ cli' = [Timed(cli) EXCEPT !.toggle = Flip(cli.toggle), !.off = cli.off + 1, !.rx = None]
    BY <1>6, TimedFields DEF ClientUlSegRsp
  <2>3. cli' \in CliRecord /\ cli'.state = "ulSeg" /\ cli'.timer /\ cli'.off = cli.off + 1
    BY <1>1, <2>1, <2>2, TimedFields DEF CliRecord
  <2> QED BY <1>1, <1>4, <2>1, <2>2, <2>3, AsksSegmentStep
<1> QED BY <1>5, <1>6 DEF ClientUlSegRsp

LEMMA ClientStepInv ==
  ASSUME SdoInv, ClientStep
  PROVE  SdoInv'
BY ClientAbortedStep, ClientInitReqStep, ClientRefusesStep, ClientDlStep, ClientUlInitRspStep,
   ClientUlSegRspStep, ClientOutOfMemStep DEF ClientStep

-----------------------------------------------------------------------------
(* The server. *)
SrvRecord == [state : SrvStates, timer : BOOLEAN, toggle : {0, 1}, off : 0..Segments,
              rx : CliFrame \cup {None}, obj : Objects \cup {None},
              internal : BOOLEAN, tx : SrvFrame \cup {None}]
Contents == shadow \in [Extended -> Content] /\ od \in [Objects -> Content]

LEMMA ServerFields ==
  ASSUME ServerInv
  PROVE  /\ srv \in SrvRecord /\ Contents
         /\ srv.state \in SrvStates /\ srv.toggle \in {0, 1} /\ srv.off \in 0..Segments
         /\ srv.rx \in CliFrame \cup {None} /\ srv.internal \in BOOLEAN
         /\ srv.state \in {"dlRsp", "dlSeg", "ulSeg"} => srv.obj \in Objects
         /\ srv.state = "ulSeg" \/ (srv.state = "dlSeg" /\ ~srv.internal) => srv.off < Segs(srv.obj)
         /\ srv.internal => srv.tx \in SrvFrame
BY DEF ServerInv, ServerTyped, ServerCounts, SrvRecord, Contents

(* A server that is idle or dead. *)
LEMMA ServerEnded ==
  ASSUME srv' \in SrvRecord, srv'.state \in {"idle", "dead"}, ~srv'.timer,
         srv'.internal => srv'.tx \in SrvFrame, Contents'
  PROVE  ServerInv'
<1>1. srv'.state \notin {"dlRsp", "dlSeg", "ulSeg"}
  OBVIOUS
<1> QED BY <1>1 DEF ServerInv, ServerTyped, ServerCounts, ServerArmed, SrvRecord, Contents

(* A server that waits for a segment, or for the extension of its object.     *)
LEMMA ServerWaits ==
  ASSUME srv' \in SrvRecord, srv'.state \in {"dlRsp", "dlSeg", "ulSeg"}, srv'.obj \in Objects,
         srv'.timer \/ srv'.internal,
         srv'.state = "ulSeg" \/ (srv'.state = "dlSeg" /\ ~srv'.internal) => srv'.off < Segs(srv'.obj),
         srv'.internal => srv'.tx \in SrvFrame, Contents'
  PROVE  ServerInv'
<1>1. srv'.state # "idle"
  OBVIOUS
<1> QED BY <1>1 DEF ServerInv, ServerTyped, ServerCounts, ServerArmed, SrvRecord, Contents, Segs

LEMMA SrvAbortedFields ==
  ASSUME ServerInv
  PROVE  /\ SrvAborted \in SrvRecord /\ SrvAborted.state = "idle" /\ ~SrvAborted.timer /\ ~SrvAborted.internal
         /\ Aborted(srv) \in SrvRecord /\ Aborted(srv).state = "idle" /\ ~Aborted(srv).timer
         /\ Aborted(srv).internal = srv.internal /\ Aborted(srv).tx = srv.tx
<1>1. srv \in SrvRecord
  BY ServerFields
<1>2. /\ Aborted(srv) \in SrvRecord /\ Aborted(srv).state = "idle" /\ ~Aborted(srv).timer
      /\ Aborted(srv).internal = srv.internal /\ Aborted(srv).tx = srv.tx
  BY <1>1 DEF Aborted, SrvRecord, SrvStates
<1> DEFINE a == Aborted(srv)
<1>3. SrvAborted = [a EXCEPT !.internal = FALSE, !.tx = None]
  BY DEF SrvAborted
<1> HIDE DEF a
<1>4. SrvAborted \in SrvRecord /\ SrvAborted.state = "idle" /\ ~SrvAborted.timer /\ ~SrvAborted.internal
  BY <1>2, <1>3 DEF SrvRecord, a
<1> QED BY <1>2, <1>4

LEMMA SrvTimeoutStep ==
  ASSUME SdoInv, SrvTimeout
  PROVE  SdoInv'
<1> USE DEF SdoInv
<1>1. srv' = SrvAborted /\ Contents' /\ ClientSame
  BY ServerFields DEF SrvTimeout, Contents
<1>2. ServerInv'
  BY <1>1, SrvAbortedFields, ServerEnded
<1>3. BusTyped'
  BY DEF SrvTimeout, ClientSame, BusTyped
<1> QED BY <1>1, <1>2, <1>3, ClientKept DEF ClientSame

LEMMA SrvAbortFrameStep ==
  ASSUME SdoInv, SrvAbortFrame
  PROVE  SdoInv'
<1> USE DEF SdoInv
<1>1. srv' = Aborted(srv) /\ Contents' /\ ClientSame /\ (srv.internal => srv.tx \in SrvFrame)
  BY ServerFields DEF SrvAbortFrame, Contents
<1>2. ServerInv'
  BY <1>1, SrvAbortedFields, ServerEnded
<1>3. BusTyped'
  BY DEF SrvAbortFrame, ClientSame, BusTyped
<1> QED BY <1>1, <1>2, <1>3, ClientKept DEF ClientSame

LEMMA SrvRefusesStep ==
  ASSUME SdoInv, SrvRefuses, ClientSame
  PROVE  SdoInv'
<1> USE DEF SdoInv
<1>1. srv' = SrvAborted /\ Contents'
  BY ServerFields DEF SrvRefuses, Contents
<1>2. ServerInv'
  BY <1>1, SrvAbortedFields, ServerEnded
<1>3. BusTyped'
  BY AbortMessage, SentToClient DEF SrvRefuses, ClientSame
<1> QED BY <1>2, <1>3, ClientKept DEF ClientSame

(* What a write leaves is a content. *)
LEMMA Written ==
  ASSUME Contents, NEW o \in Objects, NEW i \in 1..Segments, NEW v \in Data, Write(o, i, v)
  PROVE  Contents'
<1>1. Content = [1..Segments -> Data]
  BY DEF Content
<1>2. CASE o \in Extended
  <2>1. shadow[o] \in Content
    BY <1>2 DEF Contents
  <2>2. [shadow[o] EXCEPT ![i] = v] \in Content
    BY <1>1, <2>1
  <2>3. shadow' = [shadow EXCEPT ![o] = [shadow[o] EXCEPT ![i] = v]] /\ od' = od
    BY <1>2 DEF Write, Contents
  <2> QED BY <1>2, <2>2, <2>3 DEF Contents
<1>3. CASE o \notin Extended
  <2>1. od[o] \in Content
    BY DEF Contents
  <2>2. [od[o] EXCEPT ![i] = v] \in Content
    BY <1>1, <2>1
  <2>3. od' = [od EXCEPT ![o] = [od[o] EXCEPT ![i] = v]] /\ shadow' = shadow
    BY <1>3 DEF Write, Contents
  <2> QED BY <1>3, <2>2, <2>3 DEF Contents
<1> QED BY <1>2, <1>3

(* An answer is sent: the server is at rest, or waits for the next segment.   *)
LEMMA SrvSendsStep ==
  ASSUME SdoInv, NEW s \in SrvRecord, NEW m \in SrvFrame, SrvSends(s, m), ClientSame, Contents',
         \/ s.state = "idle" /\ ~s.timer
         \/ s.state \in {"dlSeg", "ulSeg"} /\ s.timer /\ s.obj \in Objects /\ s.off < Segs(s.obj)
  PROVE  SdoInv'
<1> USE DEF SdoInv
<1>1. srv' = [s EXCEPT !.tx = IF s.internal THEN m ELSE None] /\ ToClient(m)
  BY DEF SrvSends
<1>2. /\ srv' \in SrvRecord /\ srv'.state = s.state /\ srv'.timer = s.timer /\ srv'.off = s.off
      /\ srv'.obj = s.obj /\ srv'.internal = s.internal /\ (srv'.internal => srv'.tx \in SrvFrame)
  BY <1>1 DEF SrvRecord
<1>3. ServerInv'
  <2>1. CASE s.state = "idle" /\ ~s.timer
    BY <1>2, <2>1, ServerEnded
  <2>2. CASE s.state \in {"dlSeg", "ulSeg"} /\ s.timer /\ s.obj \in Objects /\ s.off < Segs(s.obj)
    BY <1>2, <2>2, ServerWaits
  <2> QED BY <2>1, <2>2
<1>4. BusTyped'
  BY <1>1, SentToClient DEF ClientSame
<1> QED BY <1>3, <1>4, ClientKept DEF ClientSame

(* All of a download has come. *)
LEMMA SrvWrittenStep ==
  ASSUME SdoInv, NEW s \in SrvRecord, NEW m \in SrvFrame, SrvWritten(s, m), ClientSame, Contents',
         s.state \in {"dlRsp", "dlSeg"}, s.obj \in Objects, ~s.timer
  PROVE  SdoInv'
<1> USE DEF SdoInv
<1>1. CASE SrvSends([s EXCEPT !.state = "idle"], m)
  <2> DEFINE r == [s EXCEPT !.state = "idle"]
  <2>1. r \in SrvRecord /\ r.state = "idle" /\ ~r.timer
    BY DEF SrvRecord, SrvStates
  <2> HIDE DEF r
  <2> QED BY <1>1, <2>1, SrvSendsStep DEF r
<1>2. CASE srv' = [s EXCEPT !.timer = TRUE, !.internal = TRUE, !.tx = m] /\ UNCHANGED <<toCli, hurt>>
  <2>1. /\ srv' \in SrvRecord /\ srv'.state = s.state /\ srv'.timer /\ srv'.obj = s.obj
        /\ srv'.internal /\ srv'.tx \in SrvFrame
    BY <1>2 DEF SrvRecord
  <2>2. ServerInv'
    BY <2>1, ServerWaits
  <2>3. BusTyped'
    BY <1>2 DEF BusTyped, ClientSame
  <2> QED BY <2>2, <2>3, ClientKept DEF ClientSame
<1> QED BY <1>1, <1>2 DEF SrvWritten

LEMMA GotFrame ==
  ASSUME ServerInv, NEW CS, Got(CS)
  PROVE  srv.rx \in CliFrame /\ srv.rx.cs \in CS
BY ServerFields DEF Got

LEMMA SrvDlInitStep ==
  ASSUME SdoInv, SrvDlInit
  PROVE  SdoInv'
<1> USE DEF SdoInv
<1> DEFINE o == srv.rx.obj
           ack == Msg("dlInitRsp", o, 0, None, FALSE)
           s == [srv EXCEPT !.state = "dlRsp", !.timer = FALSE, !.rx = None, !.obj = o,
                            !.toggle = 0, !.off = 0]
           r == [s EXCEPT !.state = "dlSeg", !.timer = TRUE]
<1>1. srv \in SrvRecord /\ Contents /\ 0 \in 0..Segments /\ 1 \in 1..Segments /\ 0 < Segs(o)
  BY ServerFields, SegsBounds, SdoAssumption
<1>2. o \in Objects /\ (o \notin Long => srv.rx.val \in Data)
  <2>1. srv.rx \in CliFrame /\ srv.rx.cs = "dlInit"
    BY GotFrame DEF SrvDlInit
  <2> QED BY <2>1, ClientFrameFields
<1>3. /\ \/ o \notin Long /\ Write(o, 1, srv.rx.val) /\ SrvWritten(s, ack)
         \/ o \in Long /\ SrvSends(r, ack) /\ UNCHANGED <<shadow, od>>
      /\ ClientSame
  BY DEF SrvDlInit
<1> HIDE DEF o
<1>4. ack \in SrvFrame
  BY <1>2, ServerMessage DEF SrvCs
<1> HIDE DEF ack
<1>5. s \in SrvRecord /\ s.state = "dlRsp" /\ ~s.timer /\ s.obj = o /\ s.off = 0
  BY <1>1, <1>2 DEF SrvRecord, SrvStates
<1> HIDE DEF s
<1>6. r \in SrvRecord /\ r.state = "dlSeg" /\ r.timer /\ r.obj = o /\ r.off = 0
  BY <1>5 DEF SrvRecord, SrvStates
<1> HIDE DEF r
<1>7. CASE o \notin Long /\ Write(o, 1, srv.rx.val) /\ SrvWritten(s, ack)
  <2>1. Contents'
    BY <1>1, <1>2, <1>7, Written
  <2> QED BY <1>2, <1>3, <1>4, <1>5, <1>7, <2>1, SrvWrittenStep
<1>8. CASE SrvSends(r, ack) /\ UNCHANGED <<shadow, od>>
  <2>1. Contents'
    BY <1>1, <1>8 DEF Contents
  <2> QED BY <1>1, <1>2, <1>3, <1>4, <1>6, <1>8, <2>1, SrvSendsStep
<1> QED BY <1>3, <1>7, <1>8

LEMMA SrvDlSegStep ==
  ASSUME SdoInv, SrvDlSeg
  PROVE  SdoInv'
<1> USE DEF SdoInv
<1> DEFINE last == Segs(srv.obj) <= srv.off + 1
           ack == Msg("dlSegRsp", None, srv.toggle, None, FALSE)
           s == [srv EXCEPT !.timer = FALSE, !.rx = None, !.off = srv.off + 1]
           r == [s EXCEPT !.timer = TRUE, !.toggle = Flip(s.toggle)]
           fits == srv.rx.cs = "dlSeg" /\ srv.rx.toggle = srv.toggle /\ srv.rx.last = last
           write == Write(srv.obj, srv.off + 1, srv.rx.val)
<1>1. /\ srv \in SrvRecord /\ Contents /\ srv.state = "dlSeg" /\ srv.obj \in Objects
      /\ srv.toggle \in {0, 1} /\ srv.off \in 0..Segments /\ srv.off < Segs(srv.obj)
      /\ Segs(srv.obj) \in 1..Segments /\ Segments \in Nat /\ ClientSame
  BY ServerFields, SegsBounds, SdoAssumption DEF SrvDlSeg
<1>2. srv.off + 1 \in 0..Segments /\ srv.off + 1 \in 1..Segments /\ (~last => srv.off + 1 < Segs(srv.obj))
  BY <1>1
<1>3. srv.rx.cs = "dlSeg" => srv.rx.val \in Data
  <2>1. srv.rx \in CliFrame
    BY GotFrame DEF SrvDlSeg
  <2> QED BY <2>1, ClientFrameFields
<1>4. \/ ~fits /\ SrvRefuses
      \/ fits /\ last /\ write /\ SrvWritten(s, ack)
      \/ fits /\ ~last /\ write /\ SrvSends(r, ack)
  BY DEF SrvDlSeg
<1> HIDE DEF last
<1>5. ack \in SrvFrame
  BY <1>1, ServerMessage DEF SrvCs
<1> HIDE DEF ack
<1>6. /\ s \in SrvRecord /\ s.state = "dlSeg" /\ ~s.timer /\ s.obj = srv.obj /\ s.off = srv.off + 1
      /\ s.toggle = srv.toggle
  BY <1>1, <1>2 DEF SrvRecord
<1> HIDE DEF s
<1>7. r \in SrvRecord /\ r.state = "dlSeg" /\ r.timer /\ r.obj = srv.obj /\ r.off = srv.off + 1
  <2>1. Flip(s.toggle) \in {0, 1}
    BY <1>1, <1>6 DEF Flip
  <2> QED BY <1>6, <2>1 DEF SrvRecord
<1> HIDE DEF r
<1>8. CASE SrvRefuses
  BY <1>1, <1>8, SrvRefusesStep
<1>9. CASE fits /\ write /\ ~SrvRefuses
  <2>1. Contents'
    BY <1>1, <1>2, <1>3, <1>9, Written
  <2>2. CASE SrvWritten(s, ack)
    BY <1>1, <1>5, <1>6, <2>1, <2>2, SrvWrittenStep
  <2>3. CASE ~last /\ SrvSends(r, ack)
    BY <1>1, <1>2, <1>5, <1>7, <2>1, <2>3, SrvSendsStep
  <2> QED BY <1>4, <1>9, <2>2, <2>3
<1> QED BY <1>4, <1>8, <1>9

(* The object that a confirmation is about. *)
LEMMA HandledObject ==
  ASSUME ServerInv, InInternal
  PROVE  Handled \in Objects
<1>1. CASE srv.state = "idle"
  <2>1. srv.rx \in CliFrame /\ srv.rx.cs = "dlInit"
    BY <1>1, GotFrame DEF InInternal
  <2> QED BY <1>1, <2>1, ClientFrameFields DEF Handled
<1>2. CASE srv.state # "idle"
  BY <1>2, ServerFields DEF InInternal, Handled
<1> QED BY <1>1, <1>2

LEMMA SrvConfirmStep ==
  ASSUME SdoInv, SrvConfirm
  PROVE  SdoInv'
<1> USE DEF SdoInv
<1> DEFINE o == Handled
           a == Aborted(srv)
           s == [a EXCEPT !.obj = o, !.internal = FALSE, !.tx = None]
<1>1. o \in Objects
  BY HandledObject DEF SrvConfirm
<1>2. /\ \/ srv' = [s EXCEPT !.state = "dead"] /\ UNCHANGED <<shadow, od, toCli, hurt>>
         \/ /\ o \in Extended /\ srv' = s /\ ToClient(srv.tx)
            /\ od' = (IF o \in Copied THEN [od EXCEPT ![o] = shadow[o]] ELSE od) /\ UNCHANGED shadow
         \/ srv' = s /\ toCli' = Put(toCli, AbortMsg) /\ hurt' = TRUE /\ UNCHANGED <<shadow, od>>
      /\ ClientSame /\ Contents /\ srv.tx \in SrvFrame
  BY ServerFields DEF SrvConfirm, InInternal
<1> HIDE DEF o
<1>3. s \in SrvRecord /\ s.state = "idle" /\ ~s.timer /\ ~s.internal
  <2>1. a \in SrvRecord /\ a.state = "idle" /\ ~a.timer
    BY SrvAbortedFields
  <2> HIDE DEF a
  <2> QED BY <1>1, <2>1 DEF SrvRecord
<1> HIDE DEF s
<1>4. CASE srv' = [s EXCEPT !.state = "dead"] /\ UNCHANGED <<shadow, od, toCli, hurt>>
  <2>1. srv' \in SrvRecord /\ srv'.state = "dead" /\ ~srv'.timer /\ ~srv'.internal
    BY <1>3, <1>4 DEF SrvRecord, SrvStates
  <2>2. Contents' /\ BusTyped'
    BY <1>2, <1>4 DEF Contents, BusTyped, ClientSame
  <2> QED BY <1>2, <2>1, <2>2, ServerEnded, ClientKept DEF ClientSame
<1>5. CASE /\ o \in Extended /\ srv' = s /\ ToClient(srv.tx)
           /\ od' = (IF o \in Copied THEN [od EXCEPT ![o] = shadow[o]] ELSE od) /\ UNCHANGED shadow
  <2>1. Contents'
    BY <1>1, <1>2, <1>5 DEF Contents
  <2>2. BusTyped'
    BY <1>2, <1>5, SentToClient DEF ClientSame
  <2> QED BY <1>2, <1>3, <1>5, <2>1, <2>2, ServerEnded, ClientKept DEF ClientSame
<1>6. CASE srv' = s /\ toCli' = Put(toCli, AbortMsg) /\ hurt' = TRUE /\ UNCHANGED <<shadow, od>>
  <2>1. Put(toCli, AbortMsg) \in Seq(SrvFrame) /\ Len(Put(toCli, AbortMsg)) <= ChanMax
    BY AbortMessage, PutTyped DEF BusTyped
  <2>2. Contents' /\ BusTyped'
    BY <1>2, <1>6, <2>1 DEF Contents, BusTyped, ClientSame
  <2> QED BY <1>2, <1>3, <1>6, <2>2, ServerEnded, ClientKept DEF ClientSame
<1> QED BY <1>2, <1>4, <1>5, <1>6

LEMMA SrvProcessingStep ==
  ASSUME SdoInv, SrvProcessing
  PROVE  SdoInv'
<1> USE DEF SdoInv
<1>1. /\ srv \in SrvRecord /\ Contents /\ srv.internal /\ srv.tx \in SrvFrame /\ Handled \in Objects
      /\ srv.state \in {"idle", "dlRsp", "dlSeg"} /\ ClientSame /\ UNCHANGED <<shadow, od, toCli, hurt>>
  BY ServerFields, HandledObject DEF SrvProcessing, InInternal
<1> DEFINE state == IF srv.state = "idle" THEN "dlRsp" ELSE srv.state
<1>2. state \in {"dlRsp", "dlSeg"}
  BY <1>1
<1>3. srv' = [srv EXCEPT !.rx = None, !.timer = FALSE, !.obj = Handled, !.state = state]
  BY DEF SrvProcessing
<1> HIDE DEF state
<1>4. /\ srv' \in SrvRecord /\ srv'.state = state /\ srv'.obj = Handled
      /\ srv'.internal /\ srv'.tx \in SrvFrame
  BY <1>1, <1>2, <1>3 DEF SrvRecord, SrvStates
<1>5. Contents' /\ BusTyped'
  BY <1>1 DEF Contents, BusTyped, ClientSame
<1>6. ServerInv'
  BY <1>1, <1>2, <1>4, <1>5, ServerWaits
<1> QED BY <1>1, <1>5, <1>6, ClientKept DEF ClientSame

LEMMA SrvUlInitStep ==
  ASSUME SdoInv, SrvUlInit
  PROVE  SdoInv'
<1> USE DEF SdoInv
<1> DEFINE o == srv.rx.obj
           val == IF o \in Long THEN None ELSE od[o][1]
           m == Msg("ulInitRsp", o, 0, val, FALSE)
           off == IF o \in Long THEN 0 ELSE 1
           state == IF o \in Long THEN "ulSeg" ELSE "idle"
           s == [srv EXCEPT !.timer = Waits(o), !.rx = None, !.obj = o, !.toggle = 0,
                            !.off = off, !.state = state]
<1>1. /\ srv \in SrvRecord /\ Contents /\ Segments \in Nat /\ 1 \in 1..Segments /\ 0 < Segs(o)
      /\ SrvSends(s, m) /\ ClientSame /\ UNCHANGED <<shadow, od>>
  <2>1. srv \in SrvRecord /\ Contents /\ Segments \in Nat /\ 1 \in 1..Segments
    BY ServerFields, SdoAssumption
  <2>2. 0 < Segs(o)
    BY SegsBounds
  <2>3. SrvSends(s, m) /\ ClientSame /\ UNCHANGED <<shadow, od>>
    BY DEF SrvUlInit
  <2> QED BY <2>1, <2>2, <2>3
<1>2. o \in Objects
  <2>1. srv.rx \in CliFrame /\ srv.rx.cs = "ulInit"
    BY GotFrame DEF SrvUlInit
  <2> QED BY <2>1, ClientFrameFields
<1> HIDE DEF o
<1>3. val \in Data \cup {None}
  BY <1>1, <1>2 DEF Contents, Content
<1> HIDE DEF val
<1>4. m \in SrvFrame
  BY <1>2, <1>3, ServerMessage DEF SrvCs
<1> HIDE DEF m
<1>5. /\ Waits(o) \in BOOLEAN /\ off \in 0..Segments /\ state \in {"ulSeg", "idle"}
      /\ state = "idle" => ~Waits(o)
      /\ state = "ulSeg" => Waits(o) /\ off = 0
  BY <1>1 DEF Waits
<1> HIDE DEF off, state, Waits
<1>6. s \in SrvRecord /\ s.state = state /\ (s.timer <=> Waits(o)) /\ s.obj = o /\ s.off = off
  BY <1>1, <1>2, <1>5 DEF SrvRecord, SrvStates
<1> HIDE DEF s
<1>7. Contents'
  BY <1>1 DEF Contents
<1> QED BY <1>1, <1>2, <1>4, <1>5, <1>6, <1>7, SrvSendsStep

LEMMA SrvUlSegStep ==
  ASSUME SdoInv, SrvUlSeg
  PROVE  SdoInv'
<1> USE DEF SdoInv
<1> DEFINE last == Segs(srv.obj) <= srv.off + 1
           m == Msg("ulSegRsp", None, srv.toggle, od[srv.obj][srv.off + 1], last)
           state == IF last THEN "idle" ELSE "ulSeg"
           s == [srv EXCEPT !.timer = ~last, !.rx = None, !.off = srv.off + 1,
                            !.toggle = Flip(srv.toggle), !.state = state]
<1>1. /\ srv \in SrvRecord /\ Contents /\ srv.obj \in Objects /\ srv.toggle \in {0, 1}
      /\ srv.off \in 0..Segments /\ srv.off < Segs(srv.obj)
      /\ Segs(srv.obj) \in 1..Segments /\ Segments \in Nat /\ ClientSame
  BY ServerFields, SegsBounds, SdoAssumption DEF SrvUlSeg
<1>2. SrvRefuses \/ (SrvSends(s, m) /\ UNCHANGED <<shadow, od>>)
  BY DEF SrvUlSeg
<1>3. CASE SrvRefuses
  BY <1>1, <1>3, SrvRefusesStep
<1>4. CASE SrvSends(s, m) /\ UNCHANGED <<shadow, od>>
  <2>1. /\ last \in BOOLEAN /\ Flip(srv.toggle) \in {0, 1} /\ srv.off + 1 \in 0..Segments
        /\ srv.off + 1 \in 1..Segments /\ (~last => srv.off + 1 < Segs(srv.obj))
    BY <1>1 DEF Flip
  <2> HIDE DEF last
  <2>2. od[srv.obj][srv.off + 1] \in Data
    BY <1>1, <2>1 DEF Contents, Content
  <2>3. m \in SrvFrame
    BY <1>1, <2>1, <2>2, ServerMessage DEF SrvCs
  <2> HIDE DEF m
  <2>4. state \in {"idle", "ulSeg"} /\ (state = "idle" <=> last)
    BY <2>1
  <2> HIDE DEF state
  <2>5. s \in SrvRecord /\ s.state = state /\ (s.timer <=> ~last) /\ s.obj = srv.obj /\ s.off = srv.off + 1
    BY <1>1, <2>1, <2>4 DEF SrvRecord, SrvStates
  <2> HIDE DEF s
  <2>6. Contents'
    BY <1>1, <1>4 DEF Contents
  <2> QED BY <1>1, <1>4, <2>1, <2>3, <2>4, <2>5, <2>6, SrvSendsStep
<1> QED BY <1>2, <1>3, <1>4

LEMMA SrvStepInv ==
  ASSUME SdoInv, SrvStep
  PROVE  SdoInv'
BY SrvAbortFrameStep, SrvRefusesStep, SrvDlInitStep, SrvDlSegStep, SrvConfirmStep,
   SrvProcessingStep, SrvUlInitStep, SrvUlSegStep DEF SrvStep, SrvFirstRefused

LEMMA SrvRestartsStep ==
  ASSUME SdoInv, SrvRestarts
  PROVE  SdoInv'
<1> USE DEF SdoInv
<1>1. PICK d \in Data : od' = [o \in Objects |-> IF o \in ReadOnly THEN Whole(d) ELSE od[o]]
  BY DEF SrvRestarts
<1>2. Contents'
  BY <1>1, ServerFields DEF SrvRestarts, Contents, Content, Whole
<1>3. srv' \in SrvRecord /\ srv'.state = "idle" /\ ~srv'.timer /\ ~srv'.internal
  BY SdoAssumption DEF SrvRestarts, Initial, IdleServer, SrvRecord, SrvStates
<1>4. ServerInv'
  BY <1>2, <1>3, ServerEnded
<1>5. ClientInv'
  <2>1. cli \in CliRecord /\ 0 \in 0..ChanMax /\ cli' = [cli EXCEPT !.late = 0]
    BY SdoAssumption DEF SrvRestarts, ClientInv, ClientTyped, CliRecord
  <2>2. /\ cli' \in CliRecord /\ cli'.state = cli.state /\ cli'.timer = cli.timer
        /\ cli'.off = cli.off /\ cli'.rx = cli.rx
    BY <2>1 DEF CliRecord
  <2>3. clean' \in BOOLEAN /\ UNCHANGED <<req, buf, forced>>
    BY DEF SrvRestarts
  <2> QED BY <2>2, <2>3, ClientNearer
<1>6. BusTyped'
  BY SdoAssumption DEF SrvRestarts, BusTyped
<1> QED BY <1>4, <1>5, <1>6

-----------------------------------------------------------------------------
(* The bus. *)
LEMMA DeliverSrvStep ==
  ASSUME SdoInv, DeliverSrv
  PROVE  SdoInv'
<1> USE DEF SdoInv
<1> DEFINE x == IF srv.state = "dead" THEN None ELSE Head(toSrv)
<1>1. /\ toSrv' = Tail(toSrv) /\ srv' = [srv EXCEPT !.rx = x] /\ hurt' = (hurt \/ srv.rx # None)
      /\ UNCHANGED <<cli, req, buf, shadow, od, toCli, forced, clean>>
  BY DEF DeliverSrv
<1>2. Head(toSrv) \in CliFrame /\ Tail(toSrv) \in Seq(CliFrame) /\ Len(Tail(toSrv)) <= ChanMax
  BY TailTyped DEF DeliverSrv, BusTyped
<1>3. srv \in SrvRecord /\ x \in CliFrame \cup {None}
  BY <1>2, ServerFields
<1> HIDE DEF x
<1>4. /\ srv' \in SrvRecord /\ srv'.state = srv.state /\ srv'.timer = srv.timer /\ srv'.off = srv.off
      /\ srv'.obj = srv.obj /\ srv'.internal = srv.internal /\ srv'.tx = srv.tx
  BY <1>1, <1>3 DEF SrvRecord
<1>5. ServerInv'
  BY <1>1, <1>4 DEF ServerInv, ServerTyped, ServerCounts, ServerArmed, SrvRecord, Segs
<1>6. BusTyped'
  BY <1>1, <1>2 DEF BusTyped
<1> QED BY <1>1, <1>5, <1>6, ClientKept

LEMMA DeliverCliStep ==
  ASSUME SdoInv, DeliverCli
  PROVE  SdoInv'
<1> USE DEF SdoInv
<1> DEFINE x == IF cli.state = "idle" THEN None ELSE Head(toCli)
<1>1. /\ toCli' = Tail(toCli) /\ cli' = [Nearer EXCEPT !.rx = x]
      /\ UNCHANGED <<req, buf, srv, shadow, od, toSrv, forced, clean, hurt>>
  BY DEF DeliverCli
<1>2. Head(toCli) \in SrvFrame /\ Tail(toCli) \in Seq(SrvFrame) /\ Len(Tail(toCli)) <= ChanMax
  BY TailTyped DEF DeliverCli, BusTyped
<1>3. /\ Nearer \in CliRecord /\ Nearer.state = cli.state /\ Nearer.timer = cli.timer
      /\ Nearer.off = cli.off /\ x \in SrvFrame \cup {None} /\ (cli.state = "idle" => x = None)
  BY <1>2, NearerFields
<1> HIDE DEF x
<1>4. /\ cli' \in CliRecord /\ cli'.state = cli.state /\ cli'.timer = cli.timer /\ cli'.off = cli.off
      /\ cli'.rx = x
  BY <1>1, <1>3 DEF CliRecord
<1>5. ClientInv'
  BY <1>1, <1>3, <1>4 DEF ClientInv, ClientTyped, ClientCounts, ClientArmed, CliRecord, Segs
<1>6. BusTyped'
  BY <1>1, <1>2 DEF BusTyped
<1> QED BY <1>1, <1>5, <1>6, ServerKept

LEMMA LosesStep ==
  ASSUME SdoInv, LoseSrv \/ LoseCli
  PROVE  SdoInv'
<1> USE DEF SdoInv
<1>1. BusTyped'
  BY TailTyped DEF LoseSrv, LoseCli, BusTyped
<1>2. ServerInv'
  BY ServerKept DEF LoseSrv, LoseCli
<1>3. CASE LoseSrv
  <2> ClientInv'
    BY <1>3, ClientKept DEF LoseSrv
  <2> QED BY <1>1, <1>2
<1>4. CASE LoseCli
  <2>1. cli' = Nearer /\ clean' \in BOOLEAN /\ UNCHANGED <<req, buf, forced>>
    BY <1>4 DEF LoseCli, ClientInv, ClientTyped
  <2>2. ClientInv'
    BY <2>1, NearerFields, ClientNearer
  <2> QED BY <1>1, <1>2, <2>2
<1> QED BY <1>3, <1>4

-----------------------------------------------------------------------------
LEMMA SdoInit == Init => SdoInv
<1> SUFFICES ASSUME Init PROVE SdoInv
  OBVIOUS
<1>1. Segments \in Nat /\ ChanMax \in Nat /\ ForceMax \in Nat /\ Extended \subseteq Objects
  BY SdoAssumption
<1>2. cli \in CliRecord /\ cli.state = "idle" /\ ~cli.timer /\ cli.rx = None
  BY <1>1 DEF Init, CliRecord, CliStates
<1>3. PICK d \in Data : od = [o \in Objects |-> Whole(d)] /\ shadow = [o \in Extended |-> Whole(d)]
  BY DEF Init
<1>4. ClientInv
  <2>1. req \in [op : {"down", "up"}, obj : Objects, val : Data]
    BY DEF Init
  <2>2. buf \in [1..Segments -> Data \cup {None}] /\ clean \in BOOLEAN
    BY DEF Init
  <2>3. forced \in 0..ForceMax
    BY <1>1 DEF Init
  <2> QED BY <1>2, <2>1, <2>2, <2>3 DEF ClientInv, ClientTyped, ClientCounts, ClientArmed, CliRecord
<1>5. ServerInv
  <2>1. srv \in SrvRecord /\ srv.state = "idle" /\ ~srv.timer /\ ~srv.internal
    BY <1>1 DEF Init, IdleServer, SrvRecord, SrvStates
  <2>2. Contents
    BY <1>3 DEF Contents, Content, Whole
  <2> QED BY <2>1, <2>2 DEF ServerInv, ServerTyped, ServerCounts, ServerArmed, SrvRecord, Contents
<1>6. BusTyped
  <2>1. toSrv = <<>> /\ toCli = <<>> /\ hurt \in BOOLEAN
    BY DEF Init
  <2>2. toSrv \in Seq(CliFrame) /\ toCli \in Seq(SrvFrame) /\ Len(toSrv) = 0 /\ Len(toCli) = 0
    BY <2>1
  <2>3. Len(toSrv) <= ChanMax /\ Len(toCli) <= ChanMax
    BY <1>1, <2>2
  <2> QED BY <2>1, <2>2, <2>3 DEF BusTyped
<1> QED BY <1>4, <1>5, <1>6 DEF SdoInv

LEMMA SdoNext == SdoInv /\ [Next]_vars => SdoInv'
<1> SUFFICES ASSUME SdoInv, [Next]_vars PROVE SdoInv'
  OBVIOUS
<1>1. CASE Start
  BY <1>1, StartStep
<1>2. CASE ClientTimeout \/ ClientStep
  BY <1>2, ClientTimeoutStep, ClientStepInv
<1>3. CASE SrvTimeout \/ SrvStep \/ SrvRestarts
  BY <1>3, SrvTimeoutStep, SrvStepInv, SrvRestartsStep
<1>4. CASE DeliverSrv \/ DeliverCli \/ LoseSrv \/ LoseCli
  BY <1>4, DeliverSrvStep, DeliverCliStep, LosesStep
<1>5. CASE UNCHANGED vars
  BY <1>5, ClientKept, ServerKept DEF SdoInv, BusTyped, vars
<1> QED BY <1>1, <1>2, <1>3, <1>4, <1>5 DEF Next

LEMMA SdoSafe == Init /\ [][Next]_vars => []SdoInv
BY SdoInit, SdoNext, PTL

(* Only the start of a transfer and a timeout of the client touch `owed`.     *)
LEMMA HistoryKept ==
  ASSUME ClientStep \/ SrvTimeout \/ SrvStep \/ SrvRestarts \/ DeliverSrv \/ DeliverCli \/ LoseSrv \/ LoseCli
  PROVE  UNCHANGED <<forced, owed>>
<1>1. CASE ClientStep
  BY <1>1 DEF ClientStep, ClientAborted, ClientInitReq, ClientRefuses, ClientDlInitRsp, ClientDlSegRsp,
     ClientUlInitRsp, ClientUlSegRsp, ClientOutOfMem
<1>2. CASE SrvTimeout \/ SrvStep
  BY <1>2 DEF SrvTimeout, SrvStep, SrvAbortFrame, SrvFirstRefused, SrvDlInit, SrvDlSeg, SrvConfirm,
     SrvProcessing, SrvUlInit, SrvUlSeg, ClientSame
<1>3. CASE SrvRestarts \/ DeliverSrv \/ DeliverCli \/ LoseSrv \/ LoseCli
  BY <1>3 DEF SrvRestarts, DeliverSrv, DeliverCli, LoseSrv, LoseCli
<1> QED BY <1>1, <1>2, <1>3

HistoryTyped == owed \in BOOLEAN

LEMMA HistorySafe == Init /\ [][Next]_vars => []HistoryTyped
<1>1. Init => HistoryTyped
  <2>1. Init => owed = FALSE
    BY DEF Init
  <2> QED BY <2>1 DEF HistoryTyped
<1>2. SdoInv /\ HistoryTyped /\ [Next]_vars => HistoryTyped'
  <2> SUFFICES ASSUME SdoInv, owed \in BOOLEAN, [Next]_vars PROVE owed' \in BOOLEAN
    BY DEF HistoryTyped
  <2>1. CASE Start
    BY <2>1 DEF Start, Quiescent
  <2>2. CASE ClientTimeout
    <3>1. srv.internal \in BOOLEAN
      BY ServerFields DEF SdoInv
    <3> QED BY <2>2, <3>1 DEF ClientTimeout
  <2>3. CASE ~Start /\ ~ClientTimeout
    BY <2>3, HistoryKept DEF Next, vars
  <2> QED BY <2>1, <2>2, <2>3
<1> QED BY <1>1, <1>2, SdoSafe, PTL

(* No state machine writes or counts beyond the object of its transfer, no    *)
(* bus beyond its room: whatever frames are lost, late or of another transfer. *)
THEOREM SdoTypeCorrect == Spec => []TypeOK
<1>1. SdoInv /\ HistoryTyped => TypeOK
  BY DEF SdoInv, HistoryTyped, ClientInv, ServerInv, ClientTyped, ServerTyped, BusTyped, TypeOK
<1> QED BY <1>1, SdoSafe, HistorySafe, PTL DEF Spec

(* An idle side has its timer off and a side that waits has it on, for every  *)
(* number of segments, of frames under way and of transfers started over      *)
(* others.                                                                    *)
THEOREM AlwaysArmed == Spec => []Armed
<1>1. SdoInv => Armed
  BY DEF SdoInv, ClientInv, ServerInv, ClientArmed, ServerArmed, Armed
<1> QED BY <1>1, SdoSafe, PTL DEF Spec

-----------------------------------------------------------------------------
(* A transfer that began with nothing left of an earlier one.  Client and     *)
(* server take turns: one frame is under way, for one side or the other, or   *)
(* none; and until a frame is lost or a timer runs out both count the same.   *)
Asked(m) ==
  /\ toCli = <<>> /\ cli.rx = None
  /\ \/ toSrv = <<m>> /\ srv.rx = None
     \/ toSrv = <<>> /\ srv.rx = m
Told(m) ==
  /\ toSrv = <<>> /\ srv.rx = None
  /\ \/ toCli = <<m>> /\ cli.rx = None
     \/ toCli = <<>> /\ cli.rx = m
Silent == toSrv = <<>> /\ toCli = <<>> /\ srv.rx = None /\ cli.rx = None

SrvIdle == srv.state = "idle" /\ ~srv.internal
SrvAt(state, off, toggle) ==
  /\ srv.state = state /\ ~srv.internal /\ srv.obj = req.obj
  /\ srv.off = off /\ srv.toggle = toggle /\ req.obj \in Long

Length == Segs(req.obj)

(* What has been written so far, where the server writes it; all of it, where *)
(* it ends; what has been read so far.                                        *)
Place == IF req.obj \in Extended THEN shadow[req.obj] ELSE od[req.obj]
Sent(k) == \A i \in 1..k : Place[i] = req.val
Down == \A i \in 1..Length : Kept(req.obj)[i] = req.val
Up(k) == \A i \in 1..k : od[req.obj][i] = buf[i]

DownInit == Msg("dlInit", req.obj, 0, IF req.obj \notin Long THEN req.val ELSE None, FALSE)
DownInitRsp == Msg("dlInitRsp", req.obj, 0, None, FALSE)
DownSeg == Msg("dlSeg", None, cli.toggle, req.val, Length <= cli.off)
DownSegRsp == Msg("dlSegRsp", None, cli.toggle, None, FALSE)
UpInit == Msg("ulInit", req.obj, 0, None, FALSE)
UpInitRsp ==
  Msg("ulInitRsp", req.obj, 0, IF req.obj \in Long THEN None ELSE od[req.obj][1], FALSE)
UpSeg == Msg("ulSeg", None, cli.toggle, None, FALSE)
UpSegRsp ==
  Msg("ulSegRsp", None, cli.toggle, od[req.obj][cli.off + 1], Length <= cli.off + 1)

Begun == Silent /\ SrvIdle /\ cli.state = IF req.op = "down" THEN "dlReq" ELSE "ulReq"

DownInitAsked == cli.state = "dlRsp" /\ cli.toggle = 0 /\ Asked(DownInit) /\ SrvIdle
DownSegAsked ==
  /\ cli.state = "dlSeg" /\ Asked(DownSeg)
  /\ \E k \in 0..Segments : cli.off = k + 1 /\ SrvAt("dlSeg", k, cli.toggle) /\ Sent(k)

DownConfirming ==
  /\ Silent /\ srv.internal /\ srv.obj = req.obj /\ req.obj \in Extended /\ Sent(Length)
  /\ \/ /\ cli.state = "dlRsp" /\ srv.state = "dlRsp" /\ req.obj \notin Long
        /\ cli.toggle = 0 /\ srv.tx = DownInitRsp
     \/ /\ cli.state = "dlSeg" /\ srv.state = "dlSeg" /\ cli.off = Length /\ srv.tx = DownSegRsp

DownInitTold ==
  /\ cli.state = "dlRsp" /\ cli.toggle = 0 /\ Told(DownInitRsp)
  /\ SrvAt("dlSeg", 0, 0) \/ (req.obj \notin Long /\ SrvIdle /\ Down)
DownSegTold ==
  /\ cli.state = "dlSeg" /\ Told(DownSegRsp)
  /\ \/ cli.off < Length /\ SrvAt("dlSeg", cli.off, Flip(cli.toggle)) /\ Sent(cli.off)
     \/ cli.off = Length /\ SrvIdle /\ Down

UpInitAsked == cli.state = "ulRsp" /\ cli.toggle = 0 /\ Asked(UpInit) /\ SrvIdle
UpSegAsked ==
  cli.state = "ulSeg" /\ Asked(UpSeg) /\ SrvAt("ulSeg", cli.off, cli.toggle) /\ Up(cli.off)

UpInitTold ==
  /\ cli.state = "ulRsp" /\ cli.toggle = 0 /\ Told(UpInitRsp)
  /\ SrvAt("ulSeg", 0, 0) \/ (req.obj \notin Long /\ SrvIdle)
UpSegTold ==
  /\ cli.state = "ulSeg" /\ Told(UpSegRsp) /\ Up(cli.off)
  /\ \/ cli.off + 1 < Length /\ SrvAt("ulSeg", cli.off + 1, Flip(cli.toggle))
     \/ cli.off + 1 = Length /\ SrvIdle

(* The transfer can only fail now: nothing that is under way moves it.        *)
Waiting == cli.state \in {"dlRsp", "dlSeg", "ulRsp", "ulSeg"}
Doomed ==
  /\ Waiting /\ ~srv.internal /\ srv.state # "dead"
  /\ \/ Silent \/ Told(AbortMsg)
     \/ srv.state = "idle" /\ (Asked(DownSeg) \/ Asked(UpSeg))

Refused == req.op = "down" /\ req.obj \in ReadOnly

Downloading ==
  req.op = "down" /\ (DownInitAsked \/ DownSegAsked \/ DownConfirming \/ DownInitTold \/ DownSegTold)
Uploading == req.op = "up" /\ (UpInitAsked \/ UpSegAsked \/ UpInitTold \/ UpSegTold)

Done ==
  /\ cli.status = "success" /\ cli.state = "idle" /\ Silent /\ SrvIdle
  /\ (req.op = "down" /\ Down) \/ (req.op = "up" /\ Up(Length))
Failed == cli.status = "abort" /\ cli.state = "idle" /\ (hurt \/ Refused)
UnderWay ==
  cli.status = "busy" /\ (Begun \/ Downloading \/ Uploading \/ (Doomed /\ (hurt \/ Refused)))

CleanInv == clean => Done \/ Failed \/ UnderWay

LEMMA CliFields ==
  ASSUME ClientInv
  PROVE  /\ cli \in CliRecord /\ cli.toggle \in {0, 1} /\ cli.off \in 0..Segments
         /\ req.op \in {"down", "up"} /\ req.obj \in Objects /\ req.val \in Data
         /\ cli.state = "idle" => cli.rx = None
         /\ cli.state = "dlRsp" => cli.off = 0
         /\ cli.state = "ulSeg" => cli.off < Segs(req.obj)
         /\ buf \in [1..Segments -> Data \cup {None}]
BY DEF ClientInv, ClientTyped, ClientCounts, ClientArmed, CliRecord

LEMMA MsgFields ==
  ASSUME NEW cs, NEW o, NEW t, NEW v, NEW l
  PROVE  LET m == Msg(cs, o, t, v, l)
         IN m.cs = cs /\ m.obj = o /\ m.toggle = t /\ m.val = v /\ m.last = l
BY DEF Msg

(* A frame that is sent on an empty bus is on it, or has found no room.       *)
LEMMA SentToSilentServer ==
  ASSUME NEW m, ToServer(m), toSrv = <<>>, hurt \in BOOLEAN
  PROVE  (toSrv' = <<m>> /\ hurt' = hurt) \/ (toSrv' = <<>> /\ hurt')
<1>1. ChanMax \in Nat /\ Len(toSrv) = 0 /\ Append(toSrv, m) = <<m>>
  BY SdoAssumption
<1>2. NoRoom(toSrv) \in BOOLEAN
  BY DEF NoRoom
<1>3. CASE 0 < ChanMax
  <2>1. ~NoRoom(toSrv) /\ Put(toSrv, m) = <<m>>
    BY <1>1, <1>3 DEF NoRoom, Put
  <2> QED BY <2>1 DEF ToServer
<1>4. CASE ~(0 < ChanMax)
  <2>1. NoRoom(toSrv) /\ Put(toSrv, m) = <<>>
    BY <1>1, <1>4 DEF NoRoom, Put
  <2> QED BY <2>1 DEF ToServer
<1> QED BY <1>3, <1>4

LEMMA SentToSilentClient ==
  ASSUME NEW m, ToClient(m), toCli = <<>>, hurt \in BOOLEAN
  PROVE  (toCli' = <<m>> /\ hurt' = hurt) \/ (toCli' = <<>> /\ hurt')
<1>1. ChanMax \in Nat /\ Len(toCli) = 0 /\ Append(toCli, m) = <<m>>
  BY SdoAssumption
<1>3. CASE 0 < ChanMax
  <2>1. ~NoRoom(toCli) /\ Put(toCli, m) = <<m>>
    BY <1>1, <1>3 DEF NoRoom, Put
  <2> QED BY <2>1 DEF ToClient
<1>4. CASE ~(0 < ChanMax)
  <2>1. NoRoom(toCli) /\ Put(toCli, m) = <<>>
    BY <1>1, <1>4 DEF NoRoom, Put
  <2> QED BY <2>1 DEF ToClient
<1> QED BY <1>3, <1>4

(* What the client hears in a clean transfer, and from where.                 *)
LEMMA Heard ==
  ASSUME CleanInv, clean, cli.state # "idle", cli.rx # None
  PROVE  /\ cli.status = "busy" /\ toSrv = <<>> /\ toCli = <<>> /\ srv.rx = None
         /\ \/ req.op = "down" /\ DownInitTold /\ cli.rx = DownInitRsp
            \/ req.op = "down" /\ DownSegTold /\ cli.rx = DownSegRsp
            \/ req.op = "up" /\ UpInitTold /\ cli.rx = UpInitRsp
            \/ req.op = "up" /\ UpSegTold /\ cli.rx = UpSegRsp
            \/ Doomed /\ cli.rx = AbortMsg /\ (hurt \/ Refused)
<1>1. UnderWay /\ ~Silent /\ (\A m : ~Asked(m))
  BY DEF CleanInv, Done, Failed, Silent, Asked
<1>2. \A m : Told(m) => cli.rx = m /\ toSrv = <<>> /\ toCli = <<>> /\ srv.rx = None
  BY DEF Told
<1>3. CASE Downloading
  BY <1>1, <1>2, <1>3 DEF UnderWay, Downloading, DownInitAsked, DownSegAsked, DownConfirming,
     DownInitTold, DownSegTold
<1>4. CASE Uploading
  BY <1>1, <1>2, <1>4 DEF UnderWay, Uploading, UpInitAsked, UpSegAsked, UpInitTold, UpSegTold
<1>5. CASE Doomed /\ (hurt \/ Refused)
  BY <1>1, <1>2, <1>5 DEF UnderWay, Doomed
<1> QED BY <1>1, <1>3, <1>4, <1>5 DEF UnderWay, Begun

(* What the server hears.                                                     *)
LEMMA Spoken ==
  ASSUME CleanInv, clean, srv.rx # None, ~Failed
  PROVE  /\ cli.status = "busy" /\ toSrv = <<>> /\ toCli = <<>> /\ cli.rx = None /\ ~srv.internal
         /\ \/ req.op = "down" /\ DownInitAsked /\ srv.rx = DownInit
            \/ req.op = "down" /\ DownSegAsked /\ srv.rx = DownSeg
            \/ req.op = "up" /\ UpInitAsked /\ srv.rx = UpInit
            \/ req.op = "up" /\ UpSegAsked /\ srv.rx = UpSeg
            \/ Doomed /\ srv.state = "idle" /\ srv.rx \in {DownSeg, UpSeg} /\ (hurt \/ Refused)
<1>1. UnderWay /\ ~Silent /\ (\A m : ~Told(m))
  BY DEF CleanInv, Done, Silent, Told
<1>2. \A m : Asked(m) => srv.rx = m /\ toSrv = <<>> /\ toCli = <<>> /\ cli.rx = None
  BY DEF Asked
<1>3. CASE Downloading
  BY <1>1, <1>2, <1>3 DEF UnderWay, Downloading, DownInitAsked, DownSegAsked, DownConfirming,
     DownInitTold, DownSegTold, SrvIdle, SrvAt
<1>4. CASE Uploading
  BY <1>1, <1>2, <1>4 DEF UnderWay, Uploading, UpInitAsked, UpSegAsked, UpInitTold, UpSegTold,
     SrvIdle, SrvAt
<1>5. CASE Doomed /\ (hurt \/ Refused)
  BY <1>1, <1>2, <1>5 DEF UnderWay, Doomed
<1> QED BY <1>1, <1>3, <1>4, <1>5 DEF UnderWay, Begun

-----------------------------------------------------------------------------
(* The client in a clean transfer. *)
LEMMA StartClean ==
  ASSUME SdoInv, Start
  PROVE  CleanInv'
<1> SUFFICES ASSUME clean' PROVE UnderWay'
  BY DEF CleanInv
<1>1. Quiescent /\ cli.rx = None
  BY CliFields DEF SdoInv, Start, Quiescent
<1>2. PICK op \in {"down", "up"}, o \in Objects, d \in Data :
        /\ req' = [op |-> op, obj |-> o, val |-> d]
        /\ cli' = [cli EXCEPT !.state = IF op = "down" THEN "dlReq" ELSE "ulReq", !.status = "busy"]
  BY DEF Start
<1>3. cli \in CliRecord
  BY CliFields DEF SdoInv
<1>4. cli'.status = "busy" /\ cli'.rx = None /\ cli'.state = (IF req'.op = "down" THEN "dlReq" ELSE "ulReq")
  BY <1>1, <1>2, <1>3 DEF CliRecord
<1>5. Begun'
  BY <1>1, <1>4 DEF Begun, Silent, SrvIdle, Quiescent, Start
<1> QED BY <1>4, <1>5 DEF UnderWay

LEMMA CliEnded ==
  ASSUME SdoInv, NEW status \in {"success", "abort"}, cli' = CliEnds(status)
  PROVE  cli'.state = "idle" /\ cli'.status = status /\ cli'.rx = None
<1>1. cli \in CliRecord
  BY CliFields DEF SdoInv
<1>2. cli' = [[cli EXCEPT !.timer = FALSE, !.rx = None, !.state = "idle"] EXCEPT !.status = status]
  BY DEF CliEnds, Aborted
<1> QED BY <1>1, <1>2 DEF CliRecord

LEMMA ClientTimeoutClean ==
  ASSUME SdoInv, ClientTimeout \/ ClientOutOfMem
  PROVE  CleanInv'
<1>1. cli' = CliEnds("abort") /\ hurt'
  BY DEF ClientTimeout, ClientOutOfMem
<1>2. cli'.state = "idle" /\ cli'.status = "abort"
  BY <1>1, CliEnded
<1> QED BY <1>1, <1>2 DEF CleanInv, Failed

LEMMA ClientAbortedClean ==
  ASSUME SdoInv, CleanInv, ClientAborted
  PROVE  CleanInv'
<1> SUFFICES ASSUME clean PROVE Failed'
  BY DEF CleanInv, ClientAborted
<1>1. cli.rx.cs = "abort" /\ cli.rx # None /\ cli.state # "idle"
  BY DEF ClientAborted
<1>2. hurt \/ Refused
  <2>1. DownInitRsp.cs # "abort" /\ DownSegRsp.cs # "abort" /\ UpInitRsp.cs # "abort" /\ UpSegRsp.cs # "abort"
    BY DEF DownInitRsp, DownSegRsp, UpInitRsp, UpSegRsp, Msg
  <2> QED BY <1>1, <2>1, Heard
<1>3. cli'.state = "idle" /\ cli'.status = "abort"
  BY CliEnded DEF ClientAborted
<1> QED BY <1>2, <1>3 DEF Failed, ClientAborted, Refused

(* A client that has sent m and waits, and finds its frame lost: whatever     *)
(* comes is too late.                                                         *)
LEMMA DoomedNow ==
  ASSUME cli'.status = "busy", Waiting', Silent', hurt', ~srv'.internal, srv'.state # "dead"
  PROVE  CleanInv'
BY DEF CleanInv, UnderWay, Doomed

LEMMA ClientInitReqClean ==
  ASSUME SdoInv, CleanInv, ClientInitReq
  PROVE  CleanInv'
<1> SUFFICES ASSUME clean PROVE CleanInv'
  BY DEF CleanInv, ClientInitReq
<1>1. cli.state \in {"dlReq", "ulReq"} /\ cli.state \notin {"dlRsp", "dlSeg", "ulRsp", "ulSeg", "idle"}
  BY DEF ClientInitReq
<1>2. Begun /\ cli.status = "busy"
  BY <1>1 DEF CleanInv, Done, Failed, UnderWay, Downloading, Uploading, DownInitAsked, DownSegAsked,
     DownConfirming, DownInitTold, DownSegTold, UpInitAsked, UpSegAsked, UpInitTold, UpSegTold,
     Doomed, Waiting
<1> DEFINE down == cli.state = "dlReq"
           m == Msg(IF down THEN "dlInit" ELSE "ulInit", req.obj, 0,
                    IF down /\ req.obj \notin Long THEN req.val ELSE None, FALSE)
<1>3. /\ ToServer(m)
      /\ cli' = [Timed(cli) EXCEPT !.state = IF down THEN "dlRsp" ELSE "ulRsp",
                                   !.toggle = 0, !.off = 0, !.rx = None]
  BY DEF ClientInitReq, FirstToggle
<1>4. Timed(cli) \in CliRecord /\ Timed(cli).status = cli.status /\ req.op \in {"down", "up"} /\ (down <=> req.op = "down")
  BY <1>2, TimedFields, CliFields DEF SdoInv, Begun
<1>5. /\ cli'.state = (IF down THEN "dlRsp" ELSE "ulRsp") /\ cli'.toggle = 0 /\ cli'.rx = None
      /\ cli'.status = "busy"
  BY <1>2, <1>3, <1>4 DEF CliRecord
<1>6. toSrv = <<>> /\ toCli' = <<>> /\ srv'.rx = None /\ SrvIdle' /\ req' = req
  BY <1>2 DEF Begun, Silent, SrvIdle, ClientInitReq, ServerSame
<1>7. CASE toSrv' = <<m>> /\ hurt' = hurt
  <2>1. CASE down
    <3>1. m = DownInit
      BY <2>1 DEF DownInit
    <3>2. Asked(DownInit)'
      BY <1>5, <1>6, <1>7, <3>1 DEF Asked, DownInit
    <3> QED BY <1>4, <1>5, <1>6, <2>1, <3>2 DEF CleanInv, UnderWay, Downloading, DownInitAsked
  <2>2. CASE ~down
    <3>1. m = UpInit
      BY <2>2 DEF UpInit
    <3>2. Asked(UpInit)'
      BY <1>5, <1>6, <1>7, <3>1 DEF Asked, UpInit
    <3> QED BY <1>4, <1>5, <1>6, <2>2, <3>2 DEF CleanInv, UnderWay, Uploading, UpInitAsked
  <2> QED BY <2>1, <2>2
<1> HIDE DEF m
<1>8. CASE toSrv' = <<>> /\ hurt'
  BY <1>5, <1>6, <1>8, DoomedNow DEF Waiting, Silent, SrvIdle
<1> QED BY <1>3, <1>6, <1>7, <1>8, SentToSilentServer DEF SdoInv, BusTyped

(* The server's answers fit the client that waits for them.                   *)
LEMMA ClientRefusesClean ==
  ASSUME SdoInv, CleanInv, ClientRefuses
  PROVE  CleanInv'
<1> SUFFICES ASSUME clean PROVE FALSE
  BY DEF CleanInv, ClientRefuses
<1>1. cli.rx # None /\ cli.rx.cs # "abort" /\ cli.state # "idle" /\ Unfit
  BY DEF ClientRefuses, Answered
<1>2. CASE DownInitTold /\ cli.rx = DownInitRsp
  <2>1. cli.rx.cs = "dlInitRsp" /\ cli.rx.obj = req.obj /\ cli.state = "dlRsp"
    BY <1>2 DEF DownInitTold, DownInitRsp, Msg
  <2> QED BY <1>1, <2>1 DEF Unfit
<1>3. CASE DownSegTold /\ cli.rx = DownSegRsp
  <2>1. cli.rx.cs = "dlSegRsp" /\ cli.rx.toggle = cli.toggle /\ cli.state = "dlSeg"
    BY <1>3 DEF DownSegTold, DownSegRsp, Msg
  <2> QED BY <1>1, <2>1 DEF Unfit
<1>4. CASE UpInitTold /\ cli.rx = UpInitRsp
  <2>1. cli.rx.cs = "ulInitRsp" /\ cli.rx.obj = req.obj /\ cli.state = "ulRsp"
    BY <1>4 DEF UpInitTold, UpInitRsp, Msg
  <2> QED BY <1>1, <2>1 DEF Unfit
<1>5. CASE UpSegTold /\ cli.rx = UpSegRsp
  <2>1. /\ cli.rx.cs = "ulSegRsp" /\ cli.rx.toggle = cli.toggle /\ cli.state = "ulSeg"
        /\ cli.rx.last = (Segs(req.obj) <= cli.off + 1)
    BY <1>5 DEF UpSegTold, UpSegRsp, Msg, Length
  <2> QED BY <1>1, <2>1 DEF Unfit
<1>6. CASE cli.rx = AbortMsg
  BY <1>1, <1>6 DEF AbortMsg, Msg
<1> QED BY <1>1, <1>2, <1>3, <1>4, <1>5, <1>6, Heard

LEMMA SucceedsClean ==
  ASSUME SdoInv, cli' = CliEnds("success"), toSrv' = <<>>, toCli' = <<>>, srv'.rx = None, SrvIdle',
         (req.op = "down" /\ Down') \/ (req.op = "up" /\ Up(Length)'), req' = req
  PROVE  CleanInv'
<1>1. cli'.state = "idle" /\ cli'.status = "success" /\ cli'.rx = None
  BY CliEnded
<1> QED BY <1>1 DEF CleanInv, Done, Silent

(* The next segment of a download, for a server that is where the client is.  *)
LEMMA SendsSegmentClean ==
  ASSUME SdoInv, NEW t \in {0, 1}, ClientSendsSegment(t), cli.status = "busy", req.op = "down",
         toSrv = <<>>, toCli = <<>>, srv.rx = None, SrvAt("dlSeg", cli.off, t), Sent(cli.off),
         ServerSame, UNCHANGED <<req, buf, forced, clean>>
  PROVE  CleanInv'
<1> DEFINE m == Msg("dlSeg", None, t, req.val, Segs(req.obj) <= cli.off + 1)
<1>1. /\ ToServer(m) /\ Timed(cli).off = cli.off /\ Timed(cli).status = cli.status
      /\ cli' = [Timed(cli) EXCEPT !.state = "dlSeg", !.toggle = t,
                                   !.off = cli.off + 1, !.rx = None]
  BY TimedFields DEF ClientSendsSegment
<1>2. Timed(cli) \in CliRecord /\ cli.off \in 0..Segments /\ hurt \in BOOLEAN
  BY TimedFields, CliFields DEF SdoInv, BusTyped
<1>3. /\ cli'.state = "dlSeg" /\ cli'.toggle = t /\ cli'.off = cli.off + 1 /\ cli'.rx = None
      /\ cli'.status = "busy"
  BY <1>1, <1>2 DEF CliRecord
<1>4. UNCHANGED <<srv, shadow, od, toCli, req>>
  BY DEF ServerSame
<1>5. CASE toSrv' = <<m>> /\ hurt' = hurt
  <2>1. m = DownSeg'
    BY <1>3, <1>4 DEF DownSeg, Length, Segs
  <2>2. Asked(DownSeg)'
    BY <1>3, <1>4, <1>5, <2>1 DEF Asked
  <2>3. PICK k \in 0..Segments : k = cli.off
    BY <1>2
  <2>4. cli'.off = k + 1 /\ Sent(k)'
    BY <1>3, <1>4, <2>3 DEF Sent, Place
  <2>5. SrvAt("dlSeg", k, cli.toggle)'
    BY <1>3, <1>4, <2>3 DEF SrvAt
  <2>6. DownSegAsked'
    BY <1>3, <2>2, <2>3, <2>4, <2>5 DEF DownSegAsked
  <2> QED BY <1>3, <1>4, <2>6 DEF CleanInv, UnderWay, Downloading
<1> HIDE DEF m
<1>6. CASE toSrv' = <<>> /\ hurt'
  BY <1>3, <1>4, <1>6, DoomedNow DEF Waiting, Silent, SrvAt
<1> QED BY <1>1, <1>2, <1>5, <1>6, SentToSilentServer

LEMMA ClientDlInitRspClean ==
  ASSUME SdoInv, CleanInv, ClientDlInitRsp
  PROVE  CleanInv'
<1> SUFFICES ASSUME clean PROVE CleanInv'
  BY DEF CleanInv, ClientDlInitRsp
<1>1. cli.state = "dlRsp" /\ cli.rx # None /\ cli.rx.cs # "abort" /\ cli.state # "idle"
  BY DEF ClientDlInitRsp, Answered
<1>2. /\ cli.status = "busy" /\ toSrv = <<>> /\ toCli = <<>> /\ srv.rx = None
      /\ req.op = "down" /\ DownInitTold
  <2>1. AbortMsg.cs = "abort"
    BY DEF AbortMsg, Msg
  <2> QED BY <1>1, <2>1, Heard DEF DownSegTold, UpInitTold, UpSegTold
<1>3. ServerSame /\ UNCHANGED <<req, buf, forced, clean>>
  BY DEF ClientDlInitRsp
<1>4. CASE req.obj \notin Long /\ ClientSucceeds
  <2>1. SrvIdle /\ Down
    BY <1>2, <1>4 DEF DownInitTold, SrvAt
  <2>2. SrvIdle' /\ Down'
    BY <1>3, <2>1 DEF SrvIdle, Down, Kept, Length, Segs, ServerSame
  <2> QED BY <1>2, <1>3, <1>4, <2>2, SucceedsClean DEF ClientSucceeds, ServerSame
<1>5. CASE req.obj \in Long /\ ClientSendsSegment(cli.toggle)
  <2>1. SrvAt("dlSeg", 0, 0) /\ cli.toggle = 0
    BY <1>2, <1>5 DEF DownInitTold
  <2>2. cli.off = 0
    BY <1>1, CliFields DEF SdoInv
  <2>3. Sent(cli.off)
    BY <2>2 DEF Sent
  <2> QED BY <1>2, <1>3, <1>5, <2>1, <2>2, <2>3, SendsSegmentClean
<1> QED BY <1>4, <1>5 DEF ClientDlInitRsp

LEMMA ClientDlSegRspClean ==
  ASSUME SdoInv, CleanInv, ClientDlSegRsp
  PROVE  CleanInv'
<1> SUFFICES ASSUME clean PROVE CleanInv'
  BY DEF CleanInv, ClientDlSegRsp
<1>1. cli.state = "dlSeg" /\ cli.rx # None /\ cli.rx.cs # "abort" /\ cli.state # "idle"
  BY DEF ClientDlSegRsp, Answered
<1>2. /\ cli.status = "busy" /\ toSrv = <<>> /\ toCli = <<>> /\ srv.rx = None
      /\ req.op = "down" /\ DownSegTold
  <2>1. AbortMsg.cs = "abort"
    BY DEF AbortMsg, Msg
  <2> QED BY <1>1, <2>1, Heard DEF DownInitTold, UpInitTold, UpSegTold
<1>3. ServerSame /\ UNCHANGED <<req, buf, forced, clean>>
  BY DEF ClientDlSegRsp
<1>4. cli.off \in 0..Segments /\ Length \in 1..Segments /\ Segments \in Nat /\ cli.toggle \in {0, 1}
  BY CliFields, SegsBounds, SdoAssumption DEF SdoInv, Length
<1>5. CASE AllSent /\ ClientSucceeds
  <2>1. SrvIdle /\ Down
    BY <1>2, <1>4, <1>5 DEF DownSegTold, AllSent, Length
  <2>2. SrvIdle' /\ Down'
    BY <1>3, <2>1 DEF SrvIdle, Down, Kept, Length, Segs, ServerSame
  <2> QED BY <1>2, <1>3, <1>5, <2>2, SucceedsClean DEF ClientSucceeds, ServerSame
<1>6. CASE ~AllSent /\ ClientSendsSegment(Flip(cli.toggle))
  <2>1. SrvAt("dlSeg", cli.off, Flip(cli.toggle)) /\ Sent(cli.off)
    BY <1>2, <1>4, <1>6 DEF DownSegTold, AllSent, Length
  <2>2. Flip(cli.toggle) \in {0, 1}
    BY <1>4 DEF Flip
  <2> QED BY <1>2, <1>3, <1>6, <2>1, <2>2, SendsSegmentClean
<1> QED BY <1>5, <1>6 DEF ClientDlSegRsp

LEMMA ClientUlInitRspClean ==
  ASSUME SdoInv, CleanInv, ClientUlInitRsp
  PROVE  CleanInv'
<1> SUFFICES ASSUME clean PROVE CleanInv'
  BY DEF CleanInv, ClientUlInitRsp
<1>1. cli.state = "ulRsp" /\ cli.rx # None /\ cli.rx.cs # "abort" /\ cli.state # "idle"
  BY DEF ClientUlInitRsp, Answered
<1>2. /\ cli.status = "busy" /\ toSrv = <<>> /\ toCli = <<>> /\ srv.rx = None
      /\ req.op = "up" /\ UpInitTold /\ cli.rx = UpInitRsp
  <2>1. AbortMsg.cs = "abort"
    BY DEF AbortMsg, Msg
  <2> QED BY <1>1, <2>1, Heard DEF DownInitTold, DownSegTold, UpSegTold
<1>3. ServerSame /\ UNCHANGED <<req, forced, clean>>
  BY DEF ClientUlInitRsp
<1>4. /\ buf \in [1..Segments -> Data \cup {None}] /\ Segments \in Nat /\ 1 \in 1..Segments
      /\ cli \in CliRecord /\ hurt \in BOOLEAN
  BY CliFields, SdoAssumption DEF SdoInv, BusTyped
<1>5. CASE req.obj \notin Long /\ buf' = [buf EXCEPT ![1] = cli.rx.val] /\ ClientSucceeds
  <2>1. SrvIdle'
    BY <1>2, <1>3, <1>5 DEF UpInitTold, SrvAt, SrvIdle, ServerSame
  <2>2. cli.rx.val = od[req.obj][1]
    BY <1>2, <1>5 DEF UpInitRsp, Msg
  <2>3. buf'[1] = od[req.obj][1]
    BY <1>4, <1>5, <2>2
  <2>4. Length' = 1 /\ UNCHANGED <<od, req>>
    BY <1>3, <1>5 DEF Length, Segs, ServerSame
  <2>5. \A i \in 1..1 : i = 1
    OBVIOUS
  <2>6. Up(Length)'
    BY <2>3, <2>4, <2>5 DEF Up
  <2> QED BY <1>2, <1>3, <1>5, <2>1, <2>6, SucceedsClean DEF ClientSucceeds, ServerSame
<1>6. CASE /\ req.obj \in Long
           /\ ToServer(Msg("ulSeg", None, 0, None, FALSE))
           /\ cli' = [Timed(cli) EXCEPT !.state = "ulSeg", !.off = 0, !.rx = None]
           /\ UNCHANGED buf
  <2> DEFINE m == Msg("ulSeg", None, 0, None, FALSE)
  <2>1. /\ cli'.state = "ulSeg" /\ cli'.toggle = 0 /\ cli'.off = 0 /\ cli'.rx = None
        /\ cli'.status = "busy"
    BY <1>2, <1>4, <1>6, TimedFields DEF CliRecord, UpInitTold
  <2>2. SrvAt("ulSeg", 0, 0)
    BY <1>2, <1>6 DEF UpInitTold
  <2>3. UNCHANGED <<srv, od, toCli, req>>
    BY <1>3 DEF ServerSame
  <2>4. CASE toSrv' = <<m>>
    <3>1. Asked(UpSeg)'
      BY <1>2, <2>1, <2>3, <2>4 DEF Asked, UpSeg
    <3>2. SrvAt("ulSeg", cli.off, cli.toggle)'
      BY <2>1, <2>2, <2>3 DEF SrvAt
    <3>3. Up(cli.off)'
      BY <2>1 DEF Up
    <3> QED BY <1>2, <2>1, <2>3, <3>1, <3>2, <3>3 DEF CleanInv, UnderWay, Uploading, UpSegAsked
  <2> HIDE DEF m
  <2>5. CASE toSrv' = <<>> /\ hurt'
    BY <1>2, <2>1, <2>2, <2>3, <2>5, DoomedNow DEF Waiting, Silent, SrvAt
  <2> QED BY <1>2, <1>4, <1>6, <2>4, <2>5, SentToSilentServer DEF m
<1> QED BY <1>5, <1>6 DEF ClientUlInitRsp

LEMMA ClientUlSegRspClean ==
  ASSUME SdoInv, CleanInv, ClientUlSegRsp
  PROVE  CleanInv'
<1> SUFFICES ASSUME clean PROVE CleanInv'
  BY DEF CleanInv, ClientUlSegRsp
<1>1. cli.state = "ulSeg" /\ cli.rx # None /\ cli.rx.cs # "abort" /\ cli.state # "idle"
  BY DEF ClientUlSegRsp, Answered
<1>2. /\ cli.status = "busy" /\ toSrv = <<>> /\ toCli = <<>> /\ srv.rx = None
      /\ req.op = "up" /\ UpSegTold /\ cli.rx = UpSegRsp
  <2>1. AbortMsg.cs = "abort"
    BY DEF AbortMsg, Msg
  <2> QED BY <1>1, <2>1, Heard DEF DownInitTold, DownSegTold, UpInitTold
<1>3. ServerSame /\ UNCHANGED <<req, forced, clean>> /\ buf' = [buf EXCEPT ![cli.off + 1] = cli.rx.val]
  BY DEF ClientUlSegRsp
<1>4. /\ buf \in [1..Segments -> Data \cup {None}] /\ Segments \in Nat
      /\ cli.off \in 0..Segments /\ cli.off < Length /\ Length \in 1..Segments
      /\ cli \in CliRecord /\ hurt \in BOOLEAN /\ cli.toggle \in {0, 1}
  BY <1>1, CliFields, SegsBounds, SdoAssumption DEF SdoInv, BusTyped, Length
<1>5. cli.rx.val = od[req.obj][cli.off + 1] /\ cli.rx.last = (Length <= cli.off + 1)
  BY <1>2 DEF UpSegRsp, Msg
<1>6. \A i \in 1..(cli.off + 1) : od'[req'.obj][i] = buf'[i]
  <2>1. cli.off + 1 \in 1..Segments
    BY <1>4
  <2>2. \A i \in 1..(cli.off + 1) : i \in 1..Segments /\ (i = cli.off + 1 \/ i \in 1..cli.off)
    BY <1>4
  <2>3. Up(cli.off) /\ UNCHANGED <<od, req>>
    BY <1>2, <1>3 DEF UpSegTold, ServerSame
  <2> QED BY <1>3, <1>4, <1>5, <2>1, <2>2, <2>3 DEF Up
<1>7. CASE cli.rx.last /\ ClientSucceeds
  <2> Length <= cli.off + 1
    BY <1>5, <1>7
  <2> cli.off + 1 = Length
    BY <1>4
  <2>1. cli.off + 1 = Length /\ SrvIdle
    BY <1>2, <1>4 DEF UpSegTold
  <2>2. SrvIdle' /\ Length' = Length
    BY <1>3, <2>1 DEF SrvIdle, Length, Segs, ServerSame
  <2>3. Up(Length)'
    BY <1>6, <2>1, <2>2 DEF Up
  <2> QED BY <1>2, <1>3, <1>7, <2>2, <2>3, SucceedsClean DEF ClientSucceeds, ServerSame
<1>8. CASE /\ ~cli.rx.last
           /\ ToServer(Msg("ulSeg", None, Flip(cli.toggle), None, FALSE))
           /\ cli' = [Timed(cli) EXCEPT !.toggle = Flip(cli.toggle), !.off = cli.off + 1, !.rx = None]
  <2> DEFINE m == Msg("ulSeg", None, Flip(cli.toggle), None, FALSE)
  <2>1. /\ cli'.state = "ulSeg" /\ cli'.toggle = Flip(cli.toggle) /\ cli'.off = cli.off + 1
        /\ cli'.rx = None /\ cli'.status = "busy"
    BY <1>1, <1>2, <1>4, <1>8, TimedFields DEF CliRecord
  <2> ~(Length <= cli.off + 1)
    BY <1>5, <1>8
  <2> cli.off + 1 < Length
    BY <1>4
  <2>2. SrvAt("ulSeg", cli.off + 1, Flip(cli.toggle))
    BY <1>2, <1>4 DEF UpSegTold
  <2>3. UNCHANGED <<srv, od, toCli, req>>
    BY <1>3 DEF ServerSame
  <2>4. CASE toSrv' = <<m>>
    <3>1. Asked(UpSeg)'
      BY <1>2, <2>1, <2>3, <2>4 DEF Asked, UpSeg
    <3>2. SrvAt("ulSeg", cli.off, cli.toggle)'
      BY <2>1, <2>2, <2>3 DEF SrvAt
    <3> QED BY <1>2, <1>6, <2>1, <2>3, <3>1, <3>2 DEF CleanInv, UnderWay, Uploading, UpSegAsked, Up
  <2> HIDE DEF m
  <2>5. CASE toSrv' = <<>> /\ hurt'
    BY <1>2, <2>1, <2>2, <2>3, <2>5, DoomedNow DEF Waiting, Silent, SrvAt
  <2> QED BY <1>2, <1>4, <1>8, <2>4, <2>5, SentToSilentServer DEF m
<1> QED BY <1>7, <1>8, TimedFields DEF ClientUlSegRsp

LEMMA ClientStepClean ==
  ASSUME SdoInv, CleanInv, ClientTimeout \/ ClientStep
  PROVE  CleanInv'
BY ClientTimeoutClean, ClientAbortedClean, ClientInitReqClean, ClientRefusesClean,
   ClientDlInitRspClean, ClientDlSegRspClean, ClientUlInitRspClean, ClientUlSegRspClean DEF ClientStep

-----------------------------------------------------------------------------
(* The server in a clean transfer.  It cannot mend what has failed.           *)
LEMMA FailedKept ==
  ASSUME SdoInv, Failed, cli'.state = cli.state, cli'.status = cli.status, req' = req, hurt => hurt'
  PROVE  CleanInv'
BY DEF CleanInv, Failed, Refused

(* It hears the answer of a client that waits.                                *)
LEMMA AskedWaits ==
  ASSUME CleanInv, clean, srv.rx # None, ~Failed
  PROVE  Waiting
<1>1. CASE DownInitAsked \/ DownSegAsked
  BY <1>1 DEF DownInitAsked, DownSegAsked, Waiting
<1>2. CASE UpInitAsked \/ UpSegAsked
  BY <1>2 DEF UpInitAsked, UpSegAsked, Waiting
<1> QED BY <1>1, <1>2, Spoken DEF Doomed

LEMMA Confirming ==
  ASSUME CleanInv, clean, srv.internal, ~Failed
  PROVE  req.op = "down" /\ DownConfirming /\ cli.status = "busy" /\ Waiting
<1>1. cli.status = "busy" /\ Downloading /\ DownConfirming
  BY DEF CleanInv, Done, UnderWay, Begun, SrvIdle, SrvAt, Doomed, Downloading, Uploading, DownInitAsked,
     DownSegAsked, DownInitTold, DownSegTold, UpInitAsked, UpSegAsked, UpInitTold, UpSegTold
<1> QED BY <1>1 DEF DownConfirming, Downloading, Waiting

LEMMA SrvAbortedRx ==
  ASSUME ServerInv
  PROVE  Aborted(srv).rx = None /\ SrvAborted.rx = None
<1>1. srv \in SrvRecord /\ Aborted(srv) \in SrvRecord
  BY ServerFields, SrvAbortedFields
<1>2. Aborted(srv).rx = None
  BY <1>1 DEF Aborted, SrvRecord
<1> DEFINE a == Aborted(srv)
<1>3. SrvAborted = [a EXCEPT !.internal = FALSE, !.tx = None]
  BY DEF SrvAborted
<1> HIDE DEF a
<1>4. SrvAborted.rx = None
  BY <1>1, <1>2, <1>3 DEF SrvRecord, a
<1> QED BY <1>2, <1>4

LEMMA SrvFirstRefusedClean ==
  ASSUME SdoInv, CleanInv, SrvFirstRefused
  PROVE  CleanInv'
<1> SUFFICES ASSUME clean PROVE CleanInv'
  BY DEF CleanInv, SrvFirstRefused, ClientSame
<1>1. /\ srv' = SrvAborted /\ ToClient(AbortMsg) /\ srv.rx # None /\ srv.state = "idle"
      /\ srv.rx.cs \in {"dlSeg", "ulSeg"} \/ (srv.rx.cs = "dlInit" /\ srv.rx.obj \in ReadOnly)
      /\ UNCHANGED <<cli, req, buf, toSrv>>
  BY DEF SrvFirstRefused, SrvRefuses, Got, ClientSame
<1>2. hurt \in BOOLEAN /\ (hurt => hurt')
  BY <1>1 DEF SdoInv, BusTyped, ToClient
<1>3. CASE Failed
  BY <1>1, <1>2, <1>3, FailedKept
<1>4. CASE ~Failed
  <2>1. /\ cli.status = "busy" /\ toSrv = <<>> /\ toCli = <<>> /\ cli.rx = None /\ Waiting
    BY <1>1, <1>4, Spoken, AskedWaits
  <2>2. hurt \/ Refused
    <3>1. DownInit.cs = "dlInit" /\ DownInit.obj = req.obj /\ UpInit.cs = "ulInit"
      BY DEF DownInit, UpInit, Msg
    <3>2. ~DownSegAsked /\ ~UpSegAsked
      BY <1>1 DEF DownSegAsked, UpSegAsked, SrvAt
    <3> QED BY <1>1, <1>4, <3>1, <3>2, Spoken DEF Refused
  <2>3. srv'.state = "idle" /\ ~srv'.internal /\ srv'.rx = None
    BY <1>1, SrvAbortedRx, SrvAbortedFields DEF SdoInv
  <2>4. Waiting' /\ cli'.status = "busy"
    BY <1>1, <2>1 DEF Waiting
  <2>5. CASE toCli' = <<AbortMsg>> /\ hurt' = hurt
    <3>1. Told(AbortMsg)'
      BY <1>1, <2>1, <2>3, <2>5 DEF Told, AbortMsg
    <3> QED BY <1>1, <2>2, <2>3, <2>4, <2>5, <3>1 DEF CleanInv, UnderWay, Doomed, Refused
  <2>6. CASE toCli' = <<>> /\ hurt'
    BY <1>1, <2>1, <2>3, <2>4, <2>6, DoomedNow DEF Silent
  <2> QED BY <1>1, <1>2, <2>1, <2>5, <2>6, SentToSilentClient
<1> QED BY <1>3, <1>4

LEMMA SrvTimeoutClean ==
  ASSUME SdoInv, CleanInv, SrvTimeout
  PROVE  CleanInv'
<1> SUFFICES ASSUME clean PROVE CleanInv'
  BY DEF CleanInv, SrvTimeout, ClientSame
<1>1. /\ srv' = SrvAborted /\ hurt' /\ srv.timer /\ toCli = <<>> /\ cli.rx = None
      /\ UNCHANGED <<cli, req, buf, toSrv, toCli, shadow, od>>
  BY DEF SrvTimeout, ClientSame, MayExpire
<1>2. srv.state # "idle"
  BY <1>1 DEF SdoInv, ServerInv, ServerArmed
<1>3. CASE Failed
  BY <1>1, <1>3, FailedKept
<1>4. CASE ~Failed
  <2>1. cli.status = "busy" /\ (Downloading \/ Uploading \/ Doomed)
    BY <1>2, <1>4 DEF CleanInv, Done, UnderWay, Begun, SrvIdle
  <2>2. Waiting
    BY <2>1 DEF Downloading, Uploading, DownInitAsked, DownSegAsked, DownConfirming,
       DownInitTold, DownSegTold, UpInitAsked, UpSegAsked, UpInitTold, UpSegTold, Doomed, Waiting
  <2>3. srv'.state = "idle" /\ ~srv'.internal /\ srv'.rx = None
    BY <1>1, SrvAbortedRx, SrvAbortedFields DEF SdoInv
  <2>4. Waiting' /\ cli'.status = "busy"
    BY <1>1, <2>1, <2>2 DEF Waiting
  <2>5. toSrv = <<>> \/ toSrv = <<DownSeg>> \/ toSrv = <<UpSeg>>
    <3>1. (\A m : Told(m) => toSrv = <<>>) /\ (Silent => toSrv = <<>>)
      BY DEF Told, Silent
    <3>2. CASE Downloading
      BY <1>2, <3>1, <3>2 DEF Downloading, DownInitAsked, DownSegAsked, DownConfirming,
         DownInitTold, DownSegTold, SrvIdle, Asked
    <3>3. CASE Uploading
      BY <1>2, <3>1, <3>3 DEF Uploading, UpInitAsked, UpSegAsked, UpInitTold, UpSegTold, SrvIdle, Asked
    <3>4. CASE Doomed
      BY <1>2, <3>1, <3>4 DEF Doomed
    <3> QED BY <2>1, <3>2, <3>3, <3>4
  <2>6. CASE toSrv = <<>>
    BY <1>1, <2>3, <2>4, <2>6, DoomedNow DEF Silent
  <2>7. CASE toSrv = <<DownSeg>> \/ toSrv = <<UpSeg>>
    <3>1. DownSeg' = DownSeg /\ UpSeg' = UpSeg
      BY <1>1 DEF DownSeg, UpSeg, Length, Segs
    <3>2. Asked(DownSeg)' \/ Asked(UpSeg)'
      BY <1>1, <2>3, <2>7, <3>1 DEF Asked
    <3> QED BY <1>1, <2>3, <2>4, <3>2 DEF CleanInv, UnderWay, Doomed
  <2> QED BY <2>5, <2>6, <2>7
<1> QED BY <1>3, <1>4

LEMMA SrvAbortFrameClean ==
  ASSUME SdoInv, CleanInv, SrvAbortFrame
  PROVE  CleanInv'
<1> SUFFICES ASSUME clean PROVE CleanInv'
  BY DEF CleanInv, SrvAbortFrame, ClientSame
<1>1. srv.rx # None /\ srv.rx.cs = "abort" /\ UNCHANGED <<cli, req, hurt>>
  BY DEF SrvAbortFrame, Got, ClientSame
<1>2. DownInit.cs # "abort" /\ DownSeg.cs # "abort" /\ UpInit.cs # "abort" /\ UpSeg.cs # "abort"
  BY DEF DownInit, DownSeg, UpInit, UpSeg, Msg
<1>3. Failed
  BY <1>1, <1>2, Spoken
<1> QED BY <1>1, <1>3, FailedKept

(* A write of the transfer's own content, and what it leaves of the others.   *)
LEMMA PlaceWritten ==
  ASSUME SdoInv, NEW i \in 1..Segments, Write(req.obj, i, req.val), req' = req
  PROVE  /\ Place'[i] = req.val
         /\ \A j \in 1..Segments : j # i => Place'[j] = Place[j]
<1>1. /\ req.obj \in Objects /\ req.val \in Data /\ Content = [1..Segments -> Data]
      /\ shadow \in [Extended -> Content] /\ od \in [Objects -> Content]
  BY CliFields, ServerFields DEF SdoInv, Content, Contents
<1>2. CASE req.obj \in Extended
  <2>1. shadow[req.obj] \in Content
    BY <1>1, <1>2
  <2>2. shadow'[req.obj] = [shadow[req.obj] EXCEPT ![i] = req.val]
    BY <1>1, <1>2 DEF Write
  <2>3. Place = shadow[req.obj] /\ Place' = shadow'[req.obj]
    BY <1>2 DEF Place
  <2> QED BY <1>1, <2>1, <2>2, <2>3
<1>3. CASE req.obj \notin Extended
  <2>1. od[req.obj] \in Content
    BY <1>1
  <2>2. od'[req.obj] = [od[req.obj] EXCEPT ![i] = req.val]
    BY <1>1, <1>3 DEF Write
  <2>3. Place = od[req.obj] /\ Place' = od'[req.obj]
    BY <1>3 DEF Place
  <2> QED BY <1>1, <2>1, <2>2, <2>3
<1> QED BY <1>2, <1>3

(* An answer that is sent is the only frame under way, or has found no room.  *)
LEMMA AnswerAlone ==
  ASSUME SdoInv, NEW s \in SrvRecord, NEW m, SrvSends(s, m), ~s.internal, s.rx = None, toCli = <<>>
  PROVE  /\ srv'.state = s.state /\ ~srv'.internal /\ srv'.rx = None /\ srv'.obj = s.obj
         /\ srv'.off = s.off /\ srv'.toggle = s.toggle
         /\ (toCli' = <<m>> /\ hurt' = hurt) \/ (toCli' = <<>> /\ hurt')
<1>1. srv' = [s EXCEPT !.tx = None] /\ ToClient(m)
  BY DEF SrvSends
<1>2. hurt \in BOOLEAN
  BY DEF SdoInv, BusTyped
<1> QED BY <1>1, <1>2, SentToSilentClient DEF SrvRecord

LEMMA SrvDlInitClean ==
  ASSUME SdoInv, CleanInv, SrvDlInit
  PROVE  CleanInv'
<1> SUFFICES ASSUME clean PROVE CleanInv'
  BY DEF CleanInv, SrvDlInit, ClientSame
<1> DEFINE o == srv.rx.obj
           ack == Msg("dlInitRsp", o, 0, None, FALSE)
           s == [srv EXCEPT !.state = "dlRsp", !.timer = FALSE, !.rx = None, !.obj = o,
                            !.toggle = 0, !.off = 0]
           r == [s EXCEPT !.state = "dlSeg", !.timer = TRUE]
           q == [s EXCEPT !.state = "idle"]
<1>1. /\ \/ o \notin Long /\ Write(o, 1, srv.rx.val) /\ SrvWritten(s, ack)
         \/ o \in Long /\ SrvSends(r, ack) /\ UNCHANGED <<shadow, od>>
      /\ UNCHANGED <<cli, req, buf, toSrv, forced, clean>> /\ ~srv.internal
      /\ srv.rx # None /\ srv.rx.cs = "dlInit"
  BY DEF SrvDlInit, ClientSame, Got
<1>2. srv \in SrvRecord /\ req.obj \in Objects /\ req.val \in Data /\ 1 \in 1..Segments /\ 0 \in 0..Segments
      /\ hurt \in BOOLEAN
  BY CliFields, ServerFields, SdoAssumption DEF SdoInv, BusTyped
<1>3. hurt => hurt'
  BY <1>1, <1>2 DEF SrvWritten, SrvSends, ToClient
<1>4. CASE Failed
  BY <1>1, <1>3, <1>4, FailedKept
<1>5. CASE ~Failed
  <2>1. /\ cli.status = "busy" /\ toSrv = <<>> /\ toCli = <<>> /\ cli.rx = None /\ Waiting
        /\ req.op = "down" /\ DownInitAsked /\ srv.rx = DownInit
    <3>1. DownSeg.cs # "dlInit" /\ UpInit.cs # "dlInit" /\ UpSeg.cs # "dlInit"
      BY DEF DownSeg, UpInit, UpSeg, Msg
    <3> QED BY <1>1, <1>5, <3>1, Spoken, AskedWaits
  <2>2. o = req.obj /\ ack = DownInitRsp /\ (o \notin Long => srv.rx.val = req.val)
    BY <2>1 DEF DownInit, DownInitRsp, Msg
  <2>3. DownInitRsp' = DownInitRsp /\ cli' = cli /\ req' = req
    BY <1>1 DEF DownInitRsp
  <2>4. Waiting' /\ cli'.status = "busy" /\ cli'.state = "dlRsp" /\ cli'.toggle = 0
    BY <1>1, <2>1 DEF Waiting, DownInitAsked
  <2> HIDE DEF o, ack
  <2>5. /\ s \in SrvRecord /\ s.state = "dlRsp" /\ s.obj = o /\ s.rx = None /\ ~s.internal
        /\ s.off = 0 /\ s.toggle = 0
    BY <1>1, <1>2, <2>2 DEF SrvRecord, SrvStates
  <2> HIDE DEF s
  <2>6. /\ r \in SrvRecord /\ r.state = "dlSeg" /\ r.obj = o /\ r.rx = None /\ ~r.internal
        /\ r.off = 0 /\ r.toggle = 0
    BY <2>5 DEF SrvRecord, SrvStates
  <2>7. q \in SrvRecord /\ q.state = "idle" /\ q.obj = o /\ q.rx = None /\ ~q.internal
    BY <2>5 DEF SrvRecord, SrvStates
  <2> HIDE DEF r, q
  <2>8. CASE o \in Long /\ SrvSends(r, ack)
    <3>1. SrvAt("dlSeg", 0, 0)' /\ srv'.rx = None
      BY <2>1, <2>2, <2>3, <2>6, <2>8, AnswerAlone DEF SrvAt
    <3>2. CASE toCli' = <<ack>>
      <4>1. Told(DownInitRsp)'
        BY <1>1, <2>1, <2>2, <2>3, <3>1, <3>2 DEF Told
      <4> QED BY <2>1, <2>3, <2>4, <3>1, <4>1 DEF CleanInv, UnderWay, Downloading, DownInitTold
    <3>3. CASE toCli' = <<>> /\ hurt'
      BY <1>1, <2>1, <2>4, <3>1, <3>3, DoomedNow DEF Silent, SrvAt
    <3> QED BY <2>1, <2>6, <2>8, <3>2, <3>3, AnswerAlone
  <2>9. CASE o \notin Long /\ Write(o, 1, srv.rx.val) /\ SrvWritten(s, ack)
    <3>1. Place'[1] = req.val /\ Length = 1 /\ Length' = 1
      BY <1>1, <1>2, <2>2, <2>9, PlaceWritten DEF Length, Segs
    <3>2. \A i \in 1..1 : i = 1
      OBVIOUS
    <3>3. CASE o \in Extended
      <4>1. srv' = [s EXCEPT !.timer = TRUE, !.internal = TRUE, !.tx = ack] /\ UNCHANGED <<toCli, hurt>>
        BY <2>5, <2>9, <3>3 DEF SrvWritten, Confirmed
      <4>2. srv'.internal /\ srv'.state = "dlRsp" /\ srv'.rx = None /\ srv'.obj = o /\ srv'.tx = ack
        BY <2>5, <4>1 DEF SrvRecord
      <4>3. Sent(Length)'
        BY <1>1, <3>1, <3>2 DEF Sent
      <4>4. Silent'
        BY <1>1, <2>1, <4>1, <4>2 DEF Silent
      <4>5. DownConfirming'
        BY <2>2, <2>3, <2>4, <2>9, <3>3, <4>2, <4>3, <4>4 DEF DownConfirming
      <4> QED BY <2>1, <2>3, <2>4, <4>5 DEF CleanInv, UnderWay, Downloading
    <3>4. CASE o \notin Extended
      <4>1. SrvSends(q, ack)
        BY <2>5, <2>9, <3>4 DEF SrvWritten, Confirmed, q
      <4>2. SrvIdle' /\ srv'.rx = None
        BY <2>1, <2>7, <4>1, AnswerAlone DEF SrvIdle
      <4>3. Down'
        BY <2>2, <2>3, <3>1, <3>2, <3>4 DEF Down, Kept, Place
      <4>4. CASE toCli' = <<ack>>
        <5>1. Told(DownInitRsp)'
          BY <1>1, <2>1, <2>2, <2>3, <4>2, <4>4 DEF Told
        <5> QED BY <2>1, <2>2, <2>3, <2>4, <2>9, <4>2, <4>3, <5>1
                DEF CleanInv, UnderWay, Downloading, DownInitTold
      <4>5. CASE toCli' = <<>> /\ hurt'
        BY <1>1, <2>1, <2>4, <4>2, <4>5, DoomedNow DEF Silent, SrvIdle
      <4> QED BY <2>1, <2>7, <4>1, <4>4, <4>5, AnswerAlone
    <3> QED BY <3>3, <3>4
  <2> QED BY <1>1, <2>8, <2>9 DEF r, s, o, ack
<1> QED BY <1>4, <1>5

LEMMA SrvDlSegClean ==
  ASSUME SdoInv, CleanInv, SrvDlSeg
  PROVE  CleanInv'
<1> SUFFICES ASSUME clean PROVE CleanInv'
  BY DEF CleanInv, SrvDlSeg, ClientSame
<1> DEFINE last == Segs(srv.obj) <= srv.off + 1
           ack == Msg("dlSegRsp", None, srv.toggle, None, FALSE)
           s == [srv EXCEPT !.timer = FALSE, !.rx = None, !.off = srv.off + 1]
           r == [s EXCEPT !.timer = TRUE, !.toggle = Flip(s.toggle)]
           q == [s EXCEPT !.state = "idle"]
           fits == srv.rx.cs = "dlSeg" /\ srv.rx.toggle = srv.toggle /\ srv.rx.last = last
           write == Write(srv.obj, srv.off + 1, srv.rx.val)
<1>1. /\ \/ ~fits /\ SrvRefuses
         \/ fits /\ last /\ write /\ SrvWritten(s, ack)
         \/ fits /\ ~last /\ write /\ SrvSends(r, ack)
      /\ UNCHANGED <<cli, req, buf, toSrv, forced, clean>> /\ ~srv.internal
      /\ srv.rx # None /\ srv.state = "dlSeg"
  BY DEF SrvDlSeg, ClientSame, Got
<1>2. /\ srv \in SrvRecord /\ srv.toggle \in {0, 1} /\ srv.off \in 0..Segments /\ srv.off < Segs(srv.obj)
      /\ Segs(srv.obj) \in 1..Segments /\ Segments \in Nat /\ hurt \in BOOLEAN
      /\ cli.off \in 0..Segments
  BY <1>1, CliFields, ServerFields, SegsBounds, SdoAssumption DEF SdoInv, BusTyped
<1>3. hurt => hurt'
  BY <1>1, <1>2 DEF SrvWritten, SrvSends, SrvRefuses, ToClient
<1>4. CASE Failed
  BY <1>1, <1>3, <1>4, FailedKept
<1>5. CASE ~Failed
  <2>1. /\ cli.status = "busy" /\ toSrv = <<>> /\ toCli = <<>> /\ cli.rx = None /\ Waiting
        /\ req.op = "down" /\ DownSegAsked /\ srv.rx = DownSeg
    <3>1. ~DownInitAsked /\ ~UpInitAsked /\ ~UpSegAsked
      BY <1>1 DEF DownInitAsked, UpInitAsked, UpSegAsked, SrvIdle, SrvAt
    <3> QED BY <1>1, <1>5, <3>1, Spoken, AskedWaits
  <2>2. /\ cli.off = srv.off + 1 /\ srv.obj = req.obj /\ srv.toggle = cli.toggle /\ req.obj \in Long
        /\ cli.state = "dlSeg" /\ Sent(srv.off)
    <3>1. PICK k \in 0..Segments : cli.off = k + 1 /\ SrvAt("dlSeg", k, cli.toggle) /\ Sent(k)
      BY <2>1 DEF DownSegAsked
    <3>2. k = srv.off
      BY <3>1 DEF SrvAt
    <3> QED BY <2>1, <3>1, <3>2 DEF SrvAt, DownSegAsked
  <2>3. /\ srv.rx.cs = "dlSeg" /\ srv.rx.toggle = cli.toggle /\ srv.rx.val = req.val
        /\ srv.rx.last = (Length <= cli.off)
    BY <2>1 DEF DownSeg, Msg
  <2>4. fits /\ ack = DownSegRsp
    BY <2>2, <2>3 DEF Length, DownSegRsp
  <2>5. DownSegRsp' = DownSegRsp /\ cli' = cli /\ req' = req /\ Length' = Length
    BY <1>1 DEF DownSegRsp, Length, Segs
  <2>6. Waiting' /\ cli'.status = "busy" /\ cli'.state = "dlSeg"
    BY <1>1, <2>1, <2>2 DEF Waiting
  <2>7. Sent(cli.off)' /\ cli.off \in 1..Segments
    <3>1. cli.off \in 1..Segments /\ cli.off = srv.off + 1
      BY <1>2, <2>2
    <3>2. Write(req.obj, cli.off, req.val)
      BY <1>1, <2>2, <2>3, <2>4
    <3>3. Place'[cli.off] = req.val /\ \A j \in 1..Segments : j # cli.off => Place'[j] = Place[j]
      BY <2>5, <3>1, <3>2, PlaceWritten
    <3>4. \A j \in 1..cli.off : j \in 1..Segments /\ (j = cli.off \/ j \in 1..srv.off)
      BY <1>2, <3>1
    <3> QED BY <2>2, <2>5, <3>1, <3>3, <3>4 DEF Sent
  <2>8. last <=> Length <= cli.off
    BY <2>2 DEF Length
  <2>9. (last => cli.off = Length) /\ (~last => cli.off < Length)
    BY <1>2, <2>2, <2>8 DEF Length
  <2> HIDE DEF ack, last
  <2>10. /\ s \in SrvRecord /\ s.state = "dlSeg" /\ s.obj = req.obj /\ s.rx = None /\ ~s.internal
         /\ s.off = cli.off /\ s.toggle = cli.toggle
    <3>1. srv.off + 1 = cli.off /\ cli.off \in 0..Segments
      BY <1>2, <2>2
    <3> QED BY <1>1, <1>2, <2>2, <3>1 DEF SrvRecord
  <2> HIDE DEF s
  <2>11. /\ r \in SrvRecord /\ r.state = "dlSeg" /\ r.obj = req.obj /\ r.rx = None /\ ~r.internal
         /\ r.off = cli.off /\ r.toggle = Flip(cli.toggle)
    <3>1. Flip(s.toggle) \in {0, 1}
      BY <1>2, <2>2, <2>10 DEF Flip
    <3> QED BY <2>10, <3>1 DEF SrvRecord
  <2>12. q \in SrvRecord /\ q.state = "idle" /\ q.rx = None /\ ~q.internal
    BY <2>10 DEF SrvRecord, SrvStates
  <2> HIDE DEF r, q
  <2>13. CASE ~last /\ SrvSends(r, ack)
    <3>1. SrvAt("dlSeg", cli.off, Flip(cli.toggle))' /\ srv'.rx = None
      BY <2>1, <2>2, <2>5, <2>11, <2>13, AnswerAlone DEF SrvAt
    <3>2. CASE toCli' = <<ack>>
      <4>1. Told(DownSegRsp)'
        BY <1>1, <2>1, <2>4, <2>5, <3>1, <3>2 DEF Told
      <4>2. DownSegTold'
        BY <2>5, <2>6, <2>7, <2>9, <2>13, <3>1, <4>1 DEF DownSegTold
      <4> QED BY <2>1, <2>5, <2>6, <4>2 DEF CleanInv, UnderWay, Downloading
    <3>3. CASE toCli' = <<>> /\ hurt'
      BY <1>1, <2>1, <2>6, <3>1, <3>3, DoomedNow DEF Silent, SrvAt
    <3> QED BY <2>1, <2>11, <2>13, <3>2, <3>3, AnswerAlone
  <2>14. CASE last /\ SrvWritten(s, ack)
    <3>1. cli.off = Length /\ Sent(Length)'
      BY <2>5, <2>7, <2>9, <2>14 DEF Sent
    <3>2. CASE req.obj \in Extended
      <4>1. srv' = [s EXCEPT !.timer = TRUE, !.internal = TRUE, !.tx = ack] /\ UNCHANGED <<toCli, hurt>>
        BY <2>10, <2>14, <3>2 DEF SrvWritten, Confirmed
      <4>2. srv'.internal /\ srv'.state = "dlSeg" /\ srv'.rx = None /\ srv'.obj = req.obj /\ srv'.tx = ack
        BY <2>10, <4>1 DEF SrvRecord
      <4>3. Silent'
        BY <1>1, <2>1, <4>1, <4>2 DEF Silent
      <4>4. DownConfirming'
        BY <2>4, <2>5, <2>6, <3>1, <3>2, <4>2, <4>3 DEF DownConfirming
      <4> QED BY <2>1, <2>5, <2>6, <4>4 DEF CleanInv, UnderWay, Downloading
    <3>3. CASE req.obj \notin Extended
      <4>1. SrvSends(q, ack)
        BY <2>10, <2>14, <3>3 DEF SrvWritten, Confirmed, q
      <4>2. SrvIdle' /\ srv'.rx = None
        BY <2>1, <2>12, <4>1, AnswerAlone DEF SrvIdle
      <4>3. Down'
        BY <2>5, <3>1, <3>3 DEF Down, Kept, Sent, Place
      <4>4. CASE toCli' = <<ack>>
        <5>1. Told(DownSegRsp)'
          BY <1>1, <2>1, <2>4, <2>5, <4>2, <4>4 DEF Told
        <5>2. DownSegTold'
          BY <2>5, <2>6, <3>1, <4>2, <4>3, <5>1 DEF DownSegTold
        <5> QED BY <2>1, <2>5, <2>6, <5>2 DEF CleanInv, UnderWay, Downloading
      <4>5. CASE toCli' = <<>> /\ hurt'
        BY <1>1, <2>1, <2>6, <4>2, <4>5, DoomedNow DEF Silent, SrvIdle
      <4> QED BY <2>1, <2>12, <4>1, <4>4, <4>5, AnswerAlone
    <3> QED BY <3>2, <3>3
  <2> QED BY <1>1, <2>4, <2>13, <2>14 DEF r, s
<1> QED BY <1>4, <1>5

LEMMA SrvConfirmClean ==
  ASSUME SdoInv, CleanInv, SrvConfirm
  PROVE  CleanInv'
<1> SUFFICES ASSUME clean PROVE CleanInv'
  BY DEF CleanInv, SrvConfirm, ClientSame
<1> DEFINE o == Handled
           a == Aborted(srv)
           s == [a EXCEPT !.obj = o, !.internal = FALSE, !.tx = None]
<1>1. /\ srv.internal /\ UNCHANGED <<cli, req, buf, toSrv, forced, clean>>
      /\ \/ o \notin Extended /\ srv' = [s EXCEPT !.state = "dead"] /\ UNCHANGED <<shadow, od, toCli, hurt>>
         \/ /\ o \in Extended /\ srv' = s /\ ToClient(srv.tx)
            /\ od' = (IF o \in Copied THEN [od EXCEPT ![o] = shadow[o]] ELSE od) /\ UNCHANGED shadow
         \/ /\ o \in Extended /\ srv' = s
            /\ toCli' = Put(toCli, AbortMsg) /\ hurt' = TRUE /\ UNCHANGED <<shadow, od>>
  BY DEF SrvConfirm, InInternal, ClientSame
<1>2. /\ srv \in SrvRecord /\ hurt \in BOOLEAN /\ shadow \in [Extended -> Content]
      /\ od \in [Objects -> Content] /\ req.obj \in Objects
  BY CliFields, ServerFields DEF SdoInv, BusTyped, Contents
<1>3. hurt => hurt'
  BY <1>1, <1>2 DEF ToClient
<1>4. CASE Failed
  BY <1>1, <1>3, <1>4, FailedKept
<1>5. CASE ~Failed
  <2>1. cli.status = "busy" /\ Waiting /\ req.op = "down" /\ DownConfirming
    BY <1>1, <1>5, Confirming
  <2>2. /\ o = req.obj /\ req.obj \in Extended /\ Sent(Length) /\ Silent
        /\ \/ cli.state = "dlRsp" /\ req.obj \notin Long /\ cli.toggle = 0 /\ srv.tx = DownInitRsp
           \/ cli.state = "dlSeg" /\ cli.off = Length /\ srv.tx = DownSegRsp
    BY <2>1 DEF DownConfirming, Handled
  <2> HIDE DEF o
  <2>3. s.state = "idle" /\ ~s.internal /\ s.rx = None
    <3>1. a \in SrvRecord /\ a.state = "idle" /\ a.rx = None
      BY SrvAbortedFields, SrvAbortedRx DEF SdoInv
    <3> HIDE DEF a
    <3> QED BY <3>1 DEF SrvRecord
  <2> HIDE DEF s
  <2>4. /\ Waiting' /\ cli'.status = "busy" /\ toSrv' = <<>> /\ cli'.rx = None /\ toCli = <<>>
        /\ req' = req /\ Length' = Length
    BY <1>1, <2>1, <2>2 DEF Waiting, Silent, Length, Segs
  <2>5. CASE srv' = s /\ ToClient(srv.tx) /\ od' = (IF o \in Copied THEN [od EXCEPT ![o] = shadow[o]] ELSE od) /\ UNCHANGED shadow
    <3>1. SrvIdle' /\ srv'.rx = None
      BY <2>3, <2>5 DEF SrvIdle
    <3>2. Down'
      <4>1. req.obj \in Copied => od'[req.obj] = shadow[req.obj]
        BY <1>2, <2>2, <2>5
      <4> QED BY <2>2, <2>4, <2>5, <4>1 DEF Down, Kept, Sent, Place
    <3>3. CASE toCli' = <<srv.tx>>
      <4>1. CASE cli.state = "dlRsp" /\ req.obj \notin Long /\ cli.toggle = 0 /\ srv.tx = DownInitRsp
        <5>1. Told(DownInitRsp)'
          BY <2>4, <3>1, <3>3, <4>1 DEF Told, DownInitRsp
        <5>2. DownInitTold'
          BY <1>1, <2>4, <3>1, <3>2, <4>1, <5>1 DEF DownInitTold
        <5> QED BY <1>1, <2>1, <2>4, <5>2 DEF CleanInv, UnderWay, Downloading
      <4>2. CASE cli.state = "dlSeg" /\ cli.off = Length /\ srv.tx = DownSegRsp
        <5>1. Told(DownSegRsp)'
          BY <1>1, <2>4, <3>1, <3>3, <4>2 DEF Told, DownSegRsp
        <5>2. DownSegTold'
          BY <1>1, <2>4, <3>1, <3>2, <4>2, <5>1 DEF DownSegTold
        <5> QED BY <1>1, <2>1, <2>4, <5>2 DEF CleanInv, UnderWay, Downloading
      <4> QED BY <2>2, <4>1, <4>2
    <3>4. CASE toCli' = <<>> /\ hurt'
      BY <2>4, <3>1, <3>4, DoomedNow DEF Silent, SrvIdle
    <3> QED BY <1>2, <2>4, <2>5, <3>3, <3>4, SentToSilentClient
  <2>6. CASE srv' = s /\ toCli' = Put(toCli, AbortMsg) /\ hurt' = TRUE
    <3>1. SrvIdle' /\ srv'.rx = None
      BY <2>3, <2>6 DEF SrvIdle
    <3>2. CASE toCli' = <<AbortMsg>>
      <4>1. Told(AbortMsg)'
        BY <2>4, <3>1, <3>2 DEF Told, AbortMsg
      <4> QED BY <2>4, <2>6, <3>1, <4>1 DEF CleanInv, UnderWay, Doomed, SrvIdle
    <3>3. CASE toCli' = <<>>
      BY <2>4, <2>6, <3>1, <3>3, DoomedNow DEF Silent, SrvIdle
    <3>4. Put(toCli, AbortMsg) = <<AbortMsg>> \/ Put(toCli, AbortMsg) = <<>>
      BY <2>4 DEF Put
    <3> QED BY <2>6, <3>2, <3>3, <3>4
  <2> QED BY <1>1, <2>2, <2>5, <2>6
<1> QED BY <1>4, <1>5

(* Nobody sends while a confirmation is awaited. *)
LEMMA SrvProcessingClean ==
  ASSUME SdoInv, CleanInv, SrvProcessing
  PROVE  CleanInv'
<1> SUFFICES ASSUME clean PROVE CleanInv'
  BY DEF CleanInv, SrvProcessing, ClientSame
<1>1. srv.internal /\ srv.rx # None /\ UNCHANGED <<cli, req, hurt>>
  BY DEF SrvProcessing, InInternal, ClientSame
<1>2. CASE Failed
  BY <1>1, <1>2, FailedKept
<1>3. CASE ~Failed
  BY <1>1, <1>3, Confirming DEF DownConfirming, Silent
<1> QED BY <1>2, <1>3

LEMMA SrvUlInitClean ==
  ASSUME SdoInv, CleanInv, SrvUlInit
  PROVE  CleanInv'
<1> SUFFICES ASSUME clean PROVE CleanInv'
  BY DEF CleanInv, SrvUlInit, ClientSame
<1> DEFINE o == srv.rx.obj
           ack == Msg("ulInitRsp", o, 0, IF o \in Long THEN None ELSE od[o][1], FALSE)
           off == IF o \in Long THEN 0 ELSE 1
           state == IF o \in Long THEN "ulSeg" ELSE "idle"
           s == [srv EXCEPT !.timer = Waits(o), !.rx = None, !.obj = o, !.toggle = 0,
                            !.off = off, !.state = state]
<1>1. /\ SrvSends(s, ack) /\ UNCHANGED <<cli, req, buf, toSrv, forced, clean, shadow, od>>
      /\ srv.rx # None /\ srv.rx.cs = "ulInit" /\ srv.state = "idle"
  BY DEF SrvUlInit, ClientSame, Got
<1>2. /\ srv \in SrvRecord /\ req.obj \in Objects /\ 1 \in 0..Segments /\ 0 \in 0..Segments
      /\ hurt \in BOOLEAN
  BY CliFields, ServerFields, SdoAssumption DEF SdoInv, BusTyped
<1>3. hurt => hurt'
  BY <1>1, <1>2 DEF SrvSends, ToClient
<1>4. CASE Failed
  BY <1>1, <1>3, <1>4, FailedKept
<1>5. CASE ~Failed
  <2>1. /\ cli.status = "busy" /\ toSrv = <<>> /\ toCli = <<>> /\ cli.rx = None /\ Waiting
        /\ ~srv.internal /\ req.op = "up" /\ UpInitAsked /\ srv.rx = UpInit
    <3>1. DownInit.cs # "ulInit" /\ DownSeg.cs # "ulInit" /\ UpSeg.cs # "ulInit"
      BY DEF DownInit, DownSeg, UpSeg, Msg
    <3> QED BY <1>1, <1>5, <3>1, Spoken, AskedWaits
  <2>2. o = req.obj /\ ack = UpInitRsp
    BY <2>1 DEF UpInit, UpInitRsp, Msg
  <2>3. UpInitRsp' = UpInitRsp /\ cli' = cli /\ req' = req
    BY <1>1 DEF UpInitRsp
  <2>4. Waiting' /\ cli'.status = "busy" /\ cli'.state = "ulRsp" /\ cli'.toggle = 0
    BY <1>1, <2>1 DEF Waiting, UpInitAsked
  <2>5. off \in 0..Segments /\ state \in SrvStates /\ Waits(o) \in BOOLEAN
    BY <1>2 DEF SrvStates, Waits
  <2>6. (o \in Long => off = 0 /\ state = "ulSeg") /\ (o \notin Long => state = "idle")
    OBVIOUS
  <2> HIDE DEF o, ack, off, state
  <2>7. /\ s \in SrvRecord /\ s.state = state /\ s.obj = o /\ s.rx = None /\ ~s.internal
        /\ s.off = off /\ s.toggle = 0
    BY <1>2, <2>1, <2>2, <2>5 DEF SrvRecord
  <2> HIDE DEF s
  <2>8. /\ srv'.state = state /\ ~srv'.internal /\ srv'.rx = None /\ srv'.obj = o
        /\ srv'.off = off /\ srv'.toggle = 0
        /\ (toCli' = <<ack>> /\ hurt' = hurt) \/ (toCli' = <<>> /\ hurt')
    BY <1>1, <2>1, <2>7, AnswerAlone
  <2>9. CASE toCli' = <<ack>>
    <3>1. Told(UpInitRsp)'
      BY <1>1, <2>1, <2>2, <2>3, <2>8, <2>9 DEF Told
    <3>2. SrvAt("ulSeg", 0, 0)' \/ (req'.obj \notin Long /\ SrvIdle')
      BY <2>2, <2>3, <2>6, <2>8 DEF SrvAt, SrvIdle
    <3>3. UpInitTold'
      BY <2>4, <3>1, <3>2 DEF UpInitTold
    <3> QED BY <2>1, <2>3, <2>4, <3>3 DEF CleanInv, UnderWay, Uploading
  <2>10. CASE toCli' = <<>> /\ hurt'
    <3>1. srv'.state # "dead"
      BY <2>6, <2>8
    <3> QED BY <1>1, <2>1, <2>4, <2>8, <2>10, <3>1, DoomedNow DEF Silent
  <2> QED BY <2>8, <2>9, <2>10
<1> QED BY <1>4, <1>5

LEMMA SrvUlSegClean ==
  ASSUME SdoInv, CleanInv, SrvUlSeg
  PROVE  CleanInv'
<1> SUFFICES ASSUME clean PROVE CleanInv'
  BY DEF CleanInv, SrvUlSeg, ClientSame
<1> DEFINE last == Segs(srv.obj) <= srv.off + 1
           ack == Msg("ulSegRsp", None, srv.toggle, od[srv.obj][srv.off + 1], last)
           fits == srv.rx # None /\ srv.rx.cs = "ulSeg" /\ srv.rx.toggle = srv.toggle
           state == IF last THEN "idle" ELSE "ulSeg"
           s == [srv EXCEPT !.timer = ~last, !.rx = None, !.off = srv.off + 1,
                            !.toggle = Flip(srv.toggle), !.state = state]
<1>1. /\ \/ ~fits /\ SrvRefuses
         \/ fits /\ SrvSends(s, ack) /\ UNCHANGED <<shadow, od>>
      /\ UNCHANGED <<cli, req, buf, toSrv, forced, clean>>
      /\ srv.rx # None \/ srv.internal
      /\ srv.state = "ulSeg"
  BY DEF SrvUlSeg, ClientSame, Got
<1>2. /\ srv \in SrvRecord /\ srv.toggle \in {0, 1} /\ srv.off \in 0..Segments /\ srv.off < Segs(srv.obj)
      /\ Segs(srv.obj) \in 1..Segments /\ Segments \in Nat /\ hurt \in BOOLEAN
  BY <1>1, ServerFields, SegsBounds, SdoAssumption DEF SdoInv, BusTyped
<1>3. hurt => hurt'
  BY <1>1, <1>2 DEF SrvSends, SrvRefuses, ToClient
<1>4. CASE Failed
  BY <1>1, <1>3, <1>4, FailedKept
<1>5. CASE ~Failed
  <2>1. /\ cli.status = "busy" /\ toSrv = <<>> /\ toCli = <<>> /\ cli.rx = None /\ Waiting
        /\ ~srv.internal /\ req.op = "up" /\ UpSegAsked /\ srv.rx = UpSeg
    <3>1. ~DownInitAsked /\ ~DownSegAsked /\ ~UpInitAsked /\ ~DownConfirming
      BY <1>1 DEF DownInitAsked, DownSegAsked, UpInitAsked, DownConfirming, SrvIdle, SrvAt
    <3>2. ~srv.internal /\ srv.rx # None
      BY <1>1, <1>5, <3>1, Confirming
    <3> QED BY <1>1, <1>5, <3>1, <3>2, Spoken, AskedWaits
  <2>2. /\ cli.off = srv.off /\ srv.obj = req.obj /\ srv.toggle = cli.toggle /\ req.obj \in Long
        /\ cli.state = "ulSeg" /\ Up(cli.off)
    BY <2>1 DEF UpSegAsked, SrvAt
  <2>3. srv.rx.cs = "ulSeg" /\ srv.rx.toggle = cli.toggle
    BY <2>1 DEF UpSeg, Msg
  <2>4. fits /\ ack = UpSegRsp
    BY <1>1, <2>1, <2>2, <2>3 DEF Length, UpSegRsp
  <2>5. SrvSends(s, ack) /\ UNCHANGED <<shadow, od>>
    BY <1>1, <2>4
  <2>6. UpSegRsp' = UpSegRsp /\ cli' = cli /\ req' = req /\ Length' = Length
    BY <1>1, <2>5 DEF UpSegRsp, Length, Segs
  <2>7. Waiting' /\ cli'.status = "busy" /\ cli'.state = "ulSeg"
    BY <1>1, <2>1, <2>2 DEF Waiting
  <2>8. Up(cli.off)'
    BY <1>1, <2>2, <2>5 DEF Up
  <2>9. last <=> Length <= cli.off + 1
    BY <2>2 DEF Length
  <2>10. (last => cli.off + 1 = Length) /\ (~last => cli.off + 1 < Length)
    BY <1>2, <2>2, <2>9 DEF Length
  <2>11. (last => state = "idle") /\ (~last => state = "ulSeg") /\ last \in BOOLEAN
    OBVIOUS
  <2> HIDE DEF ack, last, state
  <2>12. /\ s \in SrvRecord /\ s.state = state /\ s.obj = req.obj /\ s.rx = None /\ ~s.internal
         /\ s.off = cli.off + 1 /\ s.toggle = Flip(cli.toggle)
    <3>1. srv.off + 1 = cli.off + 1 /\ srv.off + 1 \in 0..Segments /\ Flip(srv.toggle) \in {0, 1}
      BY <1>2, <2>2 DEF Flip
    <3>2. state \in SrvStates
      BY <2>11 DEF SrvStates
    <3> QED BY <1>2, <2>1, <2>2, <2>11, <3>1, <3>2 DEF SrvRecord
  <2> HIDE DEF s
  <2>13. /\ srv'.state = state /\ ~srv'.internal /\ srv'.rx = None /\ srv'.obj = req.obj
         /\ srv'.off = cli.off + 1 /\ srv'.toggle = Flip(cli.toggle)
         /\ (toCli' = <<ack>> /\ hurt' = hurt) \/ (toCli' = <<>> /\ hurt')
    BY <2>1, <2>5, <2>12, AnswerAlone
  <2>14. CASE toCli' = <<ack>>
    <3>1. Told(UpSegRsp)'
      BY <1>1, <2>1, <2>4, <2>6, <2>13, <2>14 DEF Told
    <3>2. \/ cli'.off + 1 < Length' /\ SrvAt("ulSeg", cli.off + 1, Flip(cli.toggle))'
          \/ cli'.off + 1 = Length' /\ SrvIdle'
      BY <2>2, <2>6, <2>10, <2>11, <2>13 DEF SrvAt, SrvIdle
    <3>3. UpSegTold'
      BY <2>7, <2>8, <3>1, <3>2 DEF UpSegTold
    <3> QED BY <2>1, <2>6, <2>7, <3>3 DEF CleanInv, UnderWay, Uploading
  <2>15. CASE toCli' = <<>> /\ hurt'
    <3>1. srv'.state # "dead"
      BY <2>11, <2>13
    <3> QED BY <1>1, <2>1, <2>7, <2>13, <2>15, <3>1, DoomedNow DEF Silent
  <2> QED BY <2>13, <2>14, <2>15
<1> QED BY <1>4, <1>5

LEMMA SrvStepClean ==
  ASSUME SdoInv, CleanInv, SrvTimeout \/ SrvStep
  PROVE  CleanInv'
BY SrvTimeoutClean, SrvAbortFrameClean, SrvFirstRefusedClean, SrvDlInitClean, SrvDlSegClean,
   SrvConfirmClean, SrvProcessingClean, SrvUlInitClean, SrvUlSegClean DEF SrvStep

-----------------------------------------------------------------------------
(* The bus in a clean transfer. *)
LEMMA OnWayToServer ==
  ASSUME CleanInv, clean, toSrv # <<>>, ~Failed
  PROVE  /\ cli.status = "busy" /\ toCli = <<>> /\ cli.rx = None /\ srv.rx = None
         /\ ~srv.internal /\ srv.state # "dead" /\ Waiting
         /\ \/ req.op = "down" /\ DownInitAsked /\ toSrv = <<DownInit>>
            \/ req.op = "down" /\ DownSegAsked /\ toSrv = <<DownSeg>>
            \/ req.op = "up" /\ UpInitAsked /\ toSrv = <<UpInit>>
            \/ req.op = "up" /\ UpSegAsked /\ toSrv = <<UpSeg>>
            \/ Doomed /\ srv.state = "idle" /\ toSrv \in {<<DownSeg>>, <<UpSeg>>} /\ (hurt \/ Refused)
<1>1. UnderWay /\ ~Silent /\ (\A m : ~Told(m))
  BY DEF CleanInv, Done, Silent, Told
<1>2. \A m : Asked(m) => toSrv = <<m>> /\ srv.rx = None /\ toCli = <<>> /\ cli.rx = None
  BY DEF Asked
<1>3. CASE Downloading
  BY <1>1, <1>2, <1>3 DEF UnderWay, Downloading, DownInitAsked, DownSegAsked, DownConfirming,
     DownInitTold, DownSegTold, SrvIdle, SrvAt, Waiting
<1>4. CASE Uploading
  BY <1>1, <1>2, <1>4 DEF UnderWay, Uploading, UpInitAsked, UpSegAsked, UpInitTold, UpSegTold,
     SrvIdle, SrvAt, Waiting
<1>5. CASE Doomed /\ (hurt \/ Refused)
  BY <1>1, <1>2, <1>5 DEF UnderWay, Doomed
<1> QED BY <1>1, <1>3, <1>4, <1>5 DEF UnderWay, Begun

LEMMA OnWayToClient ==
  ASSUME CleanInv, clean, toCli # <<>>, ~Failed
  PROVE  /\ cli.status = "busy" /\ toSrv = <<>> /\ srv.rx = None /\ cli.rx = None
         /\ ~srv.internal /\ srv.state # "dead" /\ Waiting
         /\ \/ req.op = "down" /\ DownInitTold /\ toCli = <<DownInitRsp>>
            \/ req.op = "down" /\ DownSegTold /\ toCli = <<DownSegRsp>>
            \/ req.op = "up" /\ UpInitTold /\ toCli = <<UpInitRsp>>
            \/ req.op = "up" /\ UpSegTold /\ toCli = <<UpSegRsp>>
            \/ Doomed /\ toCli = <<AbortMsg>> /\ (hurt \/ Refused)
<1>1. UnderWay /\ ~Silent /\ (\A m : ~Asked(m))
  BY DEF CleanInv, Done, Silent, Asked
<1>2. \A m : Told(m) => toCli = <<m>> /\ cli.rx = None /\ toSrv = <<>> /\ srv.rx = None
  BY DEF Told
<1>3. CASE Downloading
  BY <1>1, <1>2, <1>3 DEF UnderWay, Downloading, DownInitAsked, DownSegAsked, DownConfirming,
     DownInitTold, DownSegTold, SrvIdle, SrvAt, Waiting
<1>4. CASE Uploading
  BY <1>1, <1>2, <1>4 DEF UnderWay, Uploading, UpInitAsked, UpSegAsked, UpInitTold, UpSegTold,
     SrvIdle, SrvAt, Waiting
<1>5. CASE Doomed /\ (hurt \/ Refused)
  BY <1>1, <1>2, <1>5 DEF UnderWay, Doomed
<1> QED BY <1>1, <1>3, <1>4, <1>5 DEF UnderWay, Begun

LEMMA LoseClean ==
  ASSUME SdoInv, CleanInv, LoseSrv \/ LoseCli
  PROVE  CleanInv'
<1> SUFFICES ASSUME clean PROVE CleanInv'
  BY DEF CleanInv, LoseSrv, LoseCli
<1>1. /\ hurt' /\ UNCHANGED <<req, srv>> /\ cli'.state = cli.state
      /\ cli'.status = cli.status /\ cli'.rx = cli.rx
  BY NearerFields DEF LoseSrv, LoseCli
<1>2. CASE Failed
  BY <1>1, <1>2, FailedKept
<1>3. CASE ~Failed /\ LoseSrv
  <2>1. \A m : Tail(<<m>>) = <<>>
    OBVIOUS
  <2>2. toSrv' = <<>> /\ toCli' = <<>>
    BY <1>3, <2>1, OnWayToServer DEF LoseSrv
  <2> QED BY <1>1, <1>3, <2>2, OnWayToServer, DoomedNow DEF LoseSrv, Silent, Waiting
<1>4. CASE ~Failed /\ LoseCli
  <2>1. \A m : Tail(<<m>>) = <<>>
    OBVIOUS
  <2>2. toSrv' = <<>> /\ toCli' = <<>>
    BY <1>4, <2>1, OnWayToClient DEF LoseCli
  <2> QED BY <1>1, <1>4, <2>2, OnWayToClient, DoomedNow DEF LoseCli, Silent, Waiting
<1> QED BY <1>2, <1>3, <1>4

LEMMA DeliverSrvClean ==
  ASSUME SdoInv, CleanInv, DeliverSrv
  PROVE  CleanInv'
<1> SUFFICES ASSUME clean PROVE CleanInv'
  BY DEF CleanInv, DeliverSrv
<1>1. /\ UNCHANGED <<cli, req, buf, shadow, od, toCli>> /\ toSrv # <<>> /\ toSrv' = Tail(toSrv)
      /\ hurt \in BOOLEAN /\ hurt' = (hurt \/ srv.rx # None) /\ srv \in SrvRecord
  BY ServerFields DEF DeliverSrv, SdoInv, BusTyped
<1>2. CASE Failed
  BY <1>1, <1>2, FailedKept
<1>3. CASE ~Failed
  <2>1. /\ cli.status = "busy" /\ toCli = <<>> /\ cli.rx = None /\ srv.rx = None /\ srv.state # "dead"
    BY <1>1, <1>3, OnWayToServer
  <2>2. /\ srv'.rx = Head(toSrv) /\ srv'.state = srv.state /\ srv'.internal = srv.internal
        /\ srv'.obj = srv.obj /\ srv'.off = srv.off /\ srv'.toggle = srv.toggle
    BY <1>1, <2>1 DEF DeliverSrv, SrvRecord
  <2>3. \A m : toSrv = <<m>> => toSrv' = <<>> /\ srv'.rx = m
    BY <1>1, <2>2
  <2>4. hurt' = hurt /\ (SrvIdle => SrvIdle')
    BY <1>1, <2>1, <2>2 DEF SrvIdle
  <2>5. DownInit' = DownInit /\ DownSeg' = DownSeg /\ UpInit' = UpInit /\ UpSeg' = UpSeg
    BY <1>1 DEF DownInit, DownSeg, UpInit, UpSeg, Length, Segs
  <2>6. CASE req.op = "down" /\ DownInitAsked /\ toSrv = <<DownInit>>
    <3>1. Asked(DownInit)'
      BY <1>1, <2>1, <2>3, <2>5, <2>6 DEF Asked
    <3> QED BY <1>1, <2>1, <2>4, <2>6, <3>1 DEF CleanInv, UnderWay, Downloading, DownInitAsked
  <2>7. CASE req.op = "down" /\ DownSegAsked /\ toSrv = <<DownSeg>>
    <3>1. Asked(DownSeg)'
      BY <1>1, <2>1, <2>3, <2>5, <2>7 DEF Asked
    <3>2. PICK k \in 0..Segments : cli.off = k + 1 /\ SrvAt("dlSeg", k, cli.toggle) /\ Sent(k)
      BY <2>7 DEF DownSegAsked
    <3>3. SrvAt("dlSeg", k, cli.toggle)' /\ Sent(k)'
      BY <1>1, <2>2, <3>2 DEF SrvAt, Sent, Place
    <3>4. DownSegAsked'
      BY <1>1, <2>7, <3>1, <3>2, <3>3 DEF DownSegAsked
    <3> QED BY <1>1, <2>1, <2>7, <3>4 DEF CleanInv, UnderWay, Downloading
  <2>8. CASE req.op = "up" /\ UpInitAsked /\ toSrv = <<UpInit>>
    <3>1. Asked(UpInit)'
      BY <1>1, <2>1, <2>3, <2>5, <2>8 DEF Asked
    <3> QED BY <1>1, <2>1, <2>4, <2>8, <3>1 DEF CleanInv, UnderWay, Uploading, UpInitAsked
  <2>9. CASE req.op = "up" /\ UpSegAsked /\ toSrv = <<UpSeg>>
    <3>1. Asked(UpSeg)'
      BY <1>1, <2>1, <2>3, <2>5, <2>9 DEF Asked
    <3>2. SrvAt("ulSeg", cli.off, cli.toggle)' /\ Up(cli.off)'
      BY <1>1, <2>2, <2>9 DEF UpSegAsked, SrvAt, Up
    <3> QED BY <1>1, <2>1, <2>9, <3>1, <3>2 DEF CleanInv, UnderWay, Uploading, UpSegAsked
  <2>10. CASE Doomed /\ srv.state = "idle" /\ toSrv \in {<<DownSeg>>, <<UpSeg>>} /\ (hurt \/ Refused)
    <3>1. Asked(DownSeg)' \/ Asked(UpSeg)'
      BY <1>1, <2>1, <2>3, <2>5, <2>10 DEF Asked
    <3>2. Doomed'
      BY <1>1, <2>2, <2>10, <3>1 DEF Doomed, Waiting
    <3> QED BY <1>1, <2>1, <2>4, <2>10, <3>2 DEF CleanInv, UnderWay, Refused
  <2> QED BY <1>1, <1>3, <2>6, <2>7, <2>8, <2>9, <2>10, OnWayToServer
<1> QED BY <1>2, <1>3

LEMMA DeliverCliClean ==
  ASSUME SdoInv, CleanInv, DeliverCli
  PROVE  CleanInv'
<1> SUFFICES ASSUME clean PROVE CleanInv'
  BY DEF CleanInv, DeliverCli
<1>1. /\ UNCHANGED <<req, buf, srv, shadow, od, toSrv, hurt>> /\ toCli # <<>> /\ toCli' = Tail(toCli)
      /\ Nearer \in CliRecord
      /\ cli' = [Nearer EXCEPT !.rx = IF cli.state = "idle" THEN None ELSE Head(toCli)]
  BY NearerFields DEF DeliverCli
<1>2. /\ cli'.state = cli.state /\ cli'.status = cli.status /\ cli'.off = cli.off /\ cli'.toggle = cli.toggle
      /\ (cli.state # "idle" => cli'.rx = Head(toCli))
  BY <1>1, NearerFields DEF CliRecord
<1>3. CASE Failed
  BY <1>1, <1>2, <1>3 DEF CleanInv, Failed, Refused
<1>4. CASE ~Failed
  <2>1. /\ cli.status = "busy" /\ toSrv = <<>> /\ srv.rx = None /\ cli.rx = None /\ Waiting
    BY <1>1, <1>4, OnWayToClient
  <2>2. \A m : toCli = <<m>> => toCli' = <<>> /\ cli'.rx = m
    BY <1>1, <1>2, <2>1 DEF Waiting
  <2>3. /\ DownInitRsp' = DownInitRsp /\ DownSegRsp' = DownSegRsp /\ UpInitRsp' = UpInitRsp
        /\ UpSegRsp' = UpSegRsp /\ Length' = Length
    BY <1>1, <1>2 DEF DownInitRsp, DownSegRsp, UpInitRsp, UpSegRsp, Length, Segs
  <2>4. (SrvIdle => SrvIdle') /\ (Down => Down') /\ (Up(cli.off) => Up(cli.off)')
        /\ (Sent(cli.off) => Sent(cli.off)')
    BY <1>1, <1>2, <2>3 DEF SrvIdle, Down, Kept, Up, Sent, Place
  <2>5. CASE req.op = "down" /\ DownInitTold /\ toCli = <<DownInitRsp>>
    <3>1. Told(DownInitRsp)'
      BY <1>1, <2>1, <2>2, <2>3, <2>5 DEF Told
    <3> QED BY <1>1, <1>2, <2>1, <2>4, <2>5, <3>1 DEF CleanInv, UnderWay, Downloading, DownInitTold, SrvAt
  <2>6. CASE req.op = "down" /\ DownSegTold /\ toCli = <<DownSegRsp>>
    <3>1. Told(DownSegRsp)'
      BY <1>1, <2>1, <2>2, <2>3, <2>6 DEF Told
    <3>2. DownSegTold'
      BY <1>1, <1>2, <2>3, <2>4, <2>6, <3>1 DEF DownSegTold, SrvAt
    <3> QED BY <1>1, <1>2, <2>1, <2>6, <3>2 DEF CleanInv, UnderWay, Downloading
  <2>7. CASE req.op = "up" /\ UpInitTold /\ toCli = <<UpInitRsp>>
    <3>1. Told(UpInitRsp)'
      BY <1>1, <2>1, <2>2, <2>3, <2>7 DEF Told
    <3> QED BY <1>1, <1>2, <2>1, <2>4, <2>7, <3>1 DEF CleanInv, UnderWay, Uploading, UpInitTold, SrvAt
  <2>8. CASE req.op = "up" /\ UpSegTold /\ toCli = <<UpSegRsp>>
    <3>1. Told(UpSegRsp)'
      BY <1>1, <2>1, <2>2, <2>3, <2>8 DEF Told
    <3>2. UpSegTold'
      BY <1>1, <1>2, <2>3, <2>4, <2>8, <3>1 DEF UpSegTold, SrvAt
    <3> QED BY <1>1, <1>2, <2>1, <2>8, <3>2 DEF CleanInv, UnderWay, Uploading
  <2>9. CASE Doomed /\ toCli = <<AbortMsg>> /\ (hurt \/ Refused)
    <3>1. Told(AbortMsg)'
      BY <1>1, <2>1, <2>2, <2>9 DEF Told, AbortMsg
    <3>2. Doomed'
      BY <1>1, <1>2, <2>9, <3>1 DEF Doomed, Waiting
    <3> QED BY <1>1, <1>2, <2>1, <2>9, <3>2 DEF CleanInv, UnderWay, Refused
  <2> QED BY <1>1, <1>4, <2>5, <2>6, <2>7, <2>8, <2>9, OnWayToClient
<1> QED BY <1>3, <1>4

LEMMA CleanNext == SdoInv /\ CleanInv /\ [Next]_vars => CleanInv'
<1> SUFFICES ASSUME SdoInv, CleanInv, [Next]_vars PROVE CleanInv'
  OBVIOUS
<1>1. CASE Start
  BY <1>1, StartClean
<1>2. CASE ClientTimeout \/ ClientStep
  BY <1>2, ClientStepClean
<1>3. CASE SrvTimeout \/ SrvStep
  BY <1>3, SrvStepClean
<1>4. CASE SrvRestarts
  BY <1>4 DEF SrvRestarts, CleanInv
<1>5. CASE DeliverSrv \/ DeliverCli \/ LoseSrv \/ LoseCli
  BY <1>5, DeliverSrvClean, DeliverCliClean, LoseClean
<1>6. CASE UNCHANGED vars
  <2>1. UNCHANGED <<cli, req, buf, srv, shadow, od, toSrv, toCli, clean, hurt>>
    BY <1>6 DEF vars
  <2>2. Done => Done'
    BY <2>1 DEF Done, Silent, SrvIdle, Down, Kept, Up, Length, Segs
  <2>3. Failed => Failed'
    BY <2>1 DEF Failed, Refused
  <2>4. Downloading => Downloading'
    BY <2>1 DEF Downloading, DownInitAsked, DownSegAsked, DownConfirming, DownInitTold, DownSegTold,
       Asked, Told, Silent, SrvIdle, SrvAt, Sent, Place, Down, Kept, DownInit, DownSeg, DownInitRsp,
       DownSegRsp, Length, Segs
  <2>5. Uploading => Uploading'
    BY <2>1 DEF Uploading, UpInitAsked, UpSegAsked, UpInitTold, UpSegTold, Asked, Told, SrvIdle, SrvAt,
       Up, UpInit, UpSeg, UpInitRsp, UpSegRsp, Length, Segs
  <2>6. (Begun => Begun') /\ (Doomed => Doomed') /\ (Refused => Refused')
    BY <2>1 DEF Begun, Silent, SrvIdle, Doomed, Waiting, Told, Asked, DownSeg, UpSeg, Length, Segs, Refused
  <2> QED BY <2>1, <2>2, <2>3, <2>4, <2>5, <2>6 DEF CleanInv, UnderWay
<1> QED BY <1>1, <1>2, <1>3, <1>4, <1>5, <1>6 DEF Next

LEMMA CleanSafe == Init /\ [][Next]_vars => []CleanInv
<1>1. Init => CleanInv
  BY DEF Init, CleanInv
<1> QED BY <1>1, CleanNext, SdoSafe, PTL

(* A transfer that began with nothing left of an earlier one and succeeded    *)
(* did what it says: the object of the server is what was written, or what    *)
(* was read is the object; whatever frames were lost on the way, whatever     *)
(* timers ran out, for every length of the object and of the buses.           *)
THEOREM SuccessAlwaysTransfer == Spec => []SuccessIsTransfer
<1>1. CleanInv => SuccessIsTransfer
  <2> SUFFICES ASSUME CleanInv, clean, cli.status = "success" PROVE Done
    BY DEF SuccessIsTransfer, Succeeded, Done, Down, Kept, Up, Length
  <2> QED BY DEF CleanInv, Failed, UnderWay
<1> QED BY <1>1, CleanSafe, PTL DEF Spec

(* And it succeeds unless it lost a frame, ran into a timeout or was refused: *)
(* no interleaving of the two state machines and the bus ends it.             *)
THEOREM UndisturbedAlwaysSucceeds == Spec => []UndisturbedSucceeds
<1>1. CleanInv => UndisturbedSucceeds
  BY DEF CleanInv, Done, Failed, UnderWay, UndisturbedSucceeds, Refused
<1> QED BY <1>1, CleanSafe, PTL DEF Spec

-----------------------------------------------------------------------------
(* Uploads over what is left of earlier transfers.  Every request that is     *)
(* taken gives one answer at most, now or after the confirmation: what the    *)
(* earlier transfers have left is counted, and does not grow.                 *)
Live(m) == m # None /\ m.cs # "abort"
LiveIn(bus) == {i \in 1..Len(bus) : Live(bus[i])}
One(b) == IF b THEN 1 ELSE 0
Requests == Cardinality(LiveIn(toSrv))
Load == Requests + One(Live(srv.rx)) + One(srv.internal) + Len(toCli) + One(cli.rx # None)
LoadBound == Load <= (IF Waiting THEN 2 ELSE 1)

LEMMA LiveFinite ==
  ASSUME NEW F, NEW bus \in Seq(F)
  PROVE  /\ IsFiniteSet(LiveIn(bus)) /\ Cardinality(LiveIn(bus)) \in Nat
         /\ Cardinality(LiveIn(bus)) = 0 => \A i \in 1..Len(bus) : ~Live(bus[i])
<1>1. LiveIn(bus) \in SUBSET (1..Len(bus)) /\ IsFiniteSet(1..Len(bus))
  BY FS_Interval DEF LiveIn
<1>2. IsFiniteSet(LiveIn(bus))
  BY <1>1, FS_Subset
<1>3. Cardinality(LiveIn(bus)) \in Nat
  BY <1>2, FS_CardinalityType, Zenon
<1>4. Cardinality(LiveIn(bus)) = 0 => LiveIn(bus) = {}
  BY <1>2, FS_EmptySet, Zenon
<1>5. LiveIn(bus) = {} => \A i \in 1..Len(bus) : ~Live(bus[i])
  BY DEF LiveIn
<1> QED BY <1>2, <1>3, <1>4, <1>5, Zenon

LEMMA LiveTwo ==
  ASSUME NEW F, NEW bus \in Seq(F), NEW i \in LiveIn(bus), NEW j \in LiveIn(bus), i # j
  PROVE  Cardinality(LiveIn(bus)) >= 2
<1>1. IsFiniteSet({i}) /\ Cardinality({i}) = 1
  BY FS_Singleton
<1>2. Cardinality({i} \cup {j}) = 2
  <2>1. Cardinality({i} \cup {j}) = IF j \in {i} THEN Cardinality({i}) ELSE Cardinality({i}) + 1
    BY <1>1, FS_AddElement, Zenon
  <2>2. j \notin {i}
    OBVIOUS
  <2>3. Cardinality({i} \cup {j}) = Cardinality({i}) + 1
    BY <2>1, <2>2, Zenon
  <2>4. Cardinality({i} \cup {j}) = 1 + 1
    BY <1>1, <2>3, Zenon
  <2> QED BY <2>4
<1>3. {i} \cup {j} \in SUBSET LiveIn(bus)
  OBVIOUS
<1>4. Cardinality({i} \cup {j}) <= Cardinality(LiveIn(bus))
  BY <1>3, LiveFinite, FS_Subset
<1> QED BY <1>2, <1>4, LiveFinite

(* What is on a bus after a frame has been put on it, or taken off.           *)
LEMMA PutAt ==
  ASSUME NEW F, NEW bus \in Seq(F), NEW m
  PROVE  \/ Put(bus, m) = bus
         \/ /\ Len(Put(bus, m)) = Len(bus) + 1 /\ Len(bus) < ChanMax
            /\ Put(bus, m)[Len(bus) + 1] = m
            /\ \A i \in 1..Len(bus) : Put(bus, m)[i] = bus[i]
BY DEF Put

LEMMA TailAt ==
  ASSUME NEW F, NEW bus \in Seq(F), bus # <<>>
  PROVE  /\ Len(bus) \in Nat /\ Len(bus) >= 1 /\ Len(Tail(bus)) = Len(bus) - 1 /\ Head(bus) = bus[1]
         /\ \A i \in 1..Len(Tail(bus)) : i + 1 \in 1..Len(bus) /\ Tail(bus)[i] = bus[i + 1]
         /\ Tail(bus) # <<>> => Tail(bus)[Len(Tail(bus))] = bus[Len(bus)]
<1>1. Len(bus) \in Nat /\ Len(bus) >= 1 /\ Len(Tail(bus)) = Len(bus) - 1 /\ Head(bus) = bus[1]
  OBVIOUS
<1>2. \A i \in 1..Len(Tail(bus)) : i + 1 \in 1..Len(bus) /\ Tail(bus)[i] = bus[i + 1]
  OBVIOUS
<1>3. ASSUME Tail(bus) # <<>> PROVE Tail(bus)[Len(Tail(bus))] = bus[Len(bus)]
  <2>1. Tail(bus) \in Seq(F)
    OBVIOUS
  <2>2. Len(Tail(bus)) \in 1..Len(Tail(bus))
    BY <1>1, <1>3, <2>1
  <2> QED BY <1>1, <1>2, <2>2
<1> QED BY <1>1, <1>2, <1>3

LEMMA LivePut ==
  ASSUME NEW F, NEW bus \in Seq(F), NEW m \in F
  PROVE  Cardinality(LiveIn(Put(bus, m))) <= Cardinality(LiveIn(bus)) + One(Live(m))
<1> DEFINE b == Put(bus, m)
           n == Len(bus) + 1
<1>1. IsFiniteSet(LiveIn(bus)) /\ Cardinality(LiveIn(bus)) \in Nat
  BY LiveFinite
<1>2. CASE b = bus
  BY <1>1, <1>2 DEF One
<1>3. CASE b # bus
  <2>1. Len(b) = n /\ b[n] = m /\ \A i \in 1..Len(bus) : b[i] = bus[i]
    BY <1>3, PutAt
  <2>2. \A i \in 1..Len(b) : i \in 1..Len(bus) \/ i = n
    BY <2>1
  <2> HIDE DEF b
  <2>3. CASE Live(m)
    <3>1. LiveIn(b) \in SUBSET (LiveIn(bus) \cup {n})
      BY <2>1, <2>2 DEF LiveIn
    <3>2. IsFiniteSet(LiveIn(bus) \cup {n}) /\ Cardinality(LiveIn(bus) \cup {n}) <= Cardinality(LiveIn(bus)) + 1
      <4>1. /\ IsFiniteSet(LiveIn(bus) \cup {n})
            /\ Cardinality(LiveIn(bus) \cup {n}) =
                 IF n \in LiveIn(bus) THEN Cardinality(LiveIn(bus)) ELSE Cardinality(LiveIn(bus)) + 1
        BY <1>1, FS_AddElement, Zenon
      <4> QED BY <1>1, <4>1
    <3>3. Cardinality(LiveIn(b)) <= Cardinality(LiveIn(bus) \cup {n}) /\ Cardinality(LiveIn(bus) \cup {n}) \in Nat
          /\ Cardinality(LiveIn(b)) \in Nat
      BY <3>1, <3>2, FS_Subset, FS_CardinalityType
    <3> QED BY <1>1, <2>3, <3>2, <3>3 DEF One, b
  <2>4. CASE ~Live(m)
    <3>1. LiveIn(b) \in SUBSET LiveIn(bus)
      BY <2>1, <2>2, <2>4 DEF LiveIn
    <3>2. Cardinality(LiveIn(b)) <= Cardinality(LiveIn(bus)) /\ Cardinality(LiveIn(b)) \in Nat
      BY <1>1, <3>1, FS_Subset, FS_CardinalityType
    <3> QED BY <1>1, <2>4, <3>2 DEF One, b
  <2> QED BY <2>3, <2>4
<1> QED BY <1>2, <1>3

LEMMA LiveTail ==
  ASSUME NEW F, NEW bus \in Seq(F), bus # <<>>
  PROVE  Cardinality(LiveIn(Tail(bus))) + One(Live(Head(bus))) <= Cardinality(LiveIn(bus))
<1> DEFINE t == Tail(bus)
           rest == LiveIn(bus) \ {1}
           f == [i \in LiveIn(t) |-> i + 1]
<1>1. /\ Len(bus) \in Nat /\ Len(t) = Len(bus) - 1 /\ Head(bus) = bus[1] /\ Len(bus) >= 1
      /\ \A i \in 1..Len(t) : i + 1 \in 1..Len(bus) /\ t[i] = bus[i + 1]
  BY TailAt
<1>2. IsFiniteSet(LiveIn(bus)) /\ Cardinality(LiveIn(bus)) \in Nat
  BY LiveFinite
<1>3. /\ IsFiniteSet(rest)
      /\ Cardinality(rest) = IF 1 \in LiveIn(bus) THEN Cardinality(LiveIn(bus)) - 1 ELSE Cardinality(LiveIn(bus))
  BY <1>2, FS_RemoveElement
<1>4. (1 \in LiveIn(bus)) <=> Live(Head(bus))
  BY <1>1 DEF LiveIn
<1>5. f \in Injection(LiveIn(t), rest)
  <2>1. \A i \in LiveIn(t) : i \in Nat /\ i + 1 \in LiveIn(bus) /\ i + 1 # 1
    BY <1>1 DEF LiveIn
  <2>2. f \in [LiveIn(t) -> rest]
    BY <2>1
  <2>3. \A i, j \in LiveIn(t) : f[i] = f[j] => i = j
    BY <2>1
  <2> QED BY <2>2, <2>3 DEF Injection, IsInjective
<1>6. Cardinality(LiveIn(t)) <= Cardinality(rest) /\ IsFiniteSet(LiveIn(t))
  BY <1>3, <1>5, FS_Injection
<1>7. Cardinality(LiveIn(t)) \in Nat /\ Cardinality(rest) \in Nat
  BY <1>3, <1>6, FS_CardinalityType
<1> QED BY <1>2, <1>3, <1>4, <1>6, <1>7 DEF One

LEMMA LiveEmpty == Cardinality(LiveIn(<<>>)) = 0
<1>1. LiveIn(<<>>) = {}
  BY DEF LiveIn
<1> QED BY <1>1, FS_EmptySet

-----------------------------------------------------------------------------
(* What the server keeps: a read-only object holds one content, a download is *)
(* never into one, and what is sent of a short object is its content.         *)
ReadOnlyWhole == \A o \in ReadOnly : \E d \in Data : od[o] = Whole(d)
DlWritable == srv.state \in {"dlRsp", "dlSeg"} => srv.obj \notin ReadOnly
Filled(m) == m # None /\ m.cs = "ulInitRsp" /\ m.obj \notin Long => m.val # None
AllFilled == Filled(cli.rx) /\ Filled(srv.tx) /\ \A i \in 1..Len(toCli) : Filled(toCli[i])
Storage == ReadOnlyWhole /\ DlWritable /\ AllFilled

(* What a step of the server does, in terms of the frames it takes and sends. *)
ReadOnlyKept == \A o \in ReadOnly : od'[o] = od[o]
Says(m) == toCli' = Put(toCli, m) /\ m \in SrvFrame /\ Filled(m)
Unread == srv.state \in {"dlRsp", "dlSeg"} \/ (Live(srv.rx) /\ srv.rx.cs = "dlInit")

Rests ==
  /\ srv'.state = "idle" /\ srv'.rx = None /\ (srv'.internal => srv.internal)
  /\ toCli' = toCli /\ ReadOnlyKept
Refuses ==
  /\ Live(srv.rx) \/ srv.internal
  /\ srv'.state = "idle" /\ srv'.rx = None /\ ~srv'.internal /\ Says(AbortMsg) /\ ReadOnlyKept
TakesDown ==
  /\ Live(srv.rx) /\ srv.rx.cs \in {"dlInit", "dlSeg"} /\ (srv.rx.cs = "dlInit" \/ srv.state = "dlSeg")
  /\ ~srv.internal /\ srv'.rx = None /\ ReadOnlyKept
  /\ \/ /\ ~srv'.internal /\ srv'.state \in {"idle", "dlSeg"}
        /\ \E m : m.cs \in {"dlInitRsp", "dlSegRsp"} /\ Says(m)
     \/ srv'.internal /\ srv'.state \in {"dlRsp", "dlSeg"} /\ toCli' = toCli
ConfirmsNow ==
  /\ srv.internal /\ Unread /\ ~srv'.internal /\ srv'.rx = None /\ srv'.state \in {"idle", "dead"}
  /\ toCli' = toCli \/ (\E m : Says(m))
  /\ ReadOnlyKept
StillConfirms ==
  /\ srv.internal /\ Unread /\ srv'.internal /\ srv'.rx = None /\ srv'.state \in {"dlRsp", "dlSeg"}
  /\ toCli' = toCli /\ ReadOnlyKept
TakesUpInit ==
  /\ Live(srv.rx) /\ srv.rx.cs = "ulInit" /\ srv'.rx = None /\ srv'.internal = srv.internal
  /\ srv'.state \in {"idle", "ulSeg"} /\ (srv'.state = "ulSeg" => srv'.obj = srv.rx.obj)
  /\ \E m : m.cs = "ulInitRsp" /\ m.obj = srv.rx.obj /\ Says(m)
  /\ ReadOnlyKept
TakesUpSeg ==
  /\ Live(srv.rx) /\ srv.rx.cs = "ulSeg" /\ srv.state = "ulSeg" /\ srv'.rx = None
  /\ srv'.internal = srv.internal /\ srv'.state \in {"idle", "ulSeg"} /\ srv'.obj = srv.obj
  /\ \E m : m.cs = "ulSegRsp" /\ (\E i \in 1..Segments : m.val = od[srv.obj][i]) /\ Says(m)
  /\ ReadOnlyKept

Moves ==
  Rests \/ Refuses \/ TakesDown \/ ConfirmsNow \/ StillConfirms \/ TakesUpInit \/ TakesUpSeg
ServerMoved == Moves /\ ClientSame /\ DlWritable' /\ Filled(srv.tx)'

LEMMA AbortSaid == AbortMsg \in SrvFrame /\ Filled(AbortMsg)
<1>1. AbortMsg.cs = "abort"
  BY DEF AbortMsg, Msg
<1> QED BY <1>1, AbortMessage DEF Filled

LEMMA Ended ==
  ASSUME SdoInv, Filled(srv.tx), srv' = SrvAborted \/ srv' = Aborted(srv)
  PROVE  /\ srv'.state = "idle" /\ srv'.rx = None /\ (srv'.internal => srv.internal)
         /\ DlWritable' /\ Filled(srv.tx)' /\ (srv' = SrvAborted => ~srv'.internal)
<1>1. /\ srv'.state = "idle" /\ srv'.rx = None /\ (srv'.internal => srv.internal)
      /\ (srv' = SrvAborted => ~srv'.internal)
  BY SrvAbortedFields, SrvAbortedRx DEF SdoInv
<1>2. srv'.tx = srv.tx \/ srv'.tx = None
  <2> DEFINE a == Aborted(srv)
  <2>1. a \in SrvRecord /\ a.tx = srv.tx
    BY SrvAbortedFields DEF SdoInv
  <2>2. SrvAborted = [a EXCEPT !.internal = FALSE, !.tx = None]
    BY DEF SrvAborted
  <2> HIDE DEF a
  <2>3. SrvAborted.tx = None
    BY <2>1, <2>2 DEF SrvRecord
  <2> QED BY <2>1, <2>3 DEF a
<1> QED BY <1>1, <1>2 DEF DlWritable, Filled

LEMMA RestMoves ==
  ASSUME SdoInv, Filled(srv.tx), SrvTimeout \/ SrvAbortFrame
  PROVE  ServerMoved
<1>1. (srv' = SrvAborted \/ srv' = Aborted(srv)) /\ toCli' = toCli /\ od' = od /\ ClientSame
  BY DEF SrvTimeout, SrvAbortFrame
<1> QED BY <1>1, Ended DEF ServerMoved, Moves, Rests, ReadOnlyKept

LEMMA RefuseMoves ==
  ASSUME SdoInv, Filled(srv.tx), SrvRefuses, ClientSame, Live(srv.rx) \/ srv.internal
  PROVE  ServerMoved
<1>1. srv' = SrvAborted /\ toCli' = Put(toCli, AbortMsg) /\ od' = od
  BY DEF SrvRefuses, ToClient
<1> QED BY <1>1, Ended, AbortSaid DEF ServerMoved, Moves, Refuses, ReadOnlyKept, Says

LEMMA FirstRefusedMoves ==
  ASSUME SdoInv, Filled(srv.tx), SrvFirstRefused
  PROVE  ServerMoved
BY RefuseMoves DEF SrvFirstRefused, Got, Live

(* A write does not touch another object. *)
LEMMA WrittenElsewhere ==
  ASSUME SdoInv, NEW o, o \notin ReadOnly, NEW i, NEW v, Write(o, i, v)
  PROVE  ReadOnlyKept
<1>1. od \in [Objects -> Content] /\ ReadOnly \subseteq Objects
  BY ServerFields, SdoAssumption DEF SdoInv, Contents
<1>2. CASE o \in Extended
  BY <1>2 DEF Write, ReadOnlyKept
<1>3. CASE o \notin Extended
  BY <1>1, <1>3 DEF Write, ReadOnlyKept
<1> QED BY <1>2, <1>3

(* An answer to a download that has come, or is to be confirmed.              *)
LEMMA DownMoves ==
  ASSUME SdoInv, NEW s \in SrvRecord, NEW m \in SrvFrame, m.cs \in {"dlInitRsp", "dlSegRsp"},
         s.state \in {"dlRsp", "dlSeg"}, s.rx = None, ~s.internal, s.obj \notin ReadOnly,
         SrvWritten(s, m) \/ (s.state = "dlSeg" /\ SrvSends(s, m)),
         Live(srv.rx), srv.rx.cs \in {"dlInit", "dlSeg"}, srv.rx.cs = "dlInit" \/ srv.state = "dlSeg",
         ~srv.internal, ClientSame, ReadOnlyKept
  PROVE  ServerMoved
<1>1. Filled(m)
  BY DEF Filled
<1>2. ASSUME NEW r \in SrvRecord, r.state \in {"idle", "dlSeg"}, r.rx = None, ~r.internal,
             r.obj \notin ReadOnly, SrvSends(r, m)
      PROVE  ServerMoved
  <2>1. srv' = [r EXCEPT !.tx = None] /\ toCli' = Put(toCli, m)
    BY <1>2 DEF SrvSends, ToClient
  <2>2. srv'.state = r.state /\ srv'.rx = None /\ ~srv'.internal /\ srv'.tx = None /\ srv'.obj \notin ReadOnly
    BY <1>2, <2>1 DEF SrvRecord
  <2>3. Says(m)
    BY <1>1, <2>1 DEF Says
  <2>4. TakesDown
    BY <1>2, <2>2, <2>3 DEF TakesDown
  <2> QED BY <2>2, <2>4 DEF ServerMoved, Moves, DlWritable, Filled
<1>3. CASE s.state = "dlSeg" /\ SrvSends(s, m)
  BY <1>2, <1>3
<1>4. CASE SrvSends([s EXCEPT !.state = "idle"], m)
  <2> DEFINE r == [s EXCEPT !.state = "idle"]
  <2>1. r \in SrvRecord /\ r.state = "idle" /\ r.rx = None /\ ~r.internal /\ r.obj \notin ReadOnly
    BY DEF SrvRecord, SrvStates
  <2> HIDE DEF r
  <2> QED BY <1>2, <1>4, <2>1 DEF r
<1>5. CASE srv' = [s EXCEPT !.timer = TRUE, !.internal = TRUE, !.tx = m] /\ UNCHANGED toCli
  <2>1. /\ srv'.state = s.state /\ srv'.rx = None /\ srv'.internal /\ srv'.tx = m
        /\ srv'.obj \notin ReadOnly
    BY <1>5 DEF SrvRecord
  <2>2. TakesDown
    BY <1>5, <2>1 DEF TakesDown
  <2> QED BY <1>1, <2>1, <2>2 DEF ServerMoved, Moves, DlWritable, Filled
<1> QED BY <1>3, <1>4, <1>5 DEF SrvWritten

LEMMA DlInitMoves ==
  ASSUME SdoInv, SrvDlInit
  PROVE  ServerMoved
<1> DEFINE o == srv.rx.obj
           ack == Msg("dlInitRsp", o, 0, None, FALSE)
           s == [srv EXCEPT !.state = "dlRsp", !.timer = FALSE, !.rx = None, !.obj = o,
                            !.toggle = 0, !.off = 0]
           r == [s EXCEPT !.state = "dlSeg", !.timer = TRUE]
<1>1. /\ \/ Write(o, 1, srv.rx.val) /\ SrvWritten(s, ack)
         \/ SrvSends(r, ack) /\ UNCHANGED <<shadow, od>>
      /\ ClientSame /\ ~srv.internal /\ o \notin ReadOnly /\ Got({"dlInit"})
  BY DEF SrvDlInit
<1>2. srv \in SrvRecord /\ 0 \in 0..Segments
  BY ServerFields, SdoAssumption DEF SdoInv
<1>3. srv.rx \in CliFrame /\ srv.rx.cs = "dlInit" /\ o \in Objects /\ Live(srv.rx)
  BY <1>1, GotFrame, ClientFrameFields DEF SdoInv, Live, Got
<1> HIDE DEF o
<1>4. ack \in SrvFrame /\ ack.cs = "dlInitRsp"
  BY <1>3, ServerMessage DEF SrvCs, Msg
<1> HIDE DEF ack
<1>5. s \in SrvRecord /\ s.state = "dlRsp" /\ s.rx = None /\ ~s.internal /\ s.obj = o
  BY <1>1, <1>2, <1>3 DEF SrvRecord, SrvStates
<1> HIDE DEF s
<1>6. r \in SrvRecord /\ r.state = "dlSeg" /\ r.rx = None /\ ~r.internal /\ r.obj = o
  BY <1>5 DEF SrvRecord, SrvStates
<1> HIDE DEF r
<1>7. ReadOnlyKept
  BY <1>1, WrittenElsewhere DEF ReadOnlyKept
<1> QED BY <1>1, <1>3, <1>4, <1>5, <1>6, <1>7, DownMoves

LEMMA DlSegMoves ==
  ASSUME SdoInv, DlWritable, Filled(srv.tx), SrvDlSeg
  PROVE  ServerMoved
<1> DEFINE last == Segs(srv.obj) <= srv.off + 1
           ack == Msg("dlSegRsp", None, srv.toggle, None, FALSE)
           s == [srv EXCEPT !.timer = FALSE, !.rx = None, !.off = srv.off + 1]
           r == [s EXCEPT !.timer = TRUE, !.toggle = Flip(s.toggle)]
           fits == srv.rx.cs = "dlSeg" /\ srv.rx.toggle = srv.toggle /\ srv.rx.last = last
           write == Write(srv.obj, srv.off + 1, srv.rx.val)
<1>1. /\ srv \in SrvRecord /\ srv.state = "dlSeg" /\ ~srv.internal /\ srv.obj \notin ReadOnly
      /\ srv.toggle \in {0, 1} /\ srv.off \in 0..Segments /\ srv.off < Segs(srv.obj)
      /\ Segs(srv.obj) \in 1..Segments /\ Segments \in Nat /\ ClientSame /\ Live(srv.rx)
  BY ServerFields, SegsBounds, SdoAssumption DEF SdoInv, SrvDlSeg, DlWritable, Got, Live
<1>2. srv.off + 1 \in 0..Segments
  BY <1>1
<1>3. \/ SrvRefuses
      \/ fits /\ write /\ (SrvWritten(s, ack) \/ SrvSends(r, ack))
  BY DEF SrvDlSeg
<1> HIDE DEF last
<1>4. ack \in SrvFrame /\ ack.cs = "dlSegRsp"
  BY <1>1, ServerMessage DEF SrvCs, Msg
<1> HIDE DEF ack
<1>5. s \in SrvRecord /\ s.state = "dlSeg" /\ s.rx = None /\ ~s.internal /\ s.obj = srv.obj /\ s.toggle = srv.toggle
  BY <1>1, <1>2 DEF SrvRecord
<1> HIDE DEF s
<1>6. r \in SrvRecord /\ r.state = "dlSeg" /\ r.rx = None /\ ~r.internal /\ r.obj = srv.obj
  <2>1. Flip(s.toggle) \in {0, 1}
    BY <1>1, <1>5 DEF Flip
  <2> QED BY <1>5, <2>1 DEF SrvRecord
<1> HIDE DEF r
<1>7. CASE SrvRefuses
  BY <1>1, <1>7, RefuseMoves
<1>8. CASE fits /\ write /\ (SrvWritten(s, ack) \/ SrvSends(r, ack))
  <2>1. ReadOnlyKept
    BY <1>1, <1>8, WrittenElsewhere
  <2> QED BY <1>1, <1>4, <1>5, <1>6, <1>8, <2>1, DownMoves
<1> QED BY <1>3, <1>7, <1>8

LEMMA HandledUnread ==
  ASSUME SdoInv, DlWritable, InInternal
  PROVE  srv.internal /\ Unread /\ Handled \notin ReadOnly
BY DEF InInternal, DlWritable, Handled, Unread, Got, Live

LEMMA ConfirmMoves ==
  ASSUME SdoInv, DlWritable, Filled(srv.tx), SrvConfirm
  PROVE  ServerMoved
<1> DEFINE o == Handled
           a == Aborted(srv)
           s == [a EXCEPT !.obj = o, !.internal = FALSE, !.tx = None]
<1>1. srv.internal /\ Unread /\ o \notin ReadOnly /\ o \in Objects /\ srv.tx \in SrvFrame
  BY HandledUnread, HandledObject, ServerFields DEF SrvConfirm, SdoInv
<1>2. /\ \/ srv' = [s EXCEPT !.state = "dead"] /\ UNCHANGED <<od, toCli>>
         \/ srv' = s /\ toCli' = Put(toCli, srv.tx) /\ od' = (IF o \in Copied THEN [od EXCEPT ![o] = shadow[o]] ELSE od)
         \/ srv' = s /\ toCli' = Put(toCli, AbortMsg) /\ UNCHANGED od
      /\ ClientSame
  BY DEF SrvConfirm, ToClient
<1> HIDE DEF o
<1>3. s \in SrvRecord /\ s.state = "idle" /\ s.rx = None /\ ~s.internal /\ s.tx = None
  <2>1. a \in SrvRecord /\ a.state = "idle" /\ a.rx = None
    BY SrvAbortedFields, SrvAbortedRx DEF SdoInv
  <2> HIDE DEF a
  <2> QED BY <1>1, <2>1 DEF SrvRecord
<1> HIDE DEF s
<1>4. srv'.state \in {"idle", "dead"} /\ srv'.rx = None /\ ~srv'.internal /\ srv'.tx = None
  BY <1>2, <1>3 DEF SrvRecord
<1>5. ReadOnlyKept
  <2>1. od \in [Objects -> Content] /\ ReadOnly \subseteq Objects
    BY ServerFields, SdoAssumption DEF SdoInv, Contents
  <2> QED BY <1>1, <1>2, <2>1 DEF ReadOnlyKept
<1>6. toCli' = toCli \/ (\E m : Says(m))
  BY <1>1, <1>2, AbortSaid DEF Says
<1>7. ConfirmsNow
  BY <1>1, <1>4, <1>5, <1>6 DEF ConfirmsNow
<1> QED BY <1>2, <1>4, <1>7 DEF ServerMoved, Moves, DlWritable, Filled

LEMMA ProcessingMoves ==
  ASSUME SdoInv, DlWritable, Filled(srv.tx), SrvProcessing
  PROVE  ServerMoved
<1>1. /\ srv \in SrvRecord /\ srv.internal /\ Unread /\ Handled \notin ReadOnly /\ Handled \in Objects
      /\ srv.state \in {"idle", "dlRsp", "dlSeg"} /\ ClientSame /\ UNCHANGED <<od, toCli>>
  BY ServerFields, HandledObject, HandledUnread DEF SdoInv, SrvProcessing, InInternal
<1> DEFINE state == IF srv.state = "idle" THEN "dlRsp" ELSE srv.state
<1>2. state \in {"dlRsp", "dlSeg"}
  BY <1>1
<1>3. srv' = [srv EXCEPT !.rx = None, !.timer = FALSE, !.obj = Handled, !.state = state]
  BY DEF SrvProcessing
<1> HIDE DEF state
<1>4. /\ srv'.state = state /\ srv'.obj = Handled /\ srv'.rx = None /\ srv'.internal
      /\ srv'.tx = srv.tx
  BY <1>1, <1>2, <1>3 DEF SrvRecord
<1>5. StillConfirms
  BY <1>1, <1>2, <1>4 DEF StillConfirms, ReadOnlyKept
<1> QED BY <1>1, <1>4, <1>5 DEF ServerMoved, Moves, DlWritable, Filled

LEMMA UlInitMoves ==
  ASSUME SdoInv, SrvUlInit
  PROVE  ServerMoved
<1> DEFINE o == srv.rx.obj
           val == IF o \in Long THEN None ELSE od[o][1]
           m == Msg("ulInitRsp", o, 0, val, FALSE)
           off == IF o \in Long THEN 0 ELSE 1
           state == IF o \in Long THEN "ulSeg" ELSE "idle"
           s == [srv EXCEPT !.timer = Waits(o), !.rx = None, !.obj = o, !.toggle = 0,
                            !.off = off, !.state = state]
<1>1. SrvSends(s, m) /\ ClientSame /\ UNCHANGED <<shadow, od>> /\ Got({"ulInit"})
  BY DEF SrvUlInit
<1>2. srv \in SrvRecord /\ od \in [Objects -> Content] /\ Segments \in Nat /\ 1 \in 1..Segments /\ 0 \in 0..Segments
      /\ 1 \in 0..Segments
  BY ServerFields, SdoAssumption DEF SdoInv, Contents
<1>3. srv.rx \in CliFrame /\ srv.rx.cs = "ulInit" /\ o \in Objects /\ Live(srv.rx)
  BY <1>1, GotFrame, ClientFrameFields DEF SdoInv, Live, Got
<1> HIDE DEF o
<1>4. val \in Data \cup {None} /\ (o \notin Long => val \in Data)
  BY <1>2, <1>3 DEF Content
<1> HIDE DEF val
<1>5. m \in SrvFrame /\ m.cs = "ulInitRsp" /\ m.obj = o /\ m.val = val
  BY <1>3, <1>4, ServerMessage DEF SrvCs, Msg
<1> HIDE DEF m
<1>6. Waits(o) \in BOOLEAN /\ off \in 0..Segments /\ state \in {"ulSeg", "idle"}
  BY <1>2 DEF Waits
<1> HIDE DEF off, state, Waits
<1>7. /\ s \in SrvRecord /\ s.state = state /\ s.rx = None /\ s.obj = o /\ s.internal = srv.internal
  BY <1>2, <1>3, <1>6 DEF SrvRecord, SrvStates
<1> HIDE DEF s
<1>8. srv' = [s EXCEPT !.tx = IF s.internal THEN m ELSE None] /\ toCli' = Put(toCli, m)
  BY <1>1 DEF SrvSends, ToClient
<1>9. /\ srv'.state = state /\ srv'.rx = None /\ srv'.obj = o /\ srv'.internal = srv.internal
      /\ (srv'.tx = m \/ srv'.tx = None)
  BY <1>7, <1>8 DEF SrvRecord
<1>10. Filled(m) /\ Says(m)
  BY <1>4, <1>5, <1>8, SdoAssumption DEF Filled, Says
<1>11. TakesUpInit
  BY <1>1, <1>3, <1>5, <1>6, <1>9, <1>10 DEF TakesUpInit, ReadOnlyKept, o
<1> QED BY <1>1, <1>6, <1>9, <1>10, <1>11 DEF ServerMoved, Moves, DlWritable, Filled

LEMMA UlSegMoves ==
  ASSUME SdoInv, Filled(srv.tx), SrvUlSeg
  PROVE  ServerMoved
<1> DEFINE last == Segs(srv.obj) <= srv.off + 1
           m == Msg("ulSegRsp", None, srv.toggle, od[srv.obj][srv.off + 1], last)
           state == IF last THEN "idle" ELSE "ulSeg"
           s == [srv EXCEPT !.timer = ~last, !.rx = None, !.off = srv.off + 1,
                            !.toggle = Flip(srv.toggle), !.state = state]
           fits == srv.rx # None /\ srv.rx.cs = "ulSeg" /\ srv.rx.toggle = srv.toggle
<1>1. /\ srv \in SrvRecord /\ od \in [Objects -> Content] /\ srv.obj \in Objects /\ srv.toggle \in {0, 1}
      /\ srv.off \in 0..Segments /\ srv.off < Segs(srv.obj) /\ srv.state = "ulSeg"
      /\ Segs(srv.obj) \in 1..Segments /\ Segments \in Nat /\ ClientSame
      /\ Live(srv.rx) \/ srv.internal
  BY ServerFields, SegsBounds, SdoAssumption DEF SdoInv, SrvUlSeg, Contents, Got, Live
<1>2. SrvRefuses \/ (fits /\ SrvSends(s, m) /\ UNCHANGED <<shadow, od>>)
  BY DEF SrvUlSeg
<1>3. CASE SrvRefuses
  BY <1>1, <1>3, RefuseMoves
<1>4. CASE fits /\ SrvSends(s, m) /\ UNCHANGED <<shadow, od>>
  <2>1. /\ last \in BOOLEAN /\ Flip(srv.toggle) \in {0, 1} /\ srv.off + 1 \in 0..Segments
        /\ srv.off + 1 \in 1..Segments
    BY <1>1 DEF Flip
  <2> HIDE DEF last
  <2>2. od[srv.obj][srv.off + 1] \in Data
    BY <1>1, <2>1 DEF Content
  <2>3. m \in SrvFrame /\ m.cs = "ulSegRsp" /\ m.val = od[srv.obj][srv.off + 1]
    BY <1>1, <2>1, <2>2, ServerMessage DEF SrvCs, Msg
  <2> HIDE DEF m
  <2>4. state \in {"idle", "ulSeg"}
    OBVIOUS
  <2> HIDE DEF state
  <2>5. s \in SrvRecord /\ s.state = state /\ s.rx = None /\ s.obj = srv.obj /\ s.internal = srv.internal
    BY <1>1, <2>1, <2>4 DEF SrvRecord, SrvStates
  <2> HIDE DEF s
  <2>6. srv' = [s EXCEPT !.tx = IF s.internal THEN m ELSE None] /\ toCli' = Put(toCli, m)
    BY <1>4 DEF SrvSends, ToClient
  <2>7. /\ srv'.state = state /\ srv'.rx = None /\ srv'.obj = srv.obj /\ srv'.internal = srv.internal
        /\ (srv'.tx = m \/ srv'.tx = None)
    BY <2>5, <2>6 DEF SrvRecord
  <2>8. Filled(m) /\ Says(m)
    BY <2>3, <2>6 DEF Filled, Says
  <2>9. Live(srv.rx) /\ srv.rx.cs = "ulSeg"
    BY <1>4 DEF Live
  <2>10. TakesUpSeg
    BY <1>1, <1>4, <2>1, <2>3, <2>4, <2>7, <2>8, <2>9 DEF TakesUpSeg, ReadOnlyKept
  <2> QED BY <1>1, <2>4, <2>7, <2>8, <2>10 DEF ServerMoved, Moves, DlWritable, Filled
<1> QED BY <1>2, <1>3, <1>4

LEMMA ServerMoves ==
  ASSUME SdoInv, Storage, SrvTimeout \/ SrvStep
  PROVE  ServerMoved
<1>1. DlWritable /\ Filled(srv.tx)
  BY DEF Storage, AllFilled
<1> QED BY <1>1, RestMoves, FirstRefusedMoves, DlInitMoves, DlSegMoves, ConfirmMoves, ProcessingMoves,
     UlInitMoves, UlSegMoves DEF SrvStep

-----------------------------------------------------------------------------
(* What a step of the client does: it is at rest, or has asked for something. *)
Ends ==
  /\ cli.state # "idle" /\ cli.rx # None /\ cli'.state = "idle" /\ cli'.rx = None
  /\ cli'.status \in {"success", "abort"}
  /\ toSrv' = toSrv \/ toSrv' = Put(toSrv, AbortMsg)
UpRequest == Msg("ulInit", req.obj, 0, None, FALSE)
Asks(m) ==
  /\ m \in CliFrame /\ toSrv' = Put(toSrv, m) /\ cli'.rx = None /\ cli'.status = cli.status
  /\ cli.state # "idle" /\ (cli.state \in {"dlReq", "ulReq"} \/ cli.rx # None)
  /\ cli'.state \in {"dlRsp", "dlSeg", "ulRsp", "ulSeg"}
  /\ cli'.state \in {"dlRsp", "dlSeg"} => cli.state \in {"dlReq", "dlRsp", "dlSeg"}
  /\ cli'.state = "ulRsp" => cli.state = "ulReq" /\ m = UpRequest
  /\ cli'.state = "ulSeg" =>
       m.cs = "ulSeg" /\ \/ ClientUlInitRsp /\ cli'.off = 0
                         \/ ClientUlSegRsp /\ cli'.off = cli.off + 1
ClientMoved == ServerSame /\ req' = req /\ (Ends \/ \E m : Asks(m))

LEMMA EndMoves ==
  ASSUME SdoInv, NEW status \in {"success", "abort"}, cli' = CliEnds(status), cli.rx # None,
         toSrv' = toSrv \/ toSrv' = Put(toSrv, AbortMsg), ServerSame, req' = req
  PROVE  ClientMoved
<1>1. cli.state # "idle"
  BY CliFields DEF SdoInv
<1> QED BY <1>1, CliEnded DEF ClientMoved, Ends

LEMMA AbortMoves ==
  ASSUME SdoInv, ClientAborted \/ ClientRefuses \/ ClientOutOfMem
  PROVE  ClientMoved
<1>1. /\ cli' = CliEnds("abort") /\ cli.rx # None /\ ServerSame /\ req' = req
      /\ toSrv' = toSrv \/ toSrv' = Put(toSrv, AbortMsg)
  BY DEF ClientAborted, ClientRefuses, ClientOutOfMem, Answered, ToServer
<1> QED BY <1>1, EndMoves

LEMMA InitReqMoves ==
  ASSUME SdoInv, ClientInitReq
  PROVE  ClientMoved
<1> DEFINE cs == IF cli.state = "dlReq" THEN "dlInit" ELSE "ulInit"
           val == IF cli.state = "dlReq" /\ req.obj \notin Long THEN req.val ELSE None
           m == Msg(cs, req.obj, 0, val, FALSE)
<1>1. /\ toSrv' = Put(toSrv, m) /\ ServerSame /\ req' = req /\ cli.state \in {"dlReq", "ulReq"}
      /\ cli' = [Timed(cli) EXCEPT !.state = IF cli.state = "dlReq" THEN "dlRsp" ELSE "ulRsp",
                                   !.toggle = 0, !.off = 0, !.rx = None]
  BY DEF ClientInitReq, FirstToggle, ToServer
<1>2. cli.state = "ulReq" => m = UpRequest
  BY DEF UpRequest
<1>3. /\ cs \in {"dlInit", "ulInit"} /\ val \in Data \cup {None} /\ req.obj \in Objects
      /\ cs = "dlInit" /\ req.obj \notin Long => val \in Data
  BY CliFields DEF SdoInv
<1> HIDE DEF cs, val
<1>4. m \in CliFrame
  BY <1>3, ClientMessage DEF CliCs
<1> HIDE DEF m
<1>5. Timed(cli) \in CliRecord /\ Timed(cli).status = cli.status
  BY TimedFields
<1>6. /\ cli'.rx = None /\ cli'.status = cli.status
      /\ cli'.state = IF cli.state = "dlReq" THEN "dlRsp" ELSE "ulRsp"
  BY <1>1, <1>5 DEF CliRecord
<1>7. Asks(m)
  BY <1>1, <1>2, <1>4, <1>6 DEF Asks
<1> QED BY <1>1, <1>7 DEF ClientMoved

LEMMA SegmentMoves ==
  ASSUME SdoInv, NEW t \in {0, 1}, ClientSendsSegment(t), cli.state \in {"dlRsp", "dlSeg"}, cli.rx # None,
         ServerSame, req' = req
  PROVE  ClientMoved
<1> DEFINE last == Segs(req.obj) <= cli.off + 1
           m == Msg("dlSeg", None, t, req.val, last)
<1>1. /\ toSrv' = Put(toSrv, m) /\ Timed(cli) \in CliRecord /\ Timed(cli).status = cli.status
      /\ cli' = [Timed(cli) EXCEPT !.state = "dlSeg", !.toggle = t, !.off = Timed(cli).off + 1, !.rx = None]
  BY TimedFields DEF ClientSendsSegment, ToServer
<1>2. req.val \in Data /\ last \in BOOLEAN
  BY CliFields DEF SdoInv
<1> HIDE DEF last
<1>3. m \in CliFrame
  BY <1>2, ClientMessage DEF CliCs
<1> HIDE DEF m
<1>4. cli'.rx = None /\ cli'.status = cli.status /\ cli'.state = "dlSeg"
  BY <1>1 DEF CliRecord
<1>5. Asks(m)
  BY <1>1, <1>3, <1>4 DEF Asks
<1> QED BY <1>5 DEF ClientMoved

LEMMA DlMoves ==
  ASSUME SdoInv, ClientDlInitRsp \/ ClientDlSegRsp
  PROVE  ClientMoved
<1>1. /\ cli.state \in {"dlRsp", "dlSeg"} /\ cli.rx # None /\ ServerSame /\ req' = req
      /\ ClientSucceeds \/ ClientSendsSegment(cli.toggle) \/ ClientSendsSegment(Flip(cli.toggle))
  BY DEF ClientDlInitRsp, ClientDlSegRsp, Answered
<1>2. cli.toggle \in {0, 1} /\ Flip(cli.toggle) \in {0, 1}
  BY CliFields DEF SdoInv, Flip
<1>3. CASE ClientSucceeds
  BY <1>1, <1>3, EndMoves DEF ClientSucceeds
<1> QED BY <1>1, <1>2, <1>3, SegmentMoves

LEMMA UlMoves ==
  ASSUME SdoInv, ClientUlInitRsp \/ ClientUlSegRsp
  PROVE  ClientMoved
<1>1. cli \in CliRecord /\ cli.rx # None /\ cli.state # "idle" /\ ServerSame /\ req' = req /\ cli.toggle \in {0, 1}
  BY CliFields DEF ClientUlInitRsp, ClientUlSegRsp, Answered, SdoInv
<1>2. CASE ClientSucceeds
  BY <1>1, <1>2, EndMoves DEF ClientSucceeds
<1>3. \A t \in {0, 1} : Msg("ulSeg", None, t, None, FALSE) \in CliFrame /\ Msg("ulSeg", None, t, None, FALSE).cs = "ulSeg"
  BY ClientMessage DEF CliCs, Msg
<1>4. Timed(cli) \in CliRecord /\ Timed(cli).status = cli.status /\ Timed(cli).state = cli.state /\ Timed(cli).off = cli.off
  BY TimedFields
<1>5. CASE ClientUlInitRsp /\ ~ClientSucceeds
  <2>1. /\ ToServer(Msg("ulSeg", None, 0, None, FALSE))
        /\ cli' = [Timed(cli) EXCEPT !.state = "ulSeg", !.off = 0, !.rx = None]
    BY <1>5 DEF ClientUlInitRsp
  <2>2. cli'.state = "ulSeg" /\ cli'.off = 0 /\ cli'.rx = None /\ cli'.status = cli.status
    BY <1>4, <2>1 DEF CliRecord
  <2>3. Asks(Msg("ulSeg", None, 0, None, FALSE))
    BY <1>1, <1>3, <1>5, <2>1, <2>2 DEF Asks, ToServer
  <2> QED BY <1>1, <2>3 DEF ClientMoved
<1>6. CASE ClientUlSegRsp /\ ~ClientSucceeds
  <2> DEFINE t == Flip(cli.toggle)
  <2>1. ToServer(Msg("ulSeg", None, t, None, FALSE)) /\ cli.state = "ulSeg"
    BY <1>6 DEF ClientUlSegRsp, Answered
  <2>2. cli' = [Timed(cli) EXCEPT !.toggle = Flip(Timed(cli).toggle), !.off = Timed(cli).off + 1, !.rx = None]
    BY <1>6 DEF ClientUlSegRsp
  <2>3. t \in {0, 1}
    BY <1>1 DEF Flip
  <2> HIDE DEF t
  <2>4. cli'.state = "ulSeg" /\ cli'.off = cli.off + 1 /\ cli'.rx = None /\ cli'.status = cli.status
    BY <1>4, <2>1, <2>2 DEF CliRecord
  <2>5. Asks(Msg("ulSeg", None, t, None, FALSE))
    BY <1>1, <1>3, <1>6, <2>1, <2>3, <2>4 DEF Asks, ToServer
  <2> QED BY <1>1, <2>5 DEF ClientMoved
<1> QED BY <1>2, <1>5, <1>6

LEMMA ClientMoves ==
  ASSUME SdoInv, ClientStep
  PROVE  ClientMoved
BY AbortMoves, InitReqMoves, DlMoves, UlMoves DEF ClientStep

-----------------------------------------------------------------------------
(* What the server keeps is kept by every step.                               *)
LEMMA StorageKept ==
  ASSUME SdoInv, Storage, UNCHANGED <<srv, od>>, cli'.rx = cli.rx \/ cli'.rx = None \/ (\E i \in 1..Len(toCli) : cli'.rx = toCli[i]),
         toCli' = toCli \/ (toCli # <<>> /\ toCli' = Tail(toCli))
  PROVE  Storage'
<1>1. \A i \in 1..Len(toCli') : \E j \in 1..Len(toCli) : toCli'[i] = toCli[j]
  <2>1. CASE toCli' = toCli
    BY <2>1
  <2>2. CASE toCli # <<>> /\ toCli' = Tail(toCli)
    BY <2>2, TailAt DEF SdoInv, BusTyped
  <2> QED BY <2>1, <2>2
<1> QED BY <1>1 DEF Storage, ReadOnlyWhole, DlWritable, AllFilled, Filled

LEMMA StorageServer ==
  ASSUME SdoInv, Storage, ServerMoved
  PROVE  Storage'
<1>1. ReadOnlyKept /\ DlWritable' /\ Filled(srv.tx)' /\ cli' = cli
  BY DEF ServerMoved, ClientSame, Moves, Rests, Refuses, TakesDown, ConfirmsNow, StillConfirms, TakesUpInit, TakesUpSeg
<1>2. toCli' = toCli \/ \E m : Says(m)
  BY DEF ServerMoved, Moves, Rests, Refuses, TakesDown, ConfirmsNow, StillConfirms, TakesUpInit, TakesUpSeg
<1>3. \A i \in 1..Len(toCli') : Filled(toCli'[i])
  <2>1. CASE toCli' = toCli
    BY <2>1 DEF Storage, AllFilled
  <2>2. ASSUME NEW m, Says(m) PROVE \A i \in 1..Len(toCli') : Filled(toCli'[i])
    <3>1. toCli \in Seq(SrvFrame) /\ toCli' = Put(toCli, m) /\ Filled(m) /\ Len(toCli) \in Nat
      BY <2>2 DEF SdoInv, BusTyped, Says
    <3>2. \A i \in 1..Len(toCli) : Filled(toCli[i])
      BY DEF Storage, AllFilled
    <3>3. CASE Put(toCli, m) = toCli
      BY <3>1, <3>2, <3>3
    <3>4. CASE /\ Len(Put(toCli, m)) = Len(toCli) + 1 /\ Put(toCli, m)[Len(toCli) + 1] = m
               /\ \A i \in 1..Len(toCli) : Put(toCli, m)[i] = toCli[i]
      BY <3>1, <3>2, <3>4
    <3> QED BY <3>1, <3>3, <3>4, PutAt
  <2> QED BY <1>2, <2>1, <2>2
<1>4. AllFilled'
  BY <1>1, <1>3 DEF Storage, AllFilled, Filled
<1>5. ReadOnlyWhole'
  BY <1>1 DEF Storage, ReadOnlyWhole, ReadOnlyKept, Whole
<1> QED BY <1>1, <1>4, <1>5 DEF Storage

LEMMA StorageRestarts ==
  ASSUME SdoInv, Storage, SrvRestarts
  PROVE  Storage'
<1>1. PICK d \in Data : od' = [o \in Objects |-> IF o \in ReadOnly THEN Whole(d) ELSE od[o]]
  BY DEF SrvRestarts
<1>2. ReadOnlyWhole'
  BY <1>1, SdoAssumption DEF ReadOnlyWhole, Whole
<1>3. srv'.state = "idle" /\ srv'.tx = None /\ toCli' = <<>>
  BY DEF SrvRestarts, Initial, IdleServer
<1>4. cli'.rx = cli.rx
  <2>1. cli \in CliRecord
    BY CliFields DEF SdoInv
  <2> QED BY <2>1 DEF SrvRestarts, CliRecord
<1> QED BY <1>2, <1>3, <1>4 DEF Storage, DlWritable, AllFilled, Filled

LEMMA StorageNext == SdoInv /\ Storage /\ [Next]_vars => Storage'
<1> SUFFICES ASSUME SdoInv, Storage, [Next]_vars PROVE Storage'
  OBVIOUS
<1>0. cli \in CliRecord /\ Nearer \in CliRecord /\ Nearer.rx = cli.rx
  BY CliFields, NearerFields DEF SdoInv
<1>1. CASE Start
  <2>1. cli'.rx = cli.rx
    BY <1>0, <1>1 DEF Start, CliRecord
  <2> QED BY <1>1, <2>1, StorageKept DEF Start
<1>2. CASE ClientTimeout
  <2>1. cli'.rx = None
    BY <1>2, CliEnded DEF ClientTimeout
  <2> QED BY <1>2, <2>1, StorageKept DEF ClientTimeout, ServerSame
<1>3. CASE ClientStep
  <2>1. cli'.rx = None /\ ServerSame
    BY <1>3, ClientMoves DEF ClientMoved, Ends, Asks
  <2> QED BY <2>1, StorageKept DEF ServerSame
<1>4. CASE SrvTimeout \/ SrvStep
  BY <1>4, ServerMoves, StorageServer
<1>5. CASE SrvRestarts
  BY <1>5, StorageRestarts
<1>6. CASE DeliverSrv
  <2>1. srv \in SrvRecord
    BY ServerFields DEF SdoInv
  <2>2. srv'.state = srv.state /\ srv'.obj = srv.obj /\ srv'.tx = srv.tx
    BY <1>6, <2>1 DEF DeliverSrv, SrvRecord
  <2>3. UNCHANGED <<cli, od, toCli>>
    BY <1>6 DEF DeliverSrv
  <2> QED BY <2>2, <2>3 DEF Storage, ReadOnlyWhole, DlWritable, AllFilled, Filled
<1>7. CASE DeliverCli
  <2>1. toCli # <<>> /\ toCli' = Tail(toCli) /\ cli' = [Nearer EXCEPT !.rx = IF cli.state = "idle" THEN None ELSE Head(toCli)]
    BY <1>7 DEF DeliverCli
  <2>2. toCli \in Seq(SrvFrame) /\ Head(toCli) = toCli[1] /\ 1 \in 1..Len(toCli)
    BY <2>1 DEF SdoInv, BusTyped
  <2>3. cli'.rx = None \/ (\E i \in 1..Len(toCli) : cli'.rx = toCli[i])
    BY <1>0, <2>1, <2>2 DEF CliRecord
  <2> QED BY <1>7, <2>1, <2>3, StorageKept DEF DeliverCli
<1>8. CASE LoseSrv \/ LoseCli
  <2>1. cli'.rx = cli.rx
    BY <1>0, <1>8 DEF LoseSrv, LoseCli
  <2> QED BY <1>8, <2>1, StorageKept DEF LoseSrv, LoseCli
<1>9. CASE UNCHANGED vars
  BY <1>9, StorageKept DEF vars
<1> QED BY <1>1, <1>2, <1>3, <1>4, <1>5, <1>6, <1>7, <1>8, <1>9 DEF Next

-----------------------------------------------------------------------------
(* No transfer has been started over another, no confirmation is owed to one  *)
(* that was given up.                                                         *)
Steady == forced = 0 /\ ~owed

LEMMA SteadyBefore ==
  ASSUME SdoInv, [Next]_vars, Steady'
  PROVE  /\ Steady \/ (Start /\ Quiescent)
         /\ Start => cli.state = "idle"
         /\ ClientTimeout => ~srv.internal
<1>1. forced \in Nat /\ ForceMax \in Nat
  BY SdoAssumption DEF SdoInv, ClientInv, ClientTyped
<1>2. CASE Start
  <2>1. forced' = forced + (IF cli.state = "idle" THEN 0 ELSE 1) /\ owed' = (owed /\ ~Quiescent)
    BY <1>2 DEF Start
  <2>2. ~ClientTimeout \/ ~srv.internal
    BY <1>2 DEF ClientTimeout, Steady
  <2>3. forced' = 0 /\ ~owed'
    BY DEF Steady
  <2>4. cli.state = "idle" /\ forced = 0
    BY <1>1, <2>1, <2>3
  <2>5. ~owed \/ Quiescent
    BY <2>1, <2>3, Zenon
  <2> QED BY <1>2, <2>2, <2>4, <2>5, Zenon DEF Steady
<1>3. CASE ClientTimeout
  <2>1. forced' = forced /\ owed' = (owed \/ srv.internal)
    BY <1>3 DEF ClientTimeout
  <2>2. ~Start \/ cli.state = "idle"
    <3>1. Start => forced' = forced + (IF cli.state = "idle" THEN 0 ELSE 1)
      BY DEF Start
    <3> QED BY <1>1, <2>1, <3>1
  <2> QED BY <2>1, <2>2 DEF Steady
<1>4. CASE ~Start /\ ~ClientTimeout
  BY <1>4, HistoryKept DEF Next, vars, Steady
<1> QED BY <1>2, <1>3, <1>4

LEMMA LoadParts ==
  ASSUME SdoInv
  PROVE  /\ Requests \in Nat /\ Len(toCli) \in Nat
         /\ One(Live(srv.rx)) \in {0, 1} /\ One(srv.internal) \in {0, 1} /\ One(cli.rx # None) \in {0, 1}
<1>1. toSrv \in Seq(CliFrame) /\ toCli \in Seq(SrvFrame)
  BY DEF SdoInv, BusTyped
<1> QED BY <1>1, LiveFinite DEF Requests, One

LEMMA LoadAfter ==
  ASSUME SdoInv'
  PROVE  /\ Requests' \in Nat /\ Len(toCli') \in Nat
         /\ One(Live(srv.rx))' \in {0, 1} /\ One(srv.internal)' \in {0, 1} /\ One(cli.rx # None)' \in {0, 1}
<1>1. toSrv' \in Seq(CliFrame) /\ toCli' \in Seq(SrvFrame)
  BY DEF SdoInv, BusTyped
<1>2. Cardinality(LiveIn(toSrv')) \in Nat
  BY <1>1, LiveFinite
<1> QED BY <1>1, <1>2 DEF Requests, One, LiveIn

(* What the load tells, where it leaves room for one more only.               *)
LEMMA LoadFull ==
  ASSUME SdoInv, Load <= 1
  PROVE  /\ Len(toCli) <= 1
         /\ toCli # <<>> => cli.rx = None
         /\ toCli # <<>> \/ cli.rx # None => ~srv.internal
         /\ toCli # <<>> \/ cli.rx # None \/ srv.internal => ~Live(srv.rx)
         /\ toCli # <<>> \/ cli.rx # None \/ srv.internal \/ Live(srv.rx) =>
              \A i \in 1..Len(toSrv) : ~Live(toSrv[i])
         /\ \A i, j \in 1..Len(toSrv) : Live(toSrv[i]) /\ Live(toSrv[j]) => i = j
<1>1. toSrv \in Seq(CliFrame) /\ toCli \in Seq(SrvFrame)
  BY DEF SdoInv, BusTyped
<1>2. (toCli # <<>>) => Len(toCli) >= 1
  BY <1>1
<1>3. Requests = 0 => \A i \in 1..Len(toSrv) : ~Live(toSrv[i])
  BY <1>1, LiveFinite DEF Requests
<1>4. \A i, j \in 1..Len(toSrv) : Live(toSrv[i]) /\ Live(toSrv[j]) /\ i # j => Requests >= 2
  BY <1>1, LiveTwo DEF Requests, LiveIn
<1> QED BY <1>2, <1>3, <1>4, LoadParts DEF Load, One

LEMMA Room ==
  ASSUME SdoInv, ChanMax >= 2, LoadBound, Live(srv.rx) \/ srv.internal, NEW m, Says(m)
  PROVE  /\ toCli' = Append(toCli, m) /\ Len(toCli') = Len(toCli) + 1 /\ toCli'[Len(toCli')] = m
         /\ toCli' # <<>> /\ \A i \in 1..Len(toCli) : toCli'[i] = toCli[i]
<1>1. toCli \in Seq(SrvFrame) /\ ChanMax \in Nat /\ Len(toCli) \in Nat /\ m \in SrvFrame
  BY SdoAssumption DEF SdoInv, BusTyped, Says
<1>2. Load <= 2
  BY LoadParts DEF LoadBound, Load
<1>3. One(Live(srv.rx)) + One(srv.internal) >= 1
  BY DEF One
<1>4. Len(toCli) < ChanMax
  BY <1>1, <1>2, <1>3, LoadParts DEF Load
<1>5. toCli' = Append(toCli, m)
  BY <1>4 DEF Says, Put
<1>6. Len(toCli') = Len(toCli) + 1 /\ toCli' # <<>> /\ toCli'[Len(toCli')] = m
      /\ \A i \in 1..Len(toCli) : toCli'[i] = toCli[i]
  BY <1>1, <1>5
<1> QED BY <1>5, <1>6

LEMMA PutLen ==
  ASSUME NEW F, NEW bus \in Seq(F), NEW m
  PROVE  Len(Put(bus, m)) <= Len(bus) + 1
BY DEF Put

LEMMA LoadServer ==
  ASSUME SdoInv, SdoInv', LoadBound, ServerMoved
  PROVE  LoadBound'
<1>1. cli' = cli /\ toSrv' = toSrv
  BY DEF ServerMoved, ClientSame
<1>2. Requests' = Requests /\ (Waiting' <=> Waiting)
  BY <1>1 DEF Requests, Waiting, LiveIn
<1>3. /\ One(Live(srv.rx))' = 0 /\ One(cli.rx # None)' = One(cli.rx # None)
  BY <1>1 DEF One, Live, ServerMoved, Moves, Rests, Refuses, TakesDown, ConfirmsNow, StillConfirms, TakesUpInit, TakesUpSeg
<1>4. /\ One(srv.internal)' <= 1
      /\ ~srv'.internal => One(srv.internal)' = 0
      /\ srv.internal => One(srv.internal) = 1
      /\ Live(srv.rx) => One(Live(srv.rx)) = 1
  BY DEF One
<1>5. \/ toCli' = toCli /\ (srv'.internal => srv.internal \/ Live(srv.rx))
      \/ /\ \E m : Says(m)
         /\ srv'.internal => srv.internal /\ Live(srv.rx)
         /\ srv.internal \/ Live(srv.rx)
  BY DEF ServerMoved, Moves, Rests, Refuses, TakesDown, ConfirmsNow, StillConfirms, TakesUpInit, TakesUpSeg
<1>6. (\E m : Says(m)) => Len(toCli') <= Len(toCli) + 1
  BY PutLen DEF Says, SdoInv, BusTyped
<1>7. Load' <= Load /\ Load' \in Nat /\ Load \in Nat
  BY <1>2, <1>3, <1>4, <1>5, <1>6, LoadParts, LoadAfter DEF Load
<1> QED BY <1>2, <1>7 DEF LoadBound

LEMMA LoadClient ==
  ASSUME SdoInv, SdoInv', LoadBound, ClientMoved
  PROVE  LoadBound'
<1>1. toSrv \in Seq(CliFrame) /\ AbortMsg \in CliFrame /\ ~Live(AbortMsg)
  BY AbortMessage DEF SdoInv, BusTyped, AbortMsg, Msg, Live
<1>2. UNCHANGED <<srv, toCli>>
  BY DEF ClientMoved, ServerSame
<1>3. /\ One(Live(srv.rx))' = One(Live(srv.rx)) /\ One(srv.internal)' = One(srv.internal)
      /\ One(cli.rx # None)' = 0 /\ (cli.rx # None => One(cli.rx # None) = 1)
  BY <1>2 DEF One, Live, ClientMoved, Ends, Asks
<1>4. CASE Ends
  <2>1. Requests' <= Requests
    <3>1. One(Live(AbortMsg)) = 0
      BY <1>1 DEF One
    <3>2. Cardinality(LiveIn(Put(toSrv, AbortMsg))) <= Requests + 0
      BY <1>1, <3>1, LivePut DEF Requests
    <3>3. CASE toSrv' = toSrv
      BY <3>3, LoadParts DEF Requests, LiveIn
    <3>4. CASE toSrv' = Put(toSrv, AbortMsg)
      <4>1. Requests' = Cardinality(LiveIn(Put(toSrv, AbortMsg)))
        BY <3>4 DEF Requests, LiveIn
      <4> QED BY <3>2, <4>1, LoadParts
    <3> QED BY <1>4, <3>3, <3>4 DEF Ends
  <2>2. Load \in Nat /\ Load' \in Nat
    BY LoadParts, LoadAfter DEF Load
  <2>3. Load <= 2
    BY <2>2 DEF LoadBound
  <2>4. Load' <= 1
    BY <1>2, <1>3, <1>4, <2>1, <2>3, LoadParts, LoadAfter DEF Load, Ends
  <2> QED BY <2>2, <2>4 DEF LoadBound
<1>5. ASSUME NEW m, Asks(m) PROVE LoadBound'
  <2>1. Requests' <= Requests + 1
    <3>1. Cardinality(LiveIn(Put(toSrv, m))) <= Requests + One(Live(m))
      BY <1>1, <1>5, LivePut DEF Requests, Asks
    <3>2. Requests' = Cardinality(LiveIn(Put(toSrv, m))) /\ One(Live(m)) \in {0, 1}
      BY <1>5 DEF Requests, LiveIn, Asks, One
    <3> QED BY <3>1, <3>2, LoadParts, LoadAfter
  <2>2. Waiting' /\ (~Waiting \/ cli.rx # None)
    BY <1>5 DEF Waiting, Asks
  <2>3. Load \in Nat /\ Load' \in Nat
    BY LoadParts, LoadAfter DEF Load
  <2>4. CASE ~Waiting
    <3>1. Load <= 1
      BY <2>4 DEF LoadBound
    <3>2. Load' <= 2
      BY <1>2, <1>3, <2>1, <3>1, LoadParts, LoadAfter DEF Load
    <3> QED BY <2>2, <3>2 DEF LoadBound
  <2>5. CASE cli.rx # None
    <3>1. Load <= 2
      BY <2>3 DEF LoadBound
    <3>2. Load' <= 2
      BY <1>2, <1>3, <2>1, <2>5, <3>1, LoadParts, LoadAfter DEF Load
    <3> QED BY <2>2, <3>2 DEF LoadBound
  <2> QED BY <2>2, <2>4, <2>5
<1> QED BY <1>4, <1>5 DEF ClientMoved

LEMMA LoadBus ==
  ASSUME SdoInv, SdoInv', LoadBound, DeliverSrv \/ DeliverCli \/ LoseSrv \/ LoseCli
  PROVE  LoadBound'
<1>1. toSrv \in Seq(CliFrame) /\ toCli \in Seq(SrvFrame)
  BY DEF SdoInv, BusTyped
<1>2. cli \in CliRecord /\ Nearer \in CliRecord /\ Nearer.rx = cli.rx /\ Nearer.state = cli.state
      /\ srv \in SrvRecord
  BY CliFields, NearerFields, ServerFields DEF SdoInv
<1>3. ASSUME toSrv # <<>>, toSrv' = Tail(toSrv)
      PROVE  Requests' + One(Live(Head(toSrv))) <= Requests
  BY <1>1, <1>3, LiveTail DEF Requests, LiveIn
<1>4. (toSrv' = toSrv) => Requests' = Requests
  BY DEF Requests, LiveIn
<1>5. toCli # <<>> /\ toCli' = Tail(toCli) => Len(toCli') = Len(toCli) - 1
  BY <1>1, TailAt
<1>6. \A m : One(Live(m)) \in {0, 1}
  BY DEF One
<1>7. Load \in Nat /\ Load' \in Nat
  <2>1. Load \in Nat
    BY LoadParts DEF Load
  <2>2. Load' \in Nat
    BY LoadAfter DEF Load
  <2> QED BY <2>1, <2>2
<1>8. CASE DeliverSrv
  <2>1. /\ srv'.internal = srv.internal /\ cli' = cli /\ toCli' = toCli
        /\ srv'.rx = None \/ srv'.rx = Head(toSrv)
    BY <1>2, <1>8 DEF DeliverSrv, SrvRecord
  <2>2. One(Live(srv.rx))' <= One(Live(Head(toSrv)))
    BY <1>6, <2>1 DEF One, Live
  <2>3. One(srv.internal)' = One(srv.internal) /\ One(cli.rx # None)' = One(cli.rx # None)
    BY <2>1 DEF One
  <2>4. Load' <= Load
    BY <1>3, <1>6, <1>8, <2>1, <2>2, <2>3, LoadParts, LoadAfter DEF Load, DeliverSrv
  <2> QED BY <1>7, <2>1, <2>4 DEF LoadBound, Waiting
<1>9. CASE DeliverCli
  <2>1. srv' = srv /\ toSrv' = toSrv /\ cli'.state = cli.state
    BY <1>2, <1>9 DEF DeliverCli, CliRecord
  <2>2. One(Live(srv.rx))' = One(Live(srv.rx)) /\ One(srv.internal)' = One(srv.internal)
    BY <2>1 DEF One, Live
  <2>3. Load' <= Load
    BY <1>4, <1>5, <1>9, <2>1, <2>2, LoadParts, LoadAfter DEF Load, DeliverCli
  <2> QED BY <1>7, <2>1, <2>3 DEF LoadBound, Waiting
<1>10. CASE LoseSrv \/ LoseCli
  <2>1. srv' = srv /\ cli'.state = cli.state /\ cli'.rx = cli.rx
    BY <1>2, <1>10 DEF LoseSrv, LoseCli
  <2>2. /\ One(Live(srv.rx))' = One(Live(srv.rx)) /\ One(srv.internal)' = One(srv.internal)
        /\ One(cli.rx # None)' = One(cli.rx # None)
    BY <2>1 DEF One, Live
  <2>3. Requests' <= Requests /\ Len(toCli') <= Len(toCli)
    <3>1. CASE LoseSrv
      <4>1. Requests' + One(Live(Head(toSrv))) <= Requests /\ One(Live(Head(toSrv))) \in {0, 1}
        BY <1>3, <1>6, <3>1 DEF LoseSrv
      <4> QED BY <3>1, <4>1, LoadParts, LoadAfter DEF LoseSrv
    <3>2. CASE LoseCli
      BY <1>4, <1>5, <3>2, LoadParts, LoadAfter DEF LoseCli
    <3> QED BY <1>10, <3>1, <3>2
  <2>4. Load' <= Load
    BY <2>2, <2>3, LoadParts, LoadAfter DEF Load
  <2> QED BY <1>7, <2>1, <2>4 DEF LoadBound, Waiting
<1> QED BY <1>8, <1>9, <1>10

(* What is left when the client gives up, when the server restarts and when   *)
(* nothing is under way.                                                      *)
LEMMA LoadLeft ==
  ASSUME SdoInv, SdoInv', toSrv' = <<>>, srv'.rx = None, ~srv'.internal,
         (toCli' = <<>>) \/ (cli'.rx = None /\ Len(toCli') <= 1)
  PROVE  LoadBound'
<1>1. Requests' = 0
  <2>1. Requests' = Cardinality(LiveIn(<<>>))
    BY DEF Requests, LiveIn
  <2> QED BY <2>1, LiveEmpty
<1>2. One(Live(srv.rx))' = 0 /\ One(srv.internal)' = 0 /\ (cli'.rx = None => One(cli.rx # None)' = 0)
  BY DEF One, Live
<1>3. (toCli' = <<>>) => Len(toCli') = 0
  OBVIOUS
<1>4. Load' <= 1 /\ Load' \in Nat
  BY <1>1, <1>2, <1>3, LoadAfter DEF Load
<1> QED BY <1>4 DEF LoadBound

LEMMA LoadNext ==
  ASSUME SdoInv, SdoInv', Storage, [Next]_vars, Steady', Steady => LoadBound
  PROVE  LoadBound'
<1>1. Steady \/ (Start /\ Quiescent)
  BY SteadyBefore
<1>2. CASE Start
  <2>1. cli.state = "idle" /\ cli.rx = None /\ cli'.rx = None /\ cli'.state \in {"dlReq", "ulReq"}
        /\ UNCHANGED <<srv, toSrv, toCli>>
    <3>1. cli.state = "idle" /\ cli \in CliRecord /\ cli.rx = None
      BY <1>2, SteadyBefore, CliFields DEF SdoInv
    <3> QED BY <1>2, <3>1 DEF Start, CliRecord
  <2>2. CASE Quiescent
    BY <2>1, <2>2, LoadLeft DEF Quiescent
  <2>3. CASE Steady
    <3>1. Load' = Load
      BY <2>1 DEF Load, Requests, LiveIn, Live, One
    <3> QED BY <2>1, <2>3, <3>1 DEF LoadBound, Waiting
  <2> QED BY <1>1, <2>2, <2>3
<1>3. CASE ClientTimeout
  <2>1. /\ toSrv = <<>> /\ srv.rx = None /\ Len(toCli) <= 1 /\ ~srv.internal /\ cli'.rx = None
        /\ UNCHANGED <<srv, toSrv, toCli>>
    BY <1>3, SteadyBefore, CliEnded DEF ClientTimeout, ServerSame
  <2> QED BY <2>1, LoadLeft
<1>4. CASE ClientStep
  BY <1>1, <1>2, <1>4, ClientMoves, LoadClient
<1>5. CASE SrvTimeout \/ SrvStep
  BY <1>1, <1>2, <1>5, ServerMoves, LoadServer
<1>6. CASE SrvRestarts
  <2>1. toSrv' = <<>> /\ toCli' = <<>> /\ srv'.rx = None /\ ~srv'.internal
    BY <1>6 DEF SrvRestarts, Initial, IdleServer
  <2> QED BY <2>1, LoadLeft
<1>7. CASE DeliverSrv \/ DeliverCli \/ LoseSrv \/ LoseCli
  BY <1>1, <1>2, <1>7, LoadBus
<1>8. CASE UNCHANGED vars
  BY <1>1, <1>2, <1>8 DEF vars, LoadBound, Waiting, Load, Requests, LiveIn, Live, One
<1> QED BY <1>2, <1>3, <1>4, <1>5, <1>6, <1>7, <1>8 DEF Next

-----------------------------------------------------------------------------
(* The last answer on its way is of the transfer the server is in, if it is   *)
(* in one whose write is not about to be confirmed.                           *)
Confirms == srv.state \in {"dlRsp", "dlSeg"} /\ srv.internal
Agrees(m) ==
  \/ srv.state \in {"idle", "dead"} \/ Confirms
  \/ m.cs = "ulInitRsp" /\ srv.state = "ulSeg" /\ srv.obj = m.obj
  \/ m.cs \notin {"ulInitRsp", "abort"}
Last == toCli[Len(toCli)]
LastAgrees == toCli # <<>> => Agrees(Last)

LEMMA LastServer ==
  ASSUME SdoInv, ChanMax >= 2, LoadBound, LastAgrees, ServerMoved
  PROVE  LastAgrees'
<1>1. CASE Rests \/ Refuses \/ ConfirmsNow \/ StillConfirms
  BY <1>1 DEF Rests, Refuses, ConfirmsNow, StillConfirms, LastAgrees, Agrees, Confirms
<1>2. CASE TakesDown
  <2>1. CASE srv'.internal /\ srv'.state \in {"dlRsp", "dlSeg"}
    BY <2>1 DEF LastAgrees, Agrees, Confirms
  <2>2. CASE \E m : m.cs \in {"dlInitRsp", "dlSegRsp"} /\ Says(m)
    <3>1. PICK m : m.cs \in {"dlInitRsp", "dlSegRsp"} /\ Says(m)
      BY <2>2
    <3>2. Last' = m
      BY <1>2, <3>1, Room DEF TakesDown, Last
    <3> QED BY <3>1, <3>2 DEF LastAgrees, Agrees
  <2> QED BY <1>2, <2>1, <2>2 DEF TakesDown
<1>3. CASE TakesUpInit
  <2>1. PICK m : m.cs = "ulInitRsp" /\ m.obj = srv.rx.obj /\ Says(m)
    BY <1>3 DEF TakesUpInit
  <2>2. Last' = m
    BY <1>3, <2>1, Room DEF TakesUpInit, Last
  <2> QED BY <1>3, <2>1, <2>2 DEF TakesUpInit, LastAgrees, Agrees
<1>4. CASE TakesUpSeg
  <2>1. PICK m : m.cs = "ulSegRsp" /\ Says(m)
    BY <1>4 DEF TakesUpSeg
  <2>2. Last' = m
    BY <1>4, <2>1, Room DEF TakesUpSeg, Last
  <2> QED BY <2>1, <2>2 DEF LastAgrees, Agrees
<1> QED BY <1>1, <1>2, <1>3, <1>4 DEF ServerMoved, Moves

LEMMA LastTail ==
  ASSUME SdoInv, toCli # <<>>, toCli' = Tail(toCli)
  PROVE  toCli' # <<>> => Last' = Last /\ Len(toCli) > 1
BY TailAt DEF SdoInv, BusTyped, Last

LEMMA LastNext ==
  ASSUME SdoInv, Storage, [Next]_vars, Steady', ChanMax >= 2, Steady => LoadBound /\ LastAgrees
  PROVE  LastAgrees'
<1>1. Steady \/ (Start /\ Quiescent)
  BY SteadyBefore
<1>2. CASE Start \/ ClientTimeout \/ ClientStep \/ UNCHANGED vars
  <2>1. UNCHANGED <<srv, toCli>>
    BY <1>2, ClientMoves DEF Start, ClientTimeout, ClientMoved, ServerSame, vars
  <2>2. toCli = <<>> \/ LastAgrees
    BY <1>1 DEF Quiescent
  <2> QED BY <2>1, <2>2 DEF LastAgrees, Agrees, Confirms, Last
<1>3. CASE ~Start /\ (SrvTimeout \/ SrvStep)
  BY <1>1, <1>3, ServerMoves, LastServer
<1>4. CASE ~Start /\ SrvRestarts
  BY <1>4 DEF SrvRestarts, LastAgrees
<1>5. CASE ~Start /\ (DeliverSrv \/ LoseSrv)
  <2>1. srv \in SrvRecord
    BY ServerFields DEF SdoInv
  <2>2. srv'.state = srv.state /\ srv'.obj = srv.obj /\ srv'.internal = srv.internal /\ toCli' = toCli
    BY <1>5, <2>1 DEF DeliverSrv, LoseSrv, SrvRecord
  <2> QED BY <1>1, <1>5, <2>2 DEF LastAgrees, Agrees, Confirms, Last
<1>6. CASE ~Start /\ (DeliverCli \/ LoseCli)
  <2>1. srv' = srv /\ toCli # <<>> /\ toCli' = Tail(toCli) /\ LastAgrees
    BY <1>1, <1>6 DEF DeliverCli, LoseCli
  <2> QED BY <2>1, LastTail DEF LastAgrees, Agrees, Confirms
<1> QED BY <1>2, <1>3, <1>4, <1>5, <1>6 DEF Next

-----------------------------------------------------------------------------
(* A client that has asked for an upload.  Of the two frames that may be on   *)
(* their way round, the younger one is its own request, or the answer to it:  *)
(* by the time an answer of its own object is heard the server serves that.   *)
OwnReq(m) == m.cs = "ulInit" /\ m.obj = req.obj
OwnAns(m) == m.cs = "abort" \/ (m.cs = "ulInitRsp" /\ m.obj = req.obj)
OwnOnBus == \A i \in 1..Len(toSrv) : Live(toSrv[i]) => OwnReq(toSrv[i])
Answers == cli.rx # None \/ toCli # <<>>
Serves == srv.state \in {"idle", "dead"} \/ (srv.state = "ulSeg" /\ srv.obj = req.obj)

OwnAtServer == Live(srv.rx) => OwnReq(srv.rx)
OwnSecond == \A i, j \in 1..Len(toSrv) : i < j /\ Live(toSrv[i]) /\ Live(toSrv[j]) => OwnReq(toSrv[j])
Two == (cli.rx # None /\ toCli # <<>>) \/ Len(toCli) > 1
OwnLast == Two => OwnAns(Last)

YoungerOwn ==
  /\ Answers \/ srv.internal => OwnAtServer /\ OwnOnBus
  /\ Live(srv.rx) => OwnOnBus
  /\ OwnSecond
  /\ Answers => ~Confirms
  /\ OwnLast
HeardServed == cli.rx # None /\ cli.rx.cs = "ulInitRsp" /\ cli.rx.obj = req.obj => Serves
Requested == cli.state = "ulRsp" => YoungerOwn /\ HeardServed

LEMMA RequestedServer ==
  ASSUME SdoInv, ChanMax >= 2, LoadBound, YoungerOwn, HeardServed, ServerMoved
  PROVE  YoungerOwn' /\ HeardServed'
<1>1. UNCHANGED <<cli, req, toSrv>> /\ srv'.rx = None
  BY DEF ServerMoved, ClientSame, Moves, Rests, Refuses, TakesDown, ConfirmsNow, StillConfirms,
     TakesUpInit, TakesUpSeg
<1>2. (OwnOnBus => OwnOnBus') /\ OwnSecond' /\ OwnAtServer' /\ ~Live(srv.rx)'
  BY <1>1 DEF YoungerOwn, OwnOnBus, OwnSecond, OwnAtServer, OwnReq, Live
<1>3. Answers \/ srv.internal \/ Live(srv.rx) => OwnOnBus
  BY DEF YoungerOwn
<1>4. toCli \in Seq(SrvFrame) /\ Len(toCli) \in Nat /\ (toCli = <<>> <=> Len(toCli) = 0)
  BY DEF SdoInv, BusTyped
<1>5. ASSUME toCli' = toCli, srv'.internal => OwnOnBus, Answers => ~Confirms', HeardServed'
      PROVE  YoungerOwn' /\ HeardServed'
  <2>1. Answers' <=> Answers
    BY <1>1, <1>5 DEF Answers
  <2>2. Answers' \/ srv'.internal => OwnOnBus'
    BY <1>2, <1>3, <1>5, <2>1
  <2>3. OwnLast'
    BY <1>1, <1>5 DEF YoungerOwn, OwnLast, Two, OwnAns, Last
  <2> QED BY <1>2, <1>5, <2>1, <2>2, <2>3 DEF YoungerOwn
<1>6. ASSUME NEW m, Says(m), Live(srv.rx) \/ srv.internal, ~Confirms', Answers => OwnAns(m), HeardServed'
      PROVE  YoungerOwn' /\ HeardServed'
  <2>1. Last' = m /\ Len(toCli') = Len(toCli) + 1 /\ toCli' # <<>>
    BY <1>6, Room DEF Last
  <2>2. OwnOnBus'
    BY <1>2, <1>3, <1>6
  <2>3. Two' => Answers
    BY <1>1, <1>4, <2>1 DEF Answers, Two
  <2>4. OwnLast'
    BY <1>1, <1>6, <2>1, <2>3 DEF OwnLast, OwnAns
  <2> QED BY <1>2, <1>6, <2>2, <2>4 DEF YoungerOwn
<1>7. Live(srv.rx) /\ (Answers \/ srv.internal) => OwnReq(srv.rx)
  BY DEF YoungerOwn, OwnAtServer
<1>8. srv'.state \in {"idle", "dead"} => HeardServed' /\ ~Confirms'
  BY DEF HeardServed, Serves, Confirms
<1>9. ~Answers => HeardServed'
  BY <1>1 DEF HeardServed, Answers
<1>10. OwnAns(AbortMsg)
  BY DEF OwnAns, AbortMsg, Msg
<1>11. CASE Rests
  BY <1>3, <1>5, <1>8, <1>11 DEF Rests
<1>12. CASE Refuses
  BY <1>6, <1>8, <1>10, <1>12 DEF Refuses
<1>13. CASE TakesDown
  <2>1. ~Answers
    BY <1>7, <1>13 DEF TakesDown, OwnReq
  <2>2. CASE srv'.internal /\ toCli' = toCli
    BY <1>3, <1>5, <1>9, <1>13, <2>1, <2>2 DEF TakesDown
  <2>3. CASE ~srv'.internal /\ (\E m : Says(m))
    BY <1>6, <1>9, <1>13, <2>1, <2>3 DEF TakesDown, Confirms
  <2> QED BY <1>13, <2>2, <2>3 DEF TakesDown
<1>14. CASE ConfirmsNow \/ StillConfirms
  <2>1. srv.internal /\ Unread
    BY <1>14 DEF ConfirmsNow, StillConfirms
  <2>2. Confirms
    BY <1>7, <2>1 DEF Unread, Confirms, OwnReq
  <2>3. ~Answers
    BY <2>2 DEF YoungerOwn
  <2>4. CASE toCli' = toCli
    BY <1>3, <1>5, <1>9, <2>1, <2>3, <2>4
  <2>5. CASE ConfirmsNow /\ (\E m : Says(m))
    BY <1>6, <1>9, <2>1, <2>3, <2>5 DEF ConfirmsNow, Confirms
  <2> QED BY <1>14, <2>4, <2>5 DEF ConfirmsNow, StillConfirms
<1>15. CASE TakesUpInit
  <2>1. PICK m : m.cs = "ulInitRsp" /\ m.obj = srv.rx.obj /\ Says(m)
    BY <1>15 DEF TakesUpInit
  <2>2. Answers => OwnAns(m) /\ srv.rx.obj = req.obj
    BY <1>7, <1>15, <2>1 DEF TakesUpInit, OwnReq, OwnAns
  <2>3. ~Confirms'
    BY <1>15 DEF TakesUpInit, Confirms
  <2>4. HeardServed'
    BY <1>1, <1>9, <1>15, <2>2 DEF TakesUpInit, HeardServed, Serves
  <2> QED BY <1>6, <1>15, <2>1, <2>2, <2>3, <2>4 DEF TakesUpInit
<1>16. CASE TakesUpSeg
  <2>1. PICK m : m.cs = "ulSegRsp" /\ Says(m)
    BY <1>16 DEF TakesUpSeg
  <2>2. ~Answers
    BY <1>7, <1>16 DEF TakesUpSeg, OwnReq
  <2>3. ~Confirms'
    BY <1>16 DEF TakesUpSeg, Confirms
  <2> QED BY <1>6, <1>9, <1>16, <2>1, <2>2, <2>3 DEF TakesUpSeg
<1> QED BY <1>11, <1>12, <1>13, <1>14, <1>15, <1>16 DEF ServerMoved, Moves

(* The request goes out over one frame at most.                               *)
LEMMA RequestedAsks ==
  ASSUME SdoInv, LoadBound, cli.state = "ulReq", ClientMoved, cli'.state = "ulRsp"
  PROVE  YoungerOwn' /\ HeardServed'
<1>1. /\ UNCHANGED <<srv, toCli, req>> /\ cli'.rx = None /\ toSrv' = Put(toSrv, UpRequest)
      /\ toSrv \in Seq(CliFrame) /\ Len(toSrv) \in Nat /\ Len(toCli) \in Nat
  BY DEF ClientMoved, ServerSame, Ends, Asks, SdoInv, BusTyped
<1>2. Load <= 1
  BY DEF LoadBound, Waiting
<1>3. OwnReq(UpRequest)
  BY DEF OwnReq, UpRequest, Msg
<1>4. \A m : m.cs = "ulInit" /\ m.obj = req'.obj <=> OwnReq(m)
  BY <1>1 DEF OwnReq
<1>5. \A i \in 1..Len(toSrv') : (i \in 1..Len(toSrv) /\ toSrv'[i] = toSrv[i]) \/ (i > Len(toSrv) /\ toSrv'[i] = UpRequest)
  <2>1. CASE toSrv' = toSrv
    BY <1>1, <2>1
  <2>2. CASE /\ Len(toSrv') = Len(toSrv) + 1 /\ toSrv'[Len(toSrv) + 1] = UpRequest
             /\ \A i \in 1..Len(toSrv) : toSrv'[i] = toSrv[i]
    BY <1>1, <2>2
  <2> QED BY <1>1, <2>1, <2>2, PutAt
<1>6. toCli # <<>> \/ srv.internal \/ Live(srv.rx) =>
        OwnOnBus' /\ (toCli # <<>> \/ srv.internal => ~Live(srv.rx))
  <2>1. ASSUME toCli # <<>> \/ srv.internal \/ Live(srv.rx)
        PROVE  (\A i \in 1..Len(toSrv) : ~Live(toSrv[i])) /\ (toCli # <<>> \/ srv.internal => ~Live(srv.rx))
    BY <1>2, <2>1, LoadFull
  <2> QED BY <1>3, <1>4, <1>5, <2>1 DEF OwnOnBus, OwnReq, Live
<1>7. OwnSecond'
  <2>1. \A i, j \in 1..Len(toSrv) : Live(toSrv[i]) /\ Live(toSrv[j]) => i = j
    BY <1>2, LoadFull
  <2>2. ASSUME NEW i \in 1..Len(toSrv'), NEW j \in 1..Len(toSrv'), i < j, Live(toSrv'[i]), Live(toSrv'[j])
        PROVE  toSrv'[j] = UpRequest
    <3>1. i \in Int /\ j \in Int
      BY <1>1, PutAt
    <3>2. CASE j > Len(toSrv)
      BY <1>1, <1>5, <3>2
    <3>3. CASE ~(j > Len(toSrv))
      <4>1. ~(i > Len(toSrv))
        BY <1>1, <2>2, <3>1, <3>3
      <4>2. i \in 1..Len(toSrv) /\ j \in 1..Len(toSrv) /\ toSrv'[i] = toSrv[i] /\ toSrv'[j] = toSrv[j]
        BY <1>5, <3>3, <4>1
      <4> QED BY <2>1, <2>2, <3>1, <4>2
    <3> QED BY <3>2, <3>3
  <2> QED BY <1>3, <1>4, <2>2 DEF OwnSecond, OwnReq, Live
<1>8. Answers' => toCli # <<>>
  BY <1>1 DEF Answers
<1>9. toCli # <<>> => ~Confirms'
  BY <1>1, <1>2, LoadFull DEF Confirms
<1>10. ~Two'
  BY <1>1, <1>2, LoadFull DEF Two
<1>11. (toCli # <<>> \/ srv.internal => OwnAtServer') /\ HeardServed' /\ (Live(srv.rx)' => Live(srv.rx))
  BY <1>1, <1>6 DEF OwnAtServer, HeardServed, Live
<1>12. OwnLast'
  BY <1>10 DEF OwnLast
<1> QED BY <1>1, <1>6, <1>7, <1>8, <1>9, <1>11, <1>12 DEF YoungerOwn

LEMMA RequestedToServer ==
  ASSUME SdoInv, YoungerOwn, HeardServed, DeliverSrv \/ LoseSrv
  PROVE  YoungerOwn' /\ HeardServed'
<1>1. srv \in SrvRecord /\ toSrv \in Seq(CliFrame) /\ toSrv # <<>> /\ toSrv' = Tail(toSrv) /\ UNCHANGED <<cli, req, toCli>>
  BY ServerFields DEF SdoInv, BusTyped, DeliverSrv, LoseSrv
<1>2. /\ srv'.state = srv.state /\ srv'.obj = srv.obj /\ srv'.internal = srv.internal
      /\ srv'.rx = srv.rx \/ srv'.rx = None \/ srv'.rx = Head(toSrv)
  BY <1>1 DEF DeliverSrv, LoseSrv, SrvRecord
<1>3. /\ Len(toSrv) \in Nat /\ Len(toSrv) >= 1 /\ Len(toSrv') = Len(toSrv) - 1 /\ Head(toSrv) = toSrv[1]
      /\ \A i \in 1..Len(toSrv') : i + 1 \in 1..Len(toSrv) /\ toSrv'[i] = toSrv[i + 1] /\ 1 < i + 1
  BY <1>1, TailAt
<1>4. OwnOnBus => OwnOnBus' /\ (Live(Head(toSrv)) => OwnReq(Head(toSrv)))
  BY <1>1, <1>3 DEF OwnOnBus, OwnReq
<1>5. Live(Head(toSrv)) => OwnOnBus'
  <2>1. ASSUME Live(Head(toSrv)), NEW i \in 1..Len(toSrv'), Live(toSrv'[i])
        PROVE  OwnReq(toSrv'[i])
    <3>1. 1 \in 1..Len(toSrv) /\ i + 1 \in 1..Len(toSrv) /\ 1 < i + 1
      BY <1>3
    <3> QED BY <1>3, <2>1, <3>1 DEF YoungerOwn, OwnSecond
  <2> QED BY <1>1, <2>1 DEF OwnOnBus, OwnReq, Live
<1>6. OwnSecond'
  <2>1. ASSUME NEW i \in 1..Len(toSrv'), NEW j \in 1..Len(toSrv'), i < j, Live(toSrv'[i]), Live(toSrv'[j])
        PROVE  OwnReq(toSrv'[j])
    <3>1. i + 1 < j + 1 /\ i + 1 \in 1..Len(toSrv) /\ j + 1 \in 1..Len(toSrv)
      BY <1>3, <2>1
    <3> QED BY <1>3, <2>1, <3>1 DEF YoungerOwn, OwnSecond
  <2> QED BY <1>1, <2>1 DEF OwnSecond, OwnReq, Live
<1>7. ~Live(None)
  BY DEF Live
<1>8. (Answers' <=> Answers) /\ (Confirms' <=> Confirms)
  BY <1>1, <1>2 DEF Answers, Confirms
<1>9. HeardServed' /\ OwnLast'
  BY <1>1, <1>2 DEF HeardServed, Serves, YoungerOwn, OwnLast, Two, OwnAns, Last
<1>10. Answers' \/ srv'.internal => OwnAtServer' /\ OwnOnBus'
  <2>1. ASSUME Answers \/ srv.internal PROVE OwnAtServer' /\ OwnOnBus'
    <3>1. OwnOnBus /\ OwnAtServer
      BY <2>1 DEF YoungerOwn
    <3>2. CASE srv'.rx = None
      BY <1>4, <1>7, <3>1, <3>2 DEF OwnAtServer, Live
    <3>3. CASE srv'.rx = srv.rx
      BY <1>1, <1>4, <3>1, <3>3 DEF OwnAtServer, OwnReq, Live
    <3>4. CASE srv'.rx = Head(toSrv)
      BY <1>1, <1>4, <3>1, <3>4 DEF OwnAtServer, OwnReq, Live
    <3> QED BY <1>2, <3>2, <3>3, <3>4
  <2> QED BY <1>2, <1>8, <2>1
<1>11. Live(srv.rx)' => OwnOnBus'
  <2>1. Live(srv.rx)' => Live(srv'.rx)
    BY DEF Live
  <2>2. Live(srv'.rx) => Live(srv.rx) \/ Live(Head(toSrv))
    BY <1>2, <1>7
  <2> QED BY <1>4, <1>5, <2>1, <2>2 DEF YoungerOwn
<1> QED BY <1>6, <1>8, <1>9, <1>10, <1>11 DEF YoungerOwn

LEMMA RequestedToClient ==
  ASSUME SdoInv, LastAgrees, YoungerOwn, HeardServed, DeliverCli \/ LoseCli, cli.state = "ulRsp"
  PROVE  YoungerOwn' /\ HeardServed'
<1>1. /\ cli \in CliRecord /\ Nearer \in CliRecord /\ Nearer.rx = cli.rx
      /\ toCli \in Seq(SrvFrame) /\ toCli # <<>> /\ toCli' = Tail(toCli) /\ UNCHANGED <<srv, req, toSrv>>
  BY CliFields, NearerFields DEF SdoInv, BusTyped, DeliverCli, LoseCli
<1>2. (LoseCli /\ cli'.rx = cli.rx) \/ (DeliverCli /\ cli'.rx = Head(toCli))
  BY <1>1 DEF DeliverCli, LoseCli, CliRecord
<1>3. Answers /\ (toCli' # <<>> => Last' = Last /\ Len(toCli) > 1) /\ Len(toCli) \in Nat /\ Len(toCli') = Len(toCli) - 1
      /\ (toCli' = <<>> => Head(toCli) = Last)
  <2>1. toCli' # <<>> => Last' = Last /\ Len(toCli) > 1
    BY <1>1, LastTail
  <2>2. Len(toCli) \in Nat /\ Len(toCli) >= 1 /\ Len(toCli') = Len(toCli) - 1 /\ Head(toCli) = toCli[1]
    BY <1>1, TailAt
  <2>3. toCli' = <<>> => Len(toCli) = 1
    <3>1. Len(<<>>) = 0
      OBVIOUS
    <3>2. toCli' = <<>> => Len(toCli') = 0
      BY <3>1, Zenon
    <3> QED BY <2>2, <3>2
  <2> QED BY <1>1, <2>1, <2>2, <2>3 DEF Answers, Last
<1>4. OwnAns(Last) => Serves
  BY <1>1, <1>3 DEF LastAgrees, Agrees, OwnAns, Serves, YoungerOwn
<1>5. HeardServed'
  <2>1. CASE LoseCli /\ cli'.rx = cli.rx
    BY <1>1, <2>1 DEF HeardServed, Serves
  <2>2. CASE cli'.rx = Head(toCli)
    <3>1. CASE toCli' = <<>>
      BY <1>1, <1>3, <1>4, <2>2, <3>1 DEF HeardServed, OwnAns, Serves
    <3>2. CASE toCli' # <<>>
      <4>1. Serves
        BY <1>3, <1>4, <3>2 DEF YoungerOwn, OwnLast, Two
      <4> QED BY <1>1, <4>1 DEF HeardServed, Serves
    <3> QED BY <3>1, <3>2
  <2> QED BY <1>2, <2>1, <2>2
<1>6. (OwnOnBus' <=> OwnOnBus) /\ (Confirms' <=> Confirms) /\ (OwnSecond => OwnSecond')
      /\ (OwnAtServer => OwnAtServer') /\ (Live(srv.rx)' <=> Live(srv.rx))
  BY <1>1 DEF OwnOnBus, OwnSecond, OwnAtServer, Confirms, OwnReq, Live
<1>7. OwnLast'
  <2>1. Len(toCli') > 1 => toCli' # <<>>
    OBVIOUS
  <2>2. Two' => Two /\ Last' = Last
    BY <1>3, <2>1 DEF Two
  <2> QED BY <1>1, <2>2 DEF YoungerOwn, OwnLast, OwnAns
<1> QED BY <1>1, <1>3, <1>5, <1>6, <1>7 DEF YoungerOwn

LEMMA RequestedNext ==
  ASSUME SdoInv, Storage, [Next]_vars, Steady', ChanMax >= 2,
         Steady => LoadBound /\ LastAgrees /\ Requested
  PROVE  Requested'
<1> SUFFICES ASSUME cli'.state = "ulRsp" PROVE YoungerOwn' /\ HeardServed'
  BY DEF Requested
<1>1. cli \in CliRecord /\ Nearer \in CliRecord /\ Nearer.state = cli.state /\ Nearer.rx = cli.rx
  BY CliFields, NearerFields DEF SdoInv
<1>2. ~Start /\ ~ClientTimeout
  <2>1. Start => cli'.state \in {"dlReq", "ulReq"}
    BY <1>1 DEF Start, CliRecord
  <2>2. ClientTimeout => cli'.state = "idle"
    BY CliEnded DEF ClientTimeout
  <2> QED BY <2>1, <2>2
<1>3. LoadBound /\ LastAgrees /\ (cli.state = "ulRsp" => YoungerOwn /\ HeardServed)
  BY <1>2, SteadyBefore DEF Requested
<1>4. CASE ClientStep
  <2>1. ClientMoved /\ cli.state = "ulReq"
    BY <1>4, ClientMoves DEF ClientMoved, Ends, Asks
  <2> QED BY <1>3, <2>1, RequestedAsks
<1>5. CASE SrvTimeout \/ SrvStep
  <2>1. ServerMoved /\ cli' = cli
    BY <1>5, ServerMoves DEF ServerMoved, ClientSame
  <2> QED BY <1>3, <2>1, RequestedServer
<1>6. CASE SrvRestarts
  <2>1. /\ cli'.rx = cli.rx /\ srv'.state = "idle" /\ srv'.rx = None /\ ~srv'.internal /\ toSrv' = <<>> /\ toCli' = <<>>
    BY <1>1, <1>6 DEF SrvRestarts, Initial, IdleServer, CliRecord
  <2> QED BY <2>1 DEF YoungerOwn, HeardServed, OwnOnBus, OwnAtServer, OwnSecond, OwnLast, Two, Answers, Confirms, Serves, Live
<1>7. CASE DeliverSrv \/ LoseSrv
  <2>1. cli' = cli
    BY <1>7 DEF DeliverSrv, LoseSrv
  <2> QED BY <1>3, <1>7, <2>1, RequestedToServer
<1>8. CASE DeliverCli \/ LoseCli
  <2>1. cli'.state = cli.state
    BY <1>1, <1>8 DEF DeliverCli, LoseCli, CliRecord
  <2> QED BY <1>3, <1>8, <2>1, RequestedToClient
<1>9. CASE UNCHANGED vars
  BY <1>3, <1>9 DEF vars, YoungerOwn, HeardServed, OwnOnBus, OwnAtServer, OwnSecond, OwnLast, Two, OwnReq, OwnAns, Last, Confirms, Serves, Answers
<1> QED BY <1>2, <1>4, <1>5, <1>6, <1>7, <1>8, <1>9 DEF Next

-----------------------------------------------------------------------------
(* A client that reads the segments of a read-only object: all that can still *)
(* reach the server are its own requests, and all that has come or will come  *)
(* is of one content.                                                         *)
Reads(m) == m.cs = "ulSeg" \/ OwnReq(m)
ReadsAtServer == Live(srv.rx) => Reads(srv.rx)
ReadsOnBus == \A i \in 1..Len(toSrv) : Live(toSrv[i]) => Reads(toSrv[i])
Uploads ==
  \/ srv.state = "ulSeg" \/ (Live(srv.rx) /\ srv.rx.cs = "ulInit")
  \/ \E i \in 1..Len(toSrv) : Live(toSrv[i]) /\ toSrv[i].cs = "ulInit"
Tells(m, d) == m.cs = "ulSegRsp" => m.val = d
ToldOnBus(d) == \A i \in 1..Len(toCli) : Tells(toCli[i], d)

ReadsOne(d) ==
  /\ ReadsAtServer /\ ReadsOnBus /\ Serves
  /\ \A i \in 1..cli.off : buf[i] = d
  /\ cli.rx # None => Tells(cli.rx, d)
  /\ ToldOnBus(d)
  /\ Uploads => od[req.obj] = Whole(d)
Reading == cli.state = "ulSeg" /\ req.obj \in ReadOnly => \E d \in Data : ReadsOne(d)

LEMMA ReadingServer ==
  ASSUME SdoInv, req.obj \in ReadOnly, NEW d \in Data, ReadsOne(d), ServerMoved
  PROVE  ReadsOne(d)'
<1>1. UNCHANGED <<cli, req, buf, toSrv>> /\ srv'.rx = None /\ ReadOnlyKept
  BY DEF ServerMoved, ClientSame, Moves, Rests, Refuses, TakesDown, ConfirmsNow, StillConfirms,
     TakesUpInit, TakesUpSeg
<1>2. ReadsAtServer' /\ ReadsOnBus' /\ od'[req'.obj] = od[req.obj] /\ ~Live(srv.rx)'
  BY <1>1 DEF ReadsOne, ReadsAtServer, ReadsOnBus, Reads, OwnReq, Live, ReadOnlyKept
<1>3. (\A i \in 1..cli'.off : buf'[i] = d) /\ (cli'.rx # None => Tells(cli'.rx, d))
  BY <1>1 DEF ReadsOne
<1>4. Uploads' => Uploads \/ srv'.state = "ulSeg"
  BY <1>1, <1>2 DEF Uploads, Live
<1>5. ASSUME toCli' = toCli \/ (\E m : Says(m) /\ Tells(m, d)) PROVE ToldOnBus(d)'
  <2>1. toCli \in Seq(SrvFrame) /\ Len(toCli) \in Nat /\ \A i \in 1..Len(toCli) : Tells(toCli[i], d)
    BY DEF SdoInv, BusTyped, ReadsOne, ToldOnBus
  <2>2. CASE toCli' = toCli
    BY <2>1, <2>2 DEF ToldOnBus, Tells
  <2>3. ASSUME NEW m, Says(m), Tells(m, d) PROVE ToldOnBus(d)'
    <3>1. toCli' = Put(toCli, m)
      BY <2>3 DEF Says
    <3>2. CASE /\ Len(toCli') = Len(toCli) + 1 /\ toCli'[Len(toCli) + 1] = m
               /\ \A i \in 1..Len(toCli) : toCli'[i] = toCli[i]
      BY <2>1, <2>3, <3>2 DEF ToldOnBus, Tells
    <3> QED BY <2>1, <2>2, <3>1, <3>2, PutAt
  <2> QED BY <1>5, <2>2, <2>3
<1>6. ASSUME Serves', toCli' = toCli \/ (\E m : Says(m) /\ Tells(m, d)),
             Uploads \/ srv'.state # "ulSeg"
      PROVE  ReadsOne(d)'
  <2>1. Uploads' => od'[req'.obj] = Whole(d)
    BY <1>2, <1>4, <1>6 DEF ReadsOne
  <2>2. (cli.rx # None => Tells(cli.rx, d))' /\ (od[req.obj] = Whole(d))' = (od'[req'.obj] = Whole(d))
    BY <1>3 DEF Tells, Whole
  <2> QED BY <1>2, <1>3, <1>5, <1>6, <2>1, <2>2 DEF ReadsOne
<1>7. CASE Rests \/ Refuses
  <2>1. Tells(AbortMsg, d)
    BY DEF Tells, AbortMsg, Msg
  <2> QED BY <1>6, <1>7, <2>1 DEF Rests, Refuses, Serves
<1>8. ~TakesDown /\ ~ConfirmsNow /\ ~StillConfirms
  BY DEF ReadsOne, ReadsAtServer, Reads, OwnReq, Serves, TakesDown, ConfirmsNow, StillConfirms, Unread
<1>9. CASE TakesUpInit
  <2>1. srv.rx.obj = req.obj /\ Uploads
    BY <1>9 DEF TakesUpInit, ReadsOne, ReadsAtServer, Reads, OwnReq, Uploads
  <2>2. Serves' /\ \E m : Says(m) /\ Tells(m, d)
    BY <1>1, <1>9, <2>1 DEF TakesUpInit, Serves, Tells
  <2> QED BY <1>6, <2>1, <2>2
<1>10. CASE TakesUpSeg
  <2>1. srv.obj = req.obj /\ Uploads /\ od[req.obj] = Whole(d)
    BY <1>10 DEF TakesUpSeg, ReadsOne, Serves, Uploads
  <2>2. \A i \in 1..Segments : od[req.obj][i] = d
    BY <2>1 DEF Whole
  <2>3. Serves' /\ \E m : Says(m) /\ Tells(m, d)
    BY <1>1, <1>10, <2>1, <2>2 DEF TakesUpSeg, Serves, Tells
  <2> QED BY <1>6, <2>1, <2>3
<1> QED BY <1>7, <1>8, <1>9, <1>10 DEF ServerMoved, Moves

(* What the client asks next adds one of its requests.                        *)
LEMMA ReadsAsked ==
  ASSUME SdoInv, ReadsOnBus, NEW m, Asks(m), m.cs = "ulSeg", UNCHANGED <<srv, req>>
  PROVE  ReadsOnBus' /\ (Uploads' => Uploads)
<1>1. toSrv \in Seq(CliFrame) /\ Len(toSrv) \in Nat /\ toSrv' = Put(toSrv, m)
  BY DEF SdoInv, BusTyped, Asks
<1>2. \A i \in 1..Len(toSrv') : (i \in 1..Len(toSrv) /\ toSrv'[i] = toSrv[i]) \/ toSrv'[i] = m
  <2>1. CASE toSrv' = toSrv
    BY <1>1, <2>1
  <2>2. CASE /\ Len(toSrv') = Len(toSrv) + 1 /\ toSrv'[Len(toSrv) + 1] = m
             /\ \A i \in 1..Len(toSrv) : toSrv'[i] = toSrv[i]
    BY <1>1, <2>2
  <2> QED BY <1>1, <2>1, <2>2, PutAt
<1>3. ReadsOnBus'
  BY <1>2 DEF ReadsOnBus, Reads, OwnReq, Live
<1>4. Uploads' => Uploads
  BY <1>2 DEF Uploads, Live
<1> QED BY <1>3, <1>4

LEMMA ReadingBegins ==
  ASSUME SdoInv, Storage, LoadBound, Requested, ClientUlInitRsp, NEW m, Asks(m), m.cs = "ulSeg",
         cli'.off = 0, req.obj \in ReadOnly
  PROVE  \E d \in Data : ReadsOne(d)'
<1>1. PICK d \in Data : od[req.obj] = Whole(d)
  BY DEF Storage, ReadOnlyWhole
<1>2. /\ cli.state = "ulRsp" /\ cli.rx # None /\ cli.rx.cs = "ulInitRsp" /\ cli.rx.obj = req.obj
      /\ UNCHANGED <<srv, od, toCli, req>> /\ cli'.rx = None
  BY DEF ClientUlInitRsp, Answered, Unfit, ServerSame, Asks
<1>3. YoungerOwn /\ Answers /\ Serves
  BY <1>2 DEF Requested, HeardServed, Answers
<1>4. ReadsAtServer' /\ ReadsOnBus
  BY <1>2, <1>3 DEF YoungerOwn, OwnAtServer, OwnOnBus, ReadsAtServer, ReadsOnBus, Reads, OwnReq, Live
<1>5. ReadsOnBus'
  BY <1>2, <1>4, ReadsAsked
<1>6. ToldOnBus(d)'
  <2>1. Len(toCli) <= 1 /\ Len(toCli) \in Nat
    <3>1. One(cli.rx # None) = 1
      BY <1>2 DEF One
    <3>2. Load <= 2
      BY LoadParts DEF LoadBound, Load
    <3> QED BY <3>1, <3>2, LoadParts DEF Load
  <2>2. ASSUME NEW i \in 1..Len(toCli) PROVE toCli[i].cs # "ulSegRsp"
    <3>1. toCli[i] = Last /\ toCli # <<>>
      BY <2>1, <2>2 DEF Last
    <3> QED BY <1>2, <1>3, <3>1 DEF YoungerOwn, OwnLast, Two, OwnAns
  <2> QED BY <1>2, <2>2 DEF ToldOnBus, Tells
<1>7. Serves' /\ od'[req'.obj] = Whole(d)
  BY <1>1, <1>2, <1>3 DEF Serves
<1>8. \A i \in 1..cli'.off : buf'[i] = d
  OBVIOUS
<1>9. ReadsOne(d)'
  BY <1>2, <1>4, <1>5, <1>6, <1>7, <1>8 DEF ReadsOne, Whole
<1> QED BY <1>9

(* The segment that is taken is of the content that is read.                  *)
LEMMA SegmentTaken ==
  ASSUME SdoInv, NEW d \in Data, ReadsOne(d), ClientUlSegRsp
  PROVE  \A i \in 1..cli.off + 1 : buf'[i] = d
<1>1. cli.rx # None /\ cli.rx.cs = "ulSegRsp" /\ buf' = [buf EXCEPT ![cli.off + 1] = cli.rx.val] /\ cli.state = "ulSeg"
  BY DEF ClientUlSegRsp, Answered, Unfit
<1>2. cli.rx.val = d /\ \A i \in 1..cli.off : buf[i] = d
  BY <1>1 DEF ReadsOne, Tells
<1>3. cli.off \in 0..Segments /\ Segments \in Nat /\ Segs(req.obj) \in 1..Segments /\ cli.off < Segs(req.obj)
      /\ buf \in [1..Segments -> Data \cup {None}]
  BY <1>1, SegsBounds, SdoAssumption DEF SdoInv, ClientInv, ClientTyped, ClientCounts
<1>4. cli.off + 1 \in 1..Segments
  BY <1>3
<1>5. ASSUME NEW i \in 1..cli.off + 1 PROVE buf'[i] = d
  <2>1. i \in 1..Segments /\ (i = cli.off + 1 \/ i \in 1..cli.off)
    BY <1>3
  <2> QED BY <1>1, <1>2, <1>3, <1>4, <2>1
<1> QED BY <1>5

LEMMA ReadingClient ==
  ASSUME SdoInv, Storage, LoadBound, Requested, Reading, ClientStep, cli'.state = "ulSeg", req'.obj \in ReadOnly
  PROVE  \E d \in Data : ReadsOne(d)'
<1>1. PICK m : Asks(m)
  BY ClientMoves DEF ClientMoved, Ends
<1>2. UNCHANGED <<srv, od, toCli, req>> /\ m.cs = "ulSeg" /\ cli'.rx = None
  BY <1>1, ClientMoves DEF ClientMoved, ServerSame, Asks
<1>3. CASE ClientUlInitRsp /\ cli'.off = 0
  BY <1>1, <1>2, <1>3, ReadingBegins
<1>4. CASE ClientUlSegRsp /\ cli'.off = cli.off + 1
  <2>1. cli.state = "ulSeg"
    BY <1>4 DEF ClientUlSegRsp, Answered
  <2>2. PICK d \in Data : ReadsOne(d)
    BY <1>2, <2>1 DEF Reading
  <2>3. \A i \in 1..cli'.off : buf'[i] = d
    BY <1>4, <2>2, SegmentTaken
  <2>4. ReadsAtServer' /\ Serves' /\ ToldOnBus(d)'
    BY <1>2, <2>2 DEF ReadsOne, ReadsAtServer, Reads, OwnReq, Live, Serves, ToldOnBus, Tells
  <2>5. ReadsOnBus' /\ (Uploads' => od'[req'.obj] = Whole(d))
    BY <1>1, <1>2, <2>2, ReadsAsked DEF ReadsOne
  <2>6. ReadsOne(d)'
    BY <1>2, <2>3, <2>4, <2>5 DEF ReadsOne, Whole
  <2> QED BY <2>6
<1> QED BY <1>1, <1>2, <1>3, <1>4 DEF Asks

LEMMA ReadingToServer ==
  ASSUME SdoInv, NEW d \in Data, ReadsOne(d), DeliverSrv \/ LoseSrv
  PROVE  ReadsOne(d)'
<1>1. /\ srv \in SrvRecord /\ toSrv \in Seq(CliFrame) /\ toSrv # <<>> /\ toSrv' = Tail(toSrv)
      /\ UNCHANGED <<cli, req, buf, od, toCli>>
  BY ServerFields DEF SdoInv, BusTyped, DeliverSrv, LoseSrv
<1>2. /\ srv'.state = srv.state /\ srv'.obj = srv.obj
      /\ srv'.rx = srv.rx \/ srv'.rx = None \/ srv'.rx = Head(toSrv)
  BY <1>1 DEF DeliverSrv, LoseSrv, SrvRecord
<1>3. /\ Head(toSrv) = toSrv[1] /\ 1 \in 1..Len(toSrv)
      /\ \A i \in 1..Len(toSrv') : \E j \in 1..Len(toSrv) : toSrv'[i] = toSrv[j]
  BY <1>1, TailAt
<1>4. ReadsOnBus' /\ (Live(Head(toSrv)) => Reads(Head(toSrv)))
  BY <1>1, <1>3 DEF ReadsOne, ReadsOnBus, Reads, OwnReq, Live
<1>5. ReadsAtServer'
  <2>1. ~Live(None)
    BY DEF Live
  <2>2. Live(srv'.rx) => Reads(srv'.rx)
    BY <1>2, <1>4, <2>1 DEF ReadsOne, ReadsAtServer
  <2> QED BY <1>1, <2>2 DEF ReadsAtServer, Reads, OwnReq, Live
<1>6. Uploads' => Uploads
  BY <1>2, <1>3 DEF Uploads, Live
<1>7. Serves' /\ ToldOnBus(d)'
  BY <1>1, <1>2 DEF ReadsOne, Serves, ToldOnBus, Tells
<1>8. (cli.rx # None => Tells(cli.rx, d))' /\ (\A i \in 1..cli'.off : buf'[i] = d)
  BY <1>1 DEF ReadsOne, Tells
<1> QED BY <1>1, <1>4, <1>5, <1>6, <1>7, <1>8 DEF ReadsOne, Whole

LEMMA ReadingToClient ==
  ASSUME SdoInv, NEW d \in Data, ReadsOne(d), DeliverCli \/ LoseCli
  PROVE  ReadsOne(d)'
<1>1. /\ cli \in CliRecord /\ Nearer \in CliRecord /\ Nearer.rx = cli.rx /\ Nearer.off = cli.off
      /\ toCli \in Seq(SrvFrame) /\ toCli # <<>> /\ toCli' = Tail(toCli) /\ UNCHANGED <<srv, req, buf, od, toSrv>>
  BY CliFields, NearerFields DEF SdoInv, BusTyped, DeliverCli, LoseCli
<1>2. cli'.off = cli.off /\ (cli'.rx = cli.rx \/ cli'.rx = None \/ cli'.rx = Head(toCli))
  BY <1>1 DEF DeliverCli, LoseCli, CliRecord
<1>3. /\ Head(toCli) = toCli[1] /\ 1 \in 1..Len(toCli)
      /\ \A i \in 1..Len(toCli') : \E j \in 1..Len(toCli) : toCli'[i] = toCli[j]
  BY <1>1, TailAt
<1>4. ToldOnBus(d)' /\ (cli'.rx # None => Tells(cli'.rx, d))
  BY <1>2, <1>3 DEF ReadsOne, ToldOnBus, Tells
<1>5. ReadsAtServer' /\ ReadsOnBus' /\ Serves' /\ (Uploads' => Uploads)
  BY <1>1 DEF ReadsOne, ReadsAtServer, ReadsOnBus, Reads, OwnReq, Live, Serves, Uploads
<1>6. (cli.rx # None => Tells(cli.rx, d))' /\ (\A i \in 1..cli'.off : buf'[i] = d)
  BY <1>1, <1>2, <1>4 DEF ReadsOne, Tells
<1> QED BY <1>1, <1>4, <1>5, <1>6 DEF ReadsOne, Whole

LEMMA ReadingNext ==
  ASSUME SdoInv, Storage, [Next]_vars, Steady', Steady => LoadBound /\ Requested /\ Reading
  PROVE  Reading'
<1> SUFFICES ASSUME cli'.state = "ulSeg", req'.obj \in ReadOnly PROVE \E d \in Data : ReadsOne(d)'
  BY DEF Reading
<1>1. cli \in CliRecord /\ Nearer \in CliRecord /\ Nearer.state = cli.state
  BY CliFields, NearerFields DEF SdoInv
<1>2. ~Start /\ ~ClientTimeout
  <2>1. Start => cli'.state \in {"dlReq", "ulReq"}
    BY <1>1 DEF Start, CliRecord
  <2>2. ClientTimeout => cli'.state = "idle"
    BY CliEnded DEF ClientTimeout
  <2> QED BY <2>1, <2>2
<1>3. LoadBound /\ Requested /\ Reading
  BY <1>2, SteadyBefore
<1>4. CASE ClientStep
  BY <1>3, <1>4, ReadingClient
<1>5. ASSUME cli'.state = cli.state, req' = req PROVE \E d \in Data : ReadsOne(d)
  BY <1>3, <1>5 DEF Reading
<1>6. CASE SrvTimeout \/ SrvStep
  <2>1. ServerMoved /\ cli' = cli /\ req' = req
    BY <1>6, ServerMoves DEF ServerMoved, ClientSame
  <2> QED BY <1>5, <2>1, ReadingServer
<1>7. CASE SrvRestarts
  <2>1. /\ cli'.rx = cli.rx /\ cli'.off = cli.off /\ cli'.state = cli.state /\ UNCHANGED <<req, buf>>
        /\ srv'.state = "idle" /\ srv'.rx = None /\ toSrv' = <<>> /\ toCli' = <<>>
    BY <1>1, <1>7 DEF SrvRestarts, Initial, IdleServer, CliRecord
  <2>2. PICK d \in Data : ReadsOne(d)
    BY <1>5, <2>1
  <2>3. ReadsAtServer' /\ ReadsOnBus' /\ Serves' /\ ~Uploads' /\ ToldOnBus(d)'
    BY <2>1 DEF ReadsAtServer, ReadsOnBus, Serves, Uploads, ToldOnBus, Live
  <2>4. (cli.rx # None => Tells(cli.rx, d))' /\ (\A i \in 1..cli'.off : buf'[i] = d)
    BY <2>1, <2>2 DEF ReadsOne, Tells
  <2>5. ReadsOne(d)'
    BY <2>3, <2>4 DEF ReadsOne
  <2> QED BY <2>5
<1>8. CASE DeliverSrv \/ LoseSrv
  <2>1. cli' = cli /\ req' = req
    BY <1>8 DEF DeliverSrv, LoseSrv
  <2> QED BY <1>5, <1>8, <2>1, ReadingToServer
<1>9. CASE DeliverCli \/ LoseCli
  <2>1. cli'.state = cli.state /\ req' = req
    BY <1>1, <1>9 DEF DeliverCli, LoseCli, CliRecord
  <2> QED BY <1>5, <1>9, <2>1, ReadingToClient
<1>10. CASE UNCHANGED vars
  <2>1. PICK d \in Data : ReadsOne(d)
    BY <1>5, <1>10 DEF vars
  <2>2. ReadsOne(d)'
    BY <1>10, <2>1 DEF vars, ReadsOne, ReadsAtServer, ReadsOnBus, Reads, OwnReq, Live, Serves,
       Uploads, ToldOnBus, Tells, Whole
  <2> QED BY <2>2
<1> QED BY <1>2, <1>4, <1>6, <1>7, <1>8, <1>9, <1>10 DEF Next

-----------------------------------------------------------------------------
(* A transfer that has ended has its status, and only a download writes.      *)
Roles ==
  /\ cli.status = "success" => cli.state = "idle"
  /\ cli.state \in {"dlReq", "dlRsp", "dlSeg"} => req.op = "down"

LEMMA RolesNext == SdoInv /\ Roles /\ [Next]_vars => Roles'
<1> SUFFICES ASSUME SdoInv, Roles, [Next]_vars PROVE Roles'
  OBVIOUS
<1>1. cli \in CliRecord /\ Nearer \in CliRecord /\ Nearer.state = cli.state /\ Nearer.status = cli.status
  BY CliFields, NearerFields DEF SdoInv
<1>2. CASE Start
  <2>1. PICK op \in {"down", "up"}, o \in Objects, d \in Data :
          /\ req' = [op |-> op, obj |-> o, val |-> d]
          /\ cli' = [cli EXCEPT !.state = IF op = "down" THEN "dlReq" ELSE "ulReq", !.status = "busy"]
    BY <1>2 DEF Start
  <2>2. cli'.status = "busy" /\ cli'.state = (IF op = "down" THEN "dlReq" ELSE "ulReq") /\ req'.op = op
    BY <1>1, <2>1 DEF CliRecord
  <2> QED BY <2>1, <2>2 DEF Roles
<1>3. CASE ClientTimeout
  BY <1>3, CliEnded DEF ClientTimeout, Roles
<1>4. CASE ClientStep
  <2>1. req' = req /\ (Ends \/ \E m : Asks(m))
    BY <1>4, ClientMoves DEF ClientMoved
  <2>2. CASE Ends
    BY <2>2 DEF Ends, Roles
  <2>3. ASSUME NEW m, Asks(m) PROVE Roles'
    BY <2>1, <2>3 DEF Asks, Roles
  <2> QED BY <2>1, <2>2, <2>3
<1>5. CASE SrvTimeout \/ SrvStep \/ DeliverSrv \/ LoseSrv
  <2>1. cli' = cli /\ req' = req
    BY <1>5 DEF SrvTimeout, SrvStep, SrvAbortFrame, SrvFirstRefused, SrvDlInit, SrvDlSeg, SrvConfirm,
       SrvProcessing, SrvUlInit, SrvUlSeg, ClientSame, DeliverSrv, LoseSrv
  <2> QED BY <2>1 DEF Roles
<1>6. CASE SrvRestarts \/ DeliverCli \/ LoseCli
  <2>1. cli'.state = cli.state /\ cli'.status = cli.status /\ req' = req
    BY <1>1, <1>6 DEF SrvRestarts, DeliverCli, LoseCli, CliRecord
  <2> QED BY <2>1 DEF Roles
<1>7. CASE UNCHANGED vars
  BY <1>7 DEF vars, Roles
<1> QED BY <1>2, <1>3, <1>4, <1>5, <1>6, <1>7 DEF Next

(* The two answers that end an upload with success.                           *)
LEMMA ShortUploaded ==
  ASSUME SdoInv, Storage, ClientUlInitRsp, req.obj \notin Long
  PROVE  OneContent'
<1>1. /\ cli.rx # None /\ cli.rx.cs = "ulInitRsp" /\ cli.rx.obj = req.obj /\ cli.state = "ulRsp"
      /\ buf' = [buf EXCEPT ![1] = cli.rx.val] /\ req' = req
  BY DEF ClientUlInitRsp, Answered, Unfit
<1>2. cli.rx.val # None
  BY <1>1 DEF Storage, AllFilled, Filled
<1>3. buf \in [1..Segments -> Data \cup {None}] /\ 1 \in 1..Segments
  BY CliFields, SdoAssumption DEF SdoInv
<1>4. buf'[1] # None
  BY <1>1, <1>2, <1>3
<1>5. 1..Segs(req'.obj) = {1}
  BY <1>1 DEF Segs
<1> QED BY <1>4, <1>5 DEF OneContent, Segs

LEMMA LongUploaded ==
  ASSUME SdoInv, Reading, req.obj \in ReadOnly, ClientUlSegRsp, cli.rx.last
  PROVE  OneContent'
<1>1. cli.state = "ulSeg" /\ Segs(req.obj) <= cli.off + 1 /\ req' = req
  BY DEF ClientUlSegRsp, Answered, Unfit
<1>2. PICK d \in Data : ReadsOne(d)
  BY <1>1 DEF Reading
<1>3. \A i \in 1..cli.off + 1 : buf'[i] = d
  BY <1>2, SegmentTaken
<1>4. Segs(req.obj) \in Nat /\ cli.off \in Nat
  BY SegsBounds, CliFields, SdoAssumption DEF SdoInv
<1>5. \A i \in 1..Segs(req.obj) : i \in 1..cli.off + 1
  BY <1>1, <1>4
<1>6. d # None
  BY SdoAssumption
<1>7. \A i, j \in 1..Segs(req.obj) : buf'[i] = buf'[j] /\ buf'[i] # None
  BY <1>3, <1>5, <1>6
<1> QED BY <1>1, <1>7 DEF OneContent, Segs

LEMMA UploadNext ==
  ASSUME SdoInv, Storage, Roles, [Next]_vars, Steady => Reading, UploadWhole
  PROVE  UploadWhole'
<1> SUFFICES ASSUME Steady', cli'.status = "success", req'.op = "up", req'.obj \in ReadOnly
             PROVE  OneContent'
  BY DEF UploadWhole, Uploaded, Succeeded, Steady
<1>1. cli \in CliRecord /\ Nearer \in CliRecord /\ Nearer.status = cli.status
  BY CliFields, NearerFields DEF SdoInv
<1>2. ~Start /\ ~ClientTimeout
  <2>1. Start => cli'.status = "busy"
    BY <1>1 DEF Start, CliRecord
  <2>2. ClientTimeout => cli'.status = "abort"
    BY CliEnded DEF ClientTimeout
  <2> QED BY <2>1, <2>2
<1>3. Steady /\ Reading
  BY <1>2, SteadyBefore
<1>4. CASE ClientStep
  <2>1. Ends /\ req' = req /\ cli.state # "idle"
    BY <1>4, ClientMoves DEF ClientMoved, Ends, Asks, Roles
  <2>2. ~(cli.state \in {"dlReq", "dlRsp", "dlSeg"})
    BY <2>1 DEF Roles
  <2>3. ~ClientAborted /\ ~ClientRefuses /\ ~ClientOutOfMem
    BY CliEnded DEF ClientAborted, ClientRefuses, ClientOutOfMem
  <2>4. ~ClientInitReq /\ ~ClientDlInitRsp /\ ~ClientDlSegRsp
    <3>1. ClientInitReq => cli'.state # "idle"
      <4>1. Timed(cli) \in CliRecord
        BY TimedFields
      <4> QED BY <4>1 DEF ClientInitReq, CliRecord
    <3> QED BY <2>1, <2>2, <3>1 DEF ClientDlInitRsp, ClientDlSegRsp, Answered, Ends
  <2>5. CASE ClientUlInitRsp
    <3>1. req.obj \notin Long
      <4>1. Timed(cli) \in CliRecord
        BY TimedFields
      <4>2. req.obj \in Long => cli'.state = "ulSeg"
        BY <2>5, <4>1 DEF ClientUlInitRsp, CliRecord
      <4> QED BY <2>1, <4>2 DEF Ends
    <3> QED BY <2>5, <3>1, ShortUploaded
  <2>6. CASE ClientUlSegRsp
    <3>1. cli.rx.last
      <4>1. Timed(cli) \in CliRecord /\ Timed(cli).state = cli.state /\ cli.state = "ulSeg"
        BY <2>6, TimedFields DEF ClientUlSegRsp, Answered
      <4>2. ~cli.rx.last => cli'.state = "ulSeg"
        BY <2>6, <4>1 DEF ClientUlSegRsp, CliRecord
      <4> QED BY <2>1, <4>2 DEF Ends
    <3> QED BY <1>3, <2>1, <2>6, <3>1, LongUploaded
  <2> QED BY <1>4, <2>3, <2>4, <2>5, <2>6 DEF ClientStep
<1>5. ASSUME cli'.status = cli.status, UNCHANGED <<req, buf>> PROVE OneContent'
  <2>1. OneContent
    BY <1>3, <1>5 DEF UploadWhole, Uploaded, Succeeded, Steady
  <2> QED BY <1>5, <2>1 DEF OneContent, Segs
<1>6. CASE SrvTimeout \/ SrvStep
  BY <1>5, <1>6, ServerMoves DEF ServerMoved, ClientSame
<1>7. CASE SrvRestarts \/ DeliverSrv \/ DeliverCli \/ LoseSrv \/ LoseCli
  <2>1. cli'.status = cli.status /\ UNCHANGED <<req, buf>>
    BY <1>1, <1>7 DEF SrvRestarts, DeliverSrv, DeliverCli, LoseSrv, LoseCli, CliRecord
  <2> QED BY <1>5, <2>1
<1>8. CASE UNCHANGED vars
  BY <1>5, <1>8 DEF vars
<1> QED BY <1>2, <1>4, <1>6, <1>7, <1>8 DEF Next

UploadInv ==
  /\ Storage /\ Roles /\ UploadWhole
  /\ Steady => LoadBound /\ LastAgrees /\ Requested /\ Reading

LEMMA UploadInit == Init => UploadInv
<1> SUFFICES ASSUME Init PROVE UploadInv
  OBVIOUS
<1>1. /\ cli.state = "idle" /\ cli.rx = None /\ cli.status = "idle" /\ toSrv = <<>> /\ toCli = <<>>
      /\ srv.state = "idle" /\ srv.rx = None /\ srv.tx = None /\ ~srv.internal
  BY DEF Init, IdleServer
<1>2. Storage
  <2>1. PICK d \in Data : od = [o \in Objects |-> Whole(d)]
    BY DEF Init
  <2>2. ReadOnlyWhole
    BY <2>1, SdoAssumption DEF ReadOnlyWhole
  <2> QED BY <1>1, <2>2 DEF Storage, DlWritable, AllFilled, Filled
<1>3. LoadBound
  <2>1. Requests = 0 /\ Len(toCli) = 0
    BY <1>1, LiveEmpty DEF Requests
  <2>2. One(Live(srv.rx)) = 0 /\ One(srv.internal) = 0 /\ One(cli.rx # None) = 0
    BY <1>1 DEF One, Live
  <2> QED BY <2>1, <2>2 DEF LoadBound, Load
<1>4. Roles /\ UploadWhole /\ LastAgrees /\ Requested /\ Reading
  BY <1>1 DEF Roles, UploadWhole, Uploaded, Succeeded, LastAgrees, Requested, Reading
<1> QED BY <1>2, <1>3, <1>4 DEF UploadInv

LEMMA UploadInvNext ==
  ChanMax >= 2 /\ SdoInv /\ SdoInv' /\ UploadInv /\ [Next]_vars => UploadInv'
<1> SUFFICES ASSUME ChanMax >= 2, SdoInv, SdoInv', UploadInv, [Next]_vars PROVE UploadInv'
  OBVIOUS
<1>1. Storage /\ Roles /\ UploadWhole /\ (Steady => LoadBound /\ LastAgrees /\ Requested /\ Reading)
  BY DEF UploadInv
<1>2. Storage' /\ Roles' /\ UploadWhole'
  BY <1>1, StorageNext, RolesNext, UploadNext
<1>3. ASSUME Steady' PROVE LoadBound' /\ LastAgrees' /\ Requested' /\ Reading'
  BY <1>1, <1>3, LoadNext, LastNext, RequestedNext, ReadingNext
<1> QED BY <1>2, <1>3 DEF UploadInv

(* A successful upload of a read-only object is one content of the server:    *)
(* over restarts, lost frames, timeouts and late answers, for every set of    *)
(* objects, number of segments and bus that holds two frames.  The answers of *)
(* the SDO name the object in the first frame only; that the segments are of  *)
(* the same object rests on how few frames the client's timer leaves behind.  *)
THEOREM UploadAlwaysWhole ==
  ASSUME ChanMax >= 2
  PROVE  Spec => []UploadWhole
<1>1. SdoInv /\ SdoInv' /\ UploadInv /\ [Next]_vars => UploadInv'
  BY UploadInvNext
<1>2. UploadInv => UploadWhole
  BY DEF UploadInv
<1> QED BY <1>1, <1>2, UploadInit, SdoSafe, PTL DEF Spec

-----------------------------------------------------------------------------
(* The client of the communication cycle takes the steps of SdoTransfer, or   *)
(* none: what holds of every state of that holds in the cycle.                *)
LEMMA CycleStep == [CycleNext]_allVars => [Next]_vars
<1> SUFFICES ASSUME [CycleNext]_allVars PROVE [Next]_vars
  OBVIOUS
<1>1. CASE Tick
  <2>1. CASE ClientTick
    BY <2>1 DEF ClientTick, ClientQuiet, Next
  <2>2. CASE UNCHANGED vars
    BY <2>2
  <2> QED BY <1>1, <2>1, <2>2 DEF Tick
<1>2. CASE SyncOn
  BY <1>2 DEF SyncOn
<1>3. CASE Others
  BY <1>3 DEF Others, Next
<1>4. CASE UNCHANGED allVars
  BY <1>4 DEF allVars, vars
<1> QED BY <1>1, <1>2, <1>3, <1>4 DEF CycleNext

THEOREM CycleRefines == CycleSpec => Init /\ [][Next]_vars
<1>1. CycleInit => Init
  BY DEF CycleInit
<1> QED BY <1>1, CycleStep, PTL DEF CycleSpec

(* The timers of the transfers in the cycle.                                  *)
THEOREM CycleArmed == CycleSpec => []Armed
<1>1. SdoInv => Armed
  BY DEF SdoInv, ClientInv, ServerInv, ClientArmed, ServerArmed, Armed
<1> QED BY <1>1, CycleRefines, SdoSafe, PTL

CycleInv == CycleTypeOK /\ FrozenInWindow

(* SYNC is switched off only where the client runs, whatever the period: the  *)
(* loop that handles the reboot's answer has just advanced to that position,  *)
(* and without SYNC the position stands still.                                *)
THEOREM AlwaysFrozenInWindow == CycleSpec => []FrozenInWindow
<1>1. CycleInit => CycleInv
  BY PeriodAssumption DEF CycleInit, CycleInv, CycleTypeOK, FrozenInWindow
<1>2. CycleInv /\ [CycleNext]_allVars => CycleInv'
  <2> SUFFICES ASSUME CycleInv, [CycleNext]_allVars PROVE CycleInv'
    OBVIOUS
  <2>1. index \in 0..(Period - 1) /\ valid \in BOOLEAN /\ Period \in Nat /\ Period >= 3
    BY PeriodAssumption DEF CycleInv, CycleTypeOK
  <2>2. CASE Tick
    <3>1. index' = Advanced /\ valid' \in BOOLEAN
      BY <2>1, <2>2 DEF Tick
    <3>2. index' \in 0..(Period - 1)
      BY <2>1, <3>1 DEF Advanced
    <3>3. CASE valid' = valid
      BY <2>1, <3>1, <3>2, <3>3 DEF Advanced, CycleInv, CycleTypeOK, FrozenInWindow
    <3>4. CASE Rebooted
      <4>1. ~UNCHANGED vars
        BY <3>4 DEF Rebooted, vars
      <4>2. Advanced >= 2
        BY <2>2, <4>1 DEF Tick
      <4> QED BY <3>1, <3>2, <4>2 DEF CycleInv, CycleTypeOK, FrozenInWindow
    <3> QED BY <2>2, <3>3, <3>4 DEF Tick
  <2>3. CASE SyncOn
    BY <2>1, <2>3 DEF SyncOn, CycleInv, CycleTypeOK, FrozenInWindow
  <2>4. CASE Others
    BY <2>1, <2>4 DEF Others, cycle, CycleInv, CycleTypeOK, FrozenInWindow
  <2>5. CASE UNCHANGED allVars
    BY <2>5 DEF allVars, CycleInv, CycleTypeOK, FrozenInWindow
  <2> QED BY <2>2, <2>3, <2>4, <2>5 DEF CycleNext
<1>3. CycleInv => FrozenInWindow
  BY DEF CycleInv
<1> QED BY <1>1, <1>2, <1>3, PTL DEF CycleSpec
=============================================================================
