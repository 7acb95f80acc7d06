---------------------------- MODULE SdoTransfer ----------------------------
(* One SDO transfer after the other between the client and the server of     *)
(* libs/canopen, over a CAN that loses frames.  Each side has one receive    *)
(* slot, which the next frame overwrites, and looks at it once a tick.       *)
EXTENDS Naturals, Sequences, FiniteSets

CONSTANTS
  Objects,      \* entries of the object dictionary
  Long,         \* those of more than 4 bytes: a normal, segmented transfer
  Extended,     \* those with an extension: written to a shadow, then confirmed
  Copied,       \* those of them that are then copied from it (the extensions of
                \* the others do themselves what is written)
  ReadOnly,     \* those without ODA_SDO_W
  Data,         \* contents
  Segments,     \* segments of a long object
  ChanMax,      \* frames on the bus in each direction
  ForceMax,     \* transfers started while another is under way
  None          \* no frame

ASSUME SdoAssumption ==
  /\ Long \subseteq Objects /\ Extended \subseteq Objects /\ Copied \subseteq Extended
  /\ ReadOnly \subseteq Objects
  /\ Segments \in Nat \ {0} /\ ChanMax \in Nat /\ ForceMax \in Nat /\ None \notin Data

VARIABLES
  cli,        \* CO_SDO of the client; timer: timeout_cter_ms > 0, rx: rx_msg while is_new;
              \* late: the frames of toCli that were there when the timer was started
  req,        \* what the last start_* asked for
  buf,        \* the client's p_data of an upload
  srv,        \* CO_SDO of the server; tx: tx_msg, kept while a confirmation is to send it
  shadow,     \* p_shadow_data of the extended objects
  od,         \* p_data of each object, segment by segment
  toSrv, toCli,  \* frames on the bus
  forced,     \* transfers started over another so far
  clean,      \* the transfer began with nothing left of an earlier one (history)
  hurt,       \* it lost a frame, ran into a timeout or was refused (history)
  owed        \* the client has given up while a confirmation was still to come,
              \* since the last transfer that began clean (history)

vars == <<cli, req, buf, srv, shadow, od, toSrv, toCli, forced, clean, hurt, owed>>

Segs(o) == IF o \in Long THEN Segments ELSE 1
Content == [1..Segments -> Data]
Whole(d) == [i \in 1..Segments |-> d]

CliCs == {"dlInit", "dlSeg", "ulInit", "ulSeg", "abort"}
SrvCs == {"dlInitRsp", "dlSegRsp", "ulInitRsp", "ulSegRsp", "abort"}
Frame(CS) == [cs : CS, obj : Objects \cup {None}, toggle : {0, 1},
              val : Data \cup {None}, last : BOOLEAN]
CliFrame ==
  {m \in Frame(CliCs) :
     /\ m.cs \in {"dlInit", "ulInit"} => m.obj \in Objects
     /\ m.cs = "dlSeg" \/ (m.cs = "dlInit" /\ m.obj \notin Long) => m.val \in Data}
SrvFrame == Frame(SrvCs)

Msg(cs, o, t, v, l) == [cs |-> cs, obj |-> o, toggle |-> t, val |-> v, last |-> l]
AbortMsg == Msg("abort", None, 0, None, FALSE)

CliStates == {"idle", "dlReq", "dlRsp", "dlSeg", "ulReq", "ulRsp", "ulSeg"}
SrvStates == {"idle", "dlRsp", "dlSeg", "ulSeg", "dead"}

TypeOK ==
  /\ cli \in [state : CliStates, timer : BOOLEAN, toggle : {0, 1}, off : 0..Segments, late : 0..ChanMax,
              rx : SrvFrame \cup {None}, status : {"idle", "busy", "success", "abort"}]
  /\ req \in [op : {"down", "up"}, obj : Objects, val : Data]
  /\ buf \in [1..Segments -> Data \cup {None}]
  /\ srv \in [state : SrvStates, timer : BOOLEAN, toggle : {0, 1}, off : 0..Segments,
              rx : CliFrame \cup {None}, obj : Objects \cup {None},
              internal : BOOLEAN, tx : SrvFrame \cup {None}]
  /\ shadow \in [Extended -> Content] /\ od \in [Objects -> Content]
  /\ toSrv \in Seq(CliFrame) /\ toCli \in Seq(SrvFrame)
  /\ Len(toSrv) <= ChanMax /\ Len(toCli) <= ChanMax
  /\ forced \in 0..ForceMax /\ clean \in BOOLEAN /\ hurt \in BOOLEAN /\ owed \in BOOLEAN

IdleServer == [state |-> "idle", timer |-> FALSE, toggle |-> 0, off |-> 0, rx |-> None,
               obj |-> None, internal |-> FALSE, tx |-> None]

Init ==
  /\ cli = [state |-> "idle", timer |-> FALSE, toggle |-> 0, off |-> 0, late |-> 0, rx |-> None,
            status |-> "idle"]
  /\ req \in {[op |-> "up", obj |-> o, val |-> d] : o \in Objects, d \in Data}
  /\ \E d \in Data :
       /\ od = [o \in Objects |-> Whole(d)]
       /\ shadow = [o \in Extended |-> Whole(d)]
  /\ buf = [i \in 1..Segments |-> None]
  /\ srv = IdleServer
  /\ toSrv = <<>> /\ toCli = <<>> /\ forced = 0
  /\ clean = FALSE /\ hurt = FALSE /\ owed = FALSE

Flip(t) == 1 - t

\* CO_CAN_send: nobody looks at what it returns, a frame that finds no room is lost.
Put(bus, m) == IF Len(bus) < ChanMax THEN Append(bus, m) ELSE bus
NoRoom(bus) == Len(bus) >= ChanMax

ToServer(m) == toSrv' = Put(toSrv, m) /\ hurt' = (hurt \/ NoRoom(toSrv))
ToClient(m) == toCli' = Put(toCli, m) /\ hurt' = (hurt \/ NoRoom(toCli))

----------------------------------------------------------------------------
(* The client *)

Quiescent ==
  /\ cli.state = "idle" /\ srv.state = "idle" /\ ~srv.internal /\ srv.rx = None
  /\ toSrv = <<>> /\ toCli = <<>>

(* start_download, start_upload: neither the timeout counter nor the slot is  *)
(* reset, so what a transfer under way left there is found by the next tick.  *)
Start ==
  /\ cli.state # "idle" => forced < ForceMax
  /\ forced' = forced + (IF cli.state = "idle" THEN 0 ELSE 1)
  /\ \E op \in {"down", "up"}, o \in Objects, d \in Data :
       /\ req' = [op |-> op, obj |-> o, val |-> d]
       /\ cli' = [cli EXCEPT !.state = IF op = "down" THEN "dlReq" ELSE "ulReq",
                             !.status = "busy"]
  /\ buf' = [i \in 1..Segments |-> None]
  /\ clean' = Quiescent /\ hurt' = FALSE /\ owed' = (owed /\ ~Quiescent)
  /\ UNCHANGED <<srv, shadow, od, toSrv, toCli>>

\* CO_SDO_abort.
Aborted(sdo) == [sdo EXCEPT !.timer = FALSE, !.rx = None, !.state = "idle"]

CliEnds(status) == [Aborted(cli) EXCEPT !.status = status]

ServerSame == UNCHANGED <<srv, shadow, od, toCli>>

\* A counter that runs may have passed its limit at any tick.
MayExpire(sdo) == sdo.timer

(* The timer of the client has run out: no frame tells the server.  It was    *)
(* started when the client last sent, and allows far more than a frame stays  *)
(* on the bus and in the slot of a node that ticks.  The answer may be late:  *)
(* one frame, sent since, may be on its way and be found by the next transfer.*)
ClientTimeout ==
  /\ cli.state # "idle" /\ MayExpire(cli) /\ toSrv = <<>> /\ srv.rx = None
  /\ cli.late = 0 /\ Len(toCli) <= 1
  /\ cli' = CliEnds("abort") /\ hurt' = TRUE /\ owed' = (owed \/ srv.internal)
  /\ ServerSame /\ UNCHANGED <<req, buf, toSrv, forced, clean>>

\* An abort of the server ends the transfer, whatever its state.
ClientAborted ==
  /\ cli.state # "idle" /\ cli.rx # None /\ cli.rx.cs = "abort"
  /\ cli' = CliEnds("abort")
  /\ ServerSame /\ UNCHANGED <<req, buf, toSrv, forced, clean, hurt, owed>>

\* The timer starts again when something is sent.
Timed(sdo) == [sdo EXCEPT !.timer = TRUE, !.late = Len(toCli)]

\* The toggle bit of a new transfer  (variant: goes on from the last one).
FirstToggleOld == cli.toggle
FirstToggle == 0

\* The initiate request: expedited (the data is in it) or with the size only.
ClientInitReq ==
  /\ cli.state \in {"dlReq", "ulReq"}
  /\ cli.rx # None => cli.rx.cs # "abort"
  /\ LET down == cli.state = "dlReq"
         short == down /\ req.obj \notin Long
     IN /\ ToServer(Msg(IF down THEN "dlInit" ELSE "ulInit", req.obj, 0,
                        IF short THEN req.val ELSE None, FALSE))
        /\ cli' = [Timed(cli) EXCEPT !.state = IF down THEN "dlRsp" ELSE "ulRsp",
                              !.toggle = FirstToggle, !.off = 0, !.rx = None]
  /\ ServerSame /\ UNCHANGED <<req, buf, forced, clean, owed>>

Answered(state) ==
  cli.state = state /\ cli.rx # None /\ cli.rx.cs # "abort"

(* CO_SDO_abort_and_response: a wrong command, object, toggle or last mark    *)
(* ends the transfer on both sides.                                           *)
Unfit ==
  CASE cli.state = "dlRsp" -> cli.rx.cs # "dlInitRsp" \/ cli.rx.obj # req.obj
    [] cli.state = "ulRsp" -> cli.rx.cs # "ulInitRsp" \/ cli.rx.obj # req.obj
    [] cli.state = "dlSeg" -> cli.rx.cs # "dlSegRsp" \/ cli.rx.toggle # cli.toggle
    [] cli.state = "ulSeg" ->
         \/ cli.rx.cs # "ulSegRsp" \/ cli.rx.toggle # cli.toggle
         \/ cli.rx.last # (Segs(req.obj) <= cli.off + 1)
    [] OTHER -> FALSE

ClientRefuses ==
  /\ \E s \in {"dlRsp", "ulRsp", "dlSeg", "ulSeg"} : Answered(s)
  /\ Unfit
  /\ ToServer(AbortMsg)
  /\ cli' = CliEnds("abort")
  /\ ServerSame /\ UNCHANGED <<req, buf, forced, clean, owed>>

\* The segment after `off` of a download, with toggle t.
ClientSendsSegment(t) ==
  /\ ToServer(Msg("dlSeg", None, t, req.val, Segs(req.obj) <= cli.off + 1))
  /\ cli' = [Timed(cli) EXCEPT !.state = "dlSeg", !.toggle = t, !.off = @ + 1, !.rx = None]

ClientSucceeds ==
  cli' = CliEnds("success") /\ UNCHANGED <<toSrv, hurt>>

ClientDlInitRsp ==
  /\ Answered("dlRsp") /\ ~Unfit
  /\ \/ req.obj \notin Long /\ ClientSucceeds
     \/ req.obj \in Long /\ ClientSendsSegment(cli.toggle)
  /\ ServerSame /\ UNCHANGED <<req, buf, forced, clean, owed>>

\* Every segment of a download has gone out.
AllSent == Segs(req.obj) <= cli.off

ClientDlSegRsp ==
  /\ Answered("dlSeg") /\ ~Unfit
  /\ \/ AllSent /\ ClientSucceeds
     \/ ~AllSent /\ ClientSendsSegment(Flip(cli.toggle))
  /\ ServerSame /\ UNCHANGED <<req, buf, forced, clean, owed>>

\* The object of the server is longer than the client's variable.
ClientOutOfMem ==
  /\ Answered("ulRsp") /\ ~Unfit
  /\ cli' = CliEnds("abort") /\ hurt' = TRUE
  /\ toSrv' = IF req.obj \in Long THEN Put(toSrv, AbortMsg) ELSE toSrv
  /\ ServerSame /\ UNCHANGED <<req, buf, forced, clean, owed>>

ClientUlInitRsp ==
  /\ Answered("ulRsp") /\ ~Unfit
  /\ \/ /\ req.obj \notin Long
        /\ buf' = [buf EXCEPT ![1] = cli.rx.val]
        /\ ClientSucceeds
     \/ /\ req.obj \in Long
        /\ ToServer(Msg("ulSeg", None, 0, None, FALSE))
        /\ cli' = [Timed(cli) EXCEPT !.state = "ulSeg", !.off = 0, !.rx = None]
        /\ UNCHANGED buf
  /\ ServerSame /\ UNCHANGED <<req, forced, clean, owed>>

ClientUlSegRsp ==
  /\ Answered("ulSeg") /\ ~Unfit
  /\ buf' = [buf EXCEPT ![cli.off + 1] = cli.rx.val]
  /\ \/ cli.rx.last /\ ClientSucceeds
     \/ /\ ~cli.rx.last
        /\ ToServer(Msg("ulSeg", None, Flip(cli.toggle), None, FALSE))
        /\ cli' = [Timed(cli) EXCEPT !.toggle = Flip(@), !.off = @ + 1, !.rx = None]
  /\ ServerSame /\ UNCHANGED <<req, forced, clean, owed>>

ClientStep ==
  \/ ClientAborted \/ ClientInitReq \/ ClientRefuses \/ ClientDlInitRsp
  \/ ClientDlSegRsp \/ ClientUlInitRsp \/ ClientUlSegRsp \/ ClientOutOfMem

----------------------------------------------------------------------------
(* The server *)

ClientSame == UNCHANGED <<cli, req, buf, toSrv, forced, clean, owed>>

\* CO_SDO_abort ends what is internal too.
SrvAborted == [Aborted(srv) EXCEPT !.internal = FALSE, !.tx = None]

SrvRefuses ==
  /\ srv' = SrvAborted /\ ToClient(AbortMsg)
  /\ UNCHANGED <<shadow, od>>

SrvTimeout ==
  /\ MayExpire(srv) /\ srv.state # "dead" /\ toCli = <<>> /\ cli.rx = None
  /\ srv' = SrvAborted /\ hurt' = TRUE
  /\ ClientSame /\ UNCHANGED <<shadow, od, toCli>>

Got(CS) == srv.state # "dead" /\ srv.rx # None /\ srv.rx.cs \in CS

\* An abort of the client: is_internal_processing stays as it is.
SrvAbortFrame ==
  /\ Got({"abort"})
  /\ srv' = Aborted(srv)
  /\ ClientSame /\ UNCHANGED <<shadow, od, toCli, hurt>>

\* process_first_msg_and_set_state: neither initiate command, or no access.
SrvFirstRefused ==
  /\ srv.state = "idle"
  /\ \/ Got({"dlSeg", "ulSeg"}) \/ (Got({"dlInit"}) /\ srv.rx.obj \in ReadOnly)
  /\ SrvRefuses /\ ClientSame

\* What the server sends; tx_msg matters later only to a pending confirmation.
SrvSends(s, m) ==
  /\ ToClient(m)
  /\ srv' = [s EXCEPT !.tx = IF s.internal THEN m ELSE None]

\* Where a write of segment i of o goes: the shadow of an extended object.
Write(o, i, v) ==
  IF o \in Extended THEN shadow' = [shadow EXCEPT ![o][i] = v] /\ UNCHANGED od
                    ELSE od' = [od EXCEPT ![o][i] = v] /\ UNCHANGED shadow

\* Whose write waits for a confirmation  (variant: nobody's).
ConfirmedNever(o) == FALSE
Confirmed(o) == o \in Extended

\* All of it has come: answered at once, or left for the extension's confirmation.
SrvWritten(s, ack) ==
  \/ /\ ~Confirmed(s.obj)
     /\ SrvSends([s EXCEPT !.state = "idle"], ack)
  \/ /\ Confirmed(s.obj)
     /\ srv' = [s EXCEPT !.timer = TRUE, !.internal = TRUE, !.tx = ack]
     /\ UNCHANGED <<toCli, hurt>>

SrvDlInit ==
  /\ srv.state = "idle" /\ ~srv.internal /\ Got({"dlInit"}) /\ srv.rx.obj \notin ReadOnly
  /\ LET o == srv.rx.obj
         ack == Msg("dlInitRsp", o, 0, None, FALSE)
         s == [srv EXCEPT !.state = "dlRsp", !.timer = FALSE, !.rx = None, !.obj = o,
                          !.toggle = 0, !.off = 0]
     IN \/ o \notin Long /\ Write(o, 1, srv.rx.val) /\ SrvWritten(s, ack)
        \/ /\ o \in Long
           /\ SrvSends([s EXCEPT !.state = "dlSeg", !.timer = TRUE], ack)
           /\ UNCHANGED <<shadow, od>>
  /\ ClientSame

SrvDlSeg ==
  /\ srv.state = "dlSeg" /\ ~srv.internal /\ Got(CliCs \ {"abort"})
  /\ LET last == Segs(srv.obj) <= srv.off + 1
         ack == Msg("dlSegRsp", None, srv.toggle, None, FALSE)
         s == [srv EXCEPT !.timer = FALSE, !.rx = None, !.off = @ + 1]
         fits == srv.rx.cs = "dlSeg" /\ srv.rx.toggle = srv.toggle /\ srv.rx.last = last
     IN \/ ~fits /\ SrvRefuses
        \/ fits /\ last /\ Write(srv.obj, srv.off + 1, srv.rx.val) /\ SrvWritten(s, ack)
        \/ /\ fits /\ ~last
           /\ Write(srv.obj, srv.off + 1, srv.rx.val)
           /\ SrvSends([s EXCEPT !.timer = TRUE, !.toggle = Flip(@)], ack)
  /\ ClientSame

(* The internal branch of both download handlers.  A frame that has come      *)
(* meanwhile is swallowed; a first message that finds the flag still set is   *)
(* confirmed unread, through the extension of its own object (a call through  *)
(* a null pointer if it has none).                                            *)
InInternal ==
  /\ srv.internal
  /\ \/ srv.state \in {"dlRsp", "dlSeg"} /\ (srv.rx # None => srv.rx.cs # "abort")
     \/ srv.state = "idle" /\ Got({"dlInit"}) /\ srv.rx.obj \notin ReadOnly
Handled == IF srv.state = "idle" THEN srv.rx.obj ELSE srv.obj

SrvConfirm ==
  /\ InInternal
  /\ LET o == Handled
         s == [Aborted(srv) EXCEPT !.obj = o, !.internal = FALSE, !.tx = None]
     IN \/ o \notin Extended /\ srv' = [s EXCEPT !.state = "dead"]
           /\ UNCHANGED <<shadow, od, toCli, hurt>>
        \/ /\ o \in Extended /\ srv' = s /\ ToClient(srv.tx)
           /\ od' = (IF o \in Copied THEN [od EXCEPT ![o] = shadow[o]] ELSE od) /\ UNCHANGED shadow
        \/ /\ o \in Extended /\ srv' = s
           /\ toCli' = Put(toCli, AbortMsg) /\ hurt' = TRUE
           /\ UNCHANGED <<shadow, od>>
  /\ ClientSame

(* CO_EXT_CONFIRM_processing: the extension is asked again at the next tick.  *)
(* The frame that has come has stopped the timer.                             *)
SrvProcessing ==
  /\ InInternal /\ Handled \in Extended /\ srv.rx # None
  /\ srv' = [srv EXCEPT !.rx = None, !.timer = FALSE, !.obj = Handled,
                        !.state = IF @ = "idle" THEN "dlRsp" ELSE @]
  /\ ClientSame /\ UNCHANGED <<shadow, od, toCli, hurt>>

\* Whether the server waits for more.
Waits(o) == o \in Long

SrvUlInit ==
  /\ srv.state = "idle" /\ Got({"ulInit"})
  /\ LET o == srv.rx.obj
         s == [srv EXCEPT !.timer = Waits(o), !.rx = None, !.obj = o, !.toggle = 0,
                          !.off = IF o \in Long THEN 0 ELSE 1,
                          !.state = IF o \in Long THEN "ulSeg" ELSE "idle"]
     IN SrvSends(s, Msg("ulInitRsp", o, 0, IF o \in Long THEN None ELSE od[o][1], FALSE))
  /\ ClientSame /\ UNCHANGED <<shadow, od>>

(* upload_segment_handle; with is_internal_processing left set it runs at     *)
(* every tick, and what is left in the slot no longer fits.                   *)
SrvUlSeg ==
  /\ srv.state = "ulSeg" /\ (Got(CliCs \ {"abort"}) \/ (srv.internal /\ srv.rx = None))
  /\ LET last == Segs(srv.obj) <= srv.off + 1
         fits == srv.rx # None /\ srv.rx.cs = "ulSeg" /\ srv.rx.toggle = srv.toggle
         s == [srv EXCEPT !.timer = ~last, !.rx = None, !.off = @ + 1, !.toggle = Flip(@),
                          !.state = IF last THEN "idle" ELSE "ulSeg"]
     IN \/ ~fits /\ SrvRefuses
        \/ /\ fits
           /\ SrvSends(s, Msg("ulSegRsp", None, srv.toggle, od[srv.obj][srv.off + 1], last))
           /\ UNCHANGED <<shadow, od>>
  /\ ClientSame

\* CO_SDOserver_init  (variant: the transfer under way is not reset).
InitialKept == [srv EXCEPT !.rx = None]
Initial == IdleServer

(* The node is reset, or another pack is in its place, with other read-only   *)
(* contents; that takes longer than a frame stays on the bus.                 *)
SrvRestarts ==
  /\ srv' = Initial
  /\ \E d \in Data : od' = [o \in Objects |-> IF o \in ReadOnly THEN Whole(d) ELSE od[o]]
  /\ toSrv' = <<>> /\ toCli' = <<>> /\ cli' = [cli EXCEPT !.late = 0]
  /\ clean' = FALSE /\ hurt' = TRUE /\ UNCHANGED <<req, buf, shadow, forced, owed>>

SrvStep ==
  \/ SrvAbortFrame \/ SrvFirstRefused \/ SrvDlInit \/ SrvDlSeg \/ SrvConfirm
  \/ SrvProcessing \/ SrvUlInit \/ SrvUlSeg

----------------------------------------------------------------------------
(* The bus.  CO_can_receive_basic_handle: an idle client takes no frame.      *)

\* One frame fewer is on its way to the client.
Nearer == [cli EXCEPT !.late = IF @ = 0 THEN 0 ELSE @ - 1]

DeliverSrv ==
  /\ toSrv # <<>> /\ toSrv' = Tail(toSrv)
  /\ srv' = [srv EXCEPT !.rx = IF srv.state = "dead" THEN None ELSE Head(toSrv)]
  /\ hurt' = (hurt \/ srv.rx # None)
  /\ UNCHANGED <<cli, req, buf, shadow, od, toCli, forced, clean, owed>>

DeliverCli ==
  /\ toCli # <<>> /\ toCli' = Tail(toCli)
  /\ cli' = [Nearer EXCEPT !.rx = IF cli.state = "idle" THEN None ELSE Head(toCli)]
  /\ UNCHANGED <<req, buf, srv, shadow, od, toSrv, forced, clean, hurt, owed>>

LoseSrv ==
  /\ toSrv # <<>> /\ toSrv' = Tail(toSrv) /\ hurt' = TRUE
  /\ UNCHANGED <<cli, req, buf, srv, shadow, od, toCli, forced, clean, owed>>

LoseCli ==
  /\ toCli # <<>> /\ toCli' = Tail(toCli) /\ cli' = Nearer /\ hurt' = TRUE
  /\ UNCHANGED <<req, buf, srv, shadow, od, toSrv, forced, clean, owed>>

Next ==
  \/ Start \/ ClientTimeout \/ ClientStep
  \/ SrvTimeout \/ SrvStep \/ SrvRestarts
  \/ DeliverSrv \/ DeliverCli \/ LoseSrv \/ LoseCli

Fairness ==
  /\ WF_vars(ClientStep) /\ WF_vars(SrvStep) /\ SF_vars(ClientTimeout) /\ SF_vars(SrvTimeout)
  /\ WF_vars(DeliverSrv \/ LoseSrv) /\ WF_vars(DeliverCli \/ LoseCli)

Spec == Init /\ [][Next]_vars /\ Fairness

----------------------------------------------------------------------------
(* An idle side has its timer off, a side that waits for a frame has it on:   *)
(* no timeout of an ended transfer is left to the next, and none waits for    *)
(* ever, except for an extension.                                             *)
Armed ==
  /\ cli.state = "idle" => ~cli.timer /\ cli.rx = None
  /\ cli.state \in {"dlRsp", "dlSeg", "ulRsp", "ulSeg"} => cli.timer
  /\ srv.state = "idle" => ~srv.timer
  /\ srv.state \in {"dlRsp", "dlSeg", "ulSeg"} => srv.timer \/ srv.internal

Succeeded(op) == cli.status = "success" /\ req.op = op
Uploaded == Succeeded("up") /\ req.obj \in ReadOnly
OneContent == \A i, j \in 1..Segs(req.obj) : buf[i] = buf[j] /\ buf[i] # None

\* What a write ends in: the data, or the shadow the extension works on.
Kept(o) == IF o \in Extended \ Copied THEN shadow[o] ELSE od[o]

(* A successful upload of a read-only object is one content of the server,    *)
(* never the beginning of one and the end of another: over restarts, lost     *)
(* frames, timeouts and late answers, as long as no transfer is started over  *)
(* another and none is given up before the server's confirmation.             *)
UploadWhole == Uploaded /\ forced = 0 /\ ~owed => OneContent

(* The same over transfers started over others.  (Violated: segments do not   *)
(* name their object, and the server may be two requests behind.)             *)
ForcedUploadWhole == Uploaded /\ ~owed => OneContent

(* The same when a write was given up.  (Violated: the confirmation comes on  *)
(* top of a late answer, and the server is two requests behind again.)        *)
OwedUploadWhole == Uploaded /\ forced = 0 => OneContent

(* When nothing of an earlier transfer was left, success means that the       *)
(* server's object, or the shadow its extension works on, is what was         *)
(* written, or what was read is the object.                                   *)
SuccessIsTransfer ==
  clean =>
    /\ Succeeded("down") =>
         \A i \in 1..Segs(req.obj) : Kept(req.obj)[i] = req.val
    /\ Succeeded("up") =>
         \A i \in 1..Segs(req.obj) : od[req.obj][i] = buf[i]

(* A clean transfer that nothing disturbed does not abort, except a write of  *)
(* an object that cannot be written.                                          *)
UndisturbedSucceeds ==
  clean /\ ~hurt /\ ~(req.op = "down" /\ req.obj \in ReadOnly) => cli.status # "abort"

(* Both sides come to rest again.  *)
TransferEnds == (cli.state # "idle") ~> (cli.state = "idle")
ServerRests == (srv.state \notin {"idle", "dead"}) ~> (srv.state \in {"idle", "dead"})

(* An object behind a shadow is never half written.  (Violated.)  *)
ShadowedIsWhole ==
  \A o \in Extended : \A i, j \in 1..Segs(o) : od[o][i] = od[o][j]

(* is_internal_processing belongs to a transfer under way.  (Violated.)       *)
InternalIsOwn == srv.internal => srv.state \in {"dlRsp", "dlSeg"}

(* A request that is started is sent.  (Violated as an action property: what  *)
(* the displaced transfer left ends it first.)                                *)
RequestIsSent ==
  [][cli.state \in {"dlReq", "ulReq"} /\ cli'.state = "idle" => FALSE]_vars
=============================================================================
