------------------------------ MODULE ModbusRtu ------------------------------
(* nanoMODBUS on one serial line: the master asks one unit at a time, every  *)
(* other unit overhears the request and the answer.  Frames name a unit and  *)
(* a function code but no transaction, so an answer that comes late is told  *)
(* from the right one only by what the request and it have in common.        *)
EXTENDS Naturals, Sequences, FiniteSets, SequencesExt

CONSTANTS
  Units,        \* addresses of the units
  All,          \* NMBS_BROADCAST_ADDRESS
  Asked,        \* what the master may ask
  Places,       \* addresses, or file and record numbers
  Values,       \* contents of a unit
  LenMax,       \* quantity
  InMax,        \* frames a unit is behind
  FaultMax,     \* frames lost, early time-outs and requests, broadcasts refused
  None

ASSUME ModbusAssumption ==
  /\ All \notin Units
  /\ LenMax \in Nat \ {0} /\ InMax \in Nat \ {0} /\ FaultMax \in Nat

VARIABLES
  master,       \* the request under way, the result of the last one and its answer
  rx,           \* frames in the master's serial port
  unit,         \* nmbs_t of each unit, and the answer it is to send
  inp,          \* frames in each unit's serial port
  mem,          \* what each unit holds
  faults,
  alone,        \* nothing of an earlier request was on its way (history)
  held          \* what each unit has held (history)

vars == <<master, rx, unit, inp, mem, faults, alone, held>>

Discrete == {"readCoils", "readDiscreteInputs"}
Registers == {"readHoldingRegisters", "readInputRegisters"}
Single == {"writeSingleCoil", "writeSingleRegister"}
Multiple == {"writeMultipleCoils", "writeMultipleRegisters"}
File == {"readFileRecord", "writeFileRecord"}
Reads == Discrete \cup Registers \cup {"readFileRecord"}
Codes == Reads \cup Single \cup Multiple \cup File

\* A frame that fails the CRC is one lost; rest: the unread end of a frame.
Frame == [kind : {"req", "ans", "exc", "rest"}, unit : Units \cup {All}, fc : Codes, at : Places,
          len : 1..LenMax, val : Values \cup {None}]

ASSUME AskedAssumption ==
  /\ None \notin Asked
  /\ \A q \in Asked :
       /\ q \in Frame /\ q.kind = "req"
       /\ q.val = None <=> q.fc \in Reads

TypeOK ==
  /\ master \in [req : Asked \cup {None}, status : {"none", "wait", "ok", "exception", "error"},
                 last : Asked \cup {None}, got : Frame \cup {None}]
  /\ rx \in Seq(Frame)
  /\ unit \in [Units -> [skip : Frame \cup {None}, out : Frame \cup {None}]]
  /\ master.status = "wait" <=> master.req # None
  /\ \A u \in Units : unit[u].skip = None \/ unit[u].out = None
  /\ inp \in [Units -> Seq(Frame)] /\ \A u \in Units : Len(inp[u]) <= InMax
  /\ mem \in [Units -> Values] /\ faults \in 0..FaultMax /\ alone \in BOOLEAN
  /\ held \in [Units -> SUBSET Values]

Init ==
  /\ master = [req |-> None, status |-> "none", last |-> None, got |-> None]
  /\ rx = <<>> /\ unit = [u \in Units |-> [skip |-> None, out |-> None]]
  /\ inp = [u \in Units |-> <<>>]
  /\ mem \in [Units -> Values]
  /\ faults = 0 /\ alone = TRUE /\ held = [u \in Units |-> {mem[u]}]

\* k more faults.
Fault(k) == faults + k <= FaultMax /\ faults' = faults + k
Cost(lost) == IF lost THEN 1 ELSE 0

----------------------------------------------------------------------------
(* The master *)

\* ModbusComImpl::send flushes the port before it writes  (variant: it does not).
FlushedNot == rx
Flushed == <<>>

OnItsWay ==
  \E u \in Units :
    unit[u].out # None \/ \E i \in DOMAIN inp[u] : inp[u][i].kind # "rest"
Quiet == ~OnItsWay /\ \A u \in Units : unit[u].skip = None

(* A call of the master: the request goes to every unit that hears it.        *)
Calls(q, heard) ==
  /\ master.req = None
  /\ \A u \in Units : Len(inp[u]) < InMax
  /\ Fault(Cost(heard # Units) + Cost(~Quiet))
  /\ rx' = Flushed /\ alone' = ~OnItsWay
  /\ inp' = [u \in Units |-> IF u \in heard THEN Append(inp[u], q) ELSE inp[u]]
  /\ UNCHANGED <<unit, mem, held>>

Waits(q) ==
  master' = [req |-> q, status |-> "wait", last |-> q, got |-> None]

\* These wait for an answer even to a broadcast.
Asks(codes) ==
  \E q \in Asked, heard \in SUBSET Units :
    q.fc \in codes /\ Calls(q, heard) /\ Waits(q)

ReadDiscrete == Asks(Discrete)
ReadRegisters == Asks(Registers)

\* These do not: it is a success when it is sent.
Tells(codes) ==
  \E q \in Asked, heard \in SUBSET Units :
    /\ q.fc \in codes /\ Calls(q, heard)
    /\ IF q.unit = All
       THEN master' = [req |-> None, status |-> "ok", last |-> q, got |-> None]
       ELSE Waits(q)

WriteSingle == Tells(Single)
WriteMultiple == Tells(Multiple)
ReadFileRecord == Tells({"readFileRecord"})
WriteFileRecord == Tells({"writeFileRecord"})

Ends(status, got) ==
  master' = [master EXCEPT !.req = None, !.status = status, !.got = got]

(* What an answer and its request must have in common: the length of a        *)
(* discrete read is not looked at, nor the data of a multiple write.          *)
FitsRead(q, a) ==
  \/ q.fc \in Discrete
  \/ q.fc \in Registers \cup {"readFileRecord"} /\ a.len = q.len

FitsSingleAt(q, a) == q.fc \in Single /\ a.at = q.at
FitsSingle(q, a) == q.fc \in Single /\ a.at = q.at /\ a.val = q.val

FitsMultiple(q, a) == q.fc \in Multiple /\ a.at = q.at /\ a.len = q.len
FitsFile(q, a) == q.fc = "writeFileRecord" /\ a.at = q.at /\ a.len = q.len /\ a.val = q.val

Fits(q, a) == FitsRead(q, a) \/ FitsSingle(q, a) \/ FitsMultiple(q, a) \/ FitsFile(q, a)

\* recv_res_header: the unit and the function code  (variant: the code only).
HeaderCode(q, a) == a.fc = q.fc
Header(q, a) == a.unit = q.unit /\ a.fc = q.fc

\* recv_*_res
Status(q, a) ==
  IF ~Header(q, a) THEN "error"
  ELSE IF a.kind = "exc" THEN "exception"
  ELSE IF Fits(q, a) THEN "ok" ELSE "error"

Receive ==
  /\ master.req # None /\ rx # <<>>
  /\ Ends(Status(master.req, Head(rx)), Head(rx)) /\ rx' = Tail(rx)
  /\ UNCHANGED <<unit, inp, mem, faults, alone, held>>

Answering(u) ==
  \/ unit[u].out # None
  \/ \E i \in DOMAIN inp[u] : inp[u][i].kind = "req" /\ inp[u][i].unit = u

\* The answer is late when there is still one to come.
Timeout ==
  /\ master.req # None /\ rx = <<>>
  /\ Fault(Cost(\E u \in Units : Answering(u))) /\ Ends("error", None)
  /\ UNCHANGED <<rx, unit, inp, mem, alone, held>>

----------------------------------------------------------------------------
(* A unit: nmbs_server_poll *)

\* It reads the next frame.
Polls(u) ==
  /\ unit[u].skip = None /\ unit[u].out = None
  /\ inp[u] # <<>> /\ Head(inp[u]).kind # "rest"
Drops(u) == inp' = [inp EXCEPT ![u] = Tail(@)]
Answers(u, f) == unit' = [unit EXCEPT ![u].out = f]
UnitOnly == UNCHANGED <<master, rx, faults, alone>>

Mine(u) == Head(inp[u]).kind = "req" /\ Head(inp[u]).unit \in {u, All}

\* A broadcast is executed and not answered.
Answered(u, f) == IF f.unit = All THEN unit' = unit ELSE Answers(u, f)

Reading(u, codes) ==
  /\ Polls(u) /\ Mine(u) /\ Head(inp[u]).fc \in codes
  /\ Answered(u, [Head(inp[u]) EXCEPT !.kind = "ans", !.val = mem[u]])
  /\ Drops(u) /\ UnitOnly /\ UNCHANGED <<mem, held>>

HandleReadDiscrete(u) == Reading(u, Discrete)
HandleReadRegisters(u) == Reading(u, Registers)
HandleReadFileRecord(u) == Reading(u, {"readFileRecord"})

\* What a write leaves in the unit  (variant: it is acknowledged and left out).
WrittenNot(u, f) == mem
Written(u, f) == [mem EXCEPT ![u] = f.val]

Writing(u, codes) ==
  /\ Polls(u) /\ Mine(u) /\ Head(inp[u]).fc \in codes
  /\ mem' = Written(u, Head(inp[u])) /\ held' = [held EXCEPT ![u] = @ \cup {mem'[u]}]
  /\ Answered(u, [Head(inp[u]) EXCEPT !.kind = "ans"])
  /\ Drops(u) /\ UnitOnly

HandleWriteSingle(u) == Writing(u, Single)
HandleWriteMultiple(u) == Writing(u, Multiple)
HandleWriteFileRecord(u) == Writing(u, {"writeFileRecord"})

\* A callback fails: the exception is sent, after a broadcast too, where the
\* other units take its end for the beginning of the next request.
Refuse(u) ==
  /\ Polls(u) /\ Mine(u) /\ Fault(Cost(Head(inp[u]).unit = All))
  /\ Answers(u, [Head(inp[u]) EXCEPT !.kind = "exc"])
  /\ Drops(u) /\ UNCHANGED <<master, rx, alone, mem, held>>

(* A request of another unit: its answer is to be read next.  The answer to   *)
(* a single write, or about a file record, is laid out like a request.        *)
LooksLikeRequest(f) == f.kind = "req" \/ (f.kind = "ans" /\ f.fc \in Single \cup File)

Ignore(u) ==
  /\ Polls(u) /\ ~Mine(u) /\ LooksLikeRequest(Head(inp[u]))
  /\ unit' = [unit EXCEPT ![u].skip = [Head(inp[u]) EXCEPT !.kind = "req"]]
  /\ Drops(u) /\ UnitOnly /\ UNCHANGED <<mem, held>>

\* An error while something of another unit is read: what has arrived is
\* flushed, but not after a time-out.
Errs(u) == Drops(u) \/ inp' = [inp EXCEPT ![u] = <<>>]

\* Another answer, or an exception, whose end is not read, is no request.
Garbage(u) ==
  /\ Polls(u) /\ ~Mine(u) /\ ~LooksLikeRequest(Head(inp[u]))
  /\ Errs(u) \/ inp' = [inp EXCEPT ![u][1].kind = "rest"]
  /\ UnitOnly /\ UNCHANGED <<unit, mem, held>>

\* The end of a frame is read as the beginning of the next one.
Misframed(u) ==
  /\ unit[u].skip = None /\ Len(inp[u]) > 1 /\ Head(inp[u]).kind = "rest"
  /\ inp' = [inp EXCEPT ![u] = Tail(Tail(@))]
  /\ UnitOnly /\ UNCHANGED <<unit, mem, held>>

\* The answer expected from another unit: a request, even an own one, is none.
Expected(q, a) ==
  /\ a.kind # "req" /\ Header(q, a)
  /\ a.kind = "exc" \/ q.fc \in File \/ Fits(q, a)

Stops(u) == unit' = [unit EXCEPT ![u].skip = None]
\* nmbs_server_poll, after an error: the rest of the line is flushed
\* (variant: the unit goes on waiting for the answer).
StopsNot(u) == unit' = unit
Resumes(u) == Stops(u)

Overhear(u) ==
  /\ unit[u].skip # None /\ inp[u] # <<>>
  /\ IF Expected(unit[u].skip, Head(inp[u]))
     THEN Drops(u) /\ Stops(u)
     ELSE Errs(u) /\ Resumes(u)
  /\ UnitOnly /\ UNCHANGED <<mem, held>>

SkipTimeout(u) ==
  /\ unit[u].skip # None /\ inp[u] = <<>> /\ Resumes(u)
  /\ Fault(Cost(\E v \in Units \ {u} : Answering(v)))
  /\ UNCHANGED <<master, rx, inp, mem, alone, held>>

\* The answer goes out, to the master and to the units that overhear it.
Sends(u) ==
  /\ unit[u].out # None
  /\ \E lost \in BOOLEAN, heard \in SUBSET (Units \ {u}) :
       /\ Fault(Cost(lost \/ heard # Units \ {u}))
       /\ rx' = IF lost THEN rx ELSE Append(rx, unit[u].out)
       /\ inp' = [v \in Units |-> IF v \in heard /\ Len(inp[v]) < InMax
                                  THEN Append(inp[v], unit[u].out) ELSE inp[v]]
  /\ Answers(u, None)
  /\ UNCHANGED <<master, mem, alone, held>>

UnitStep(u) ==
  \/ HandleReadDiscrete(u) \/ HandleReadRegisters(u) \/ HandleReadFileRecord(u)
  \/ HandleWriteSingle(u) \/ HandleWriteMultiple(u) \/ HandleWriteFileRecord(u)
  \/ Refuse(u) \/ Ignore(u) \/ Garbage(u)
  \/ Misframed(u) \/ Overhear(u) \/ SkipTimeout(u) \/ Sends(u)

Call ==
  \/ ReadDiscrete \/ ReadRegisters \/ WriteSingle \/ WriteMultiple
  \/ ReadFileRecord \/ WriteFileRecord

Next == Call \/ Receive \/ Timeout \/ \E u \in Units : UnitStep(u)

Fairness ==
  /\ WF_vars(Call) /\ WF_vars(Receive) /\ WF_vars(Timeout)
  /\ \A u \in Units : WF_vars(UnitStep(u))

Spec == Init /\ [][Next]_vars /\ Fairness

----------------------------------------------------------------------------

Value == IF master.last.fc \in Reads THEN master.got.val ELSE master.last.val

(* A successful read is what the asked unit has held at some time, and the     *)
(* value of a successful write too, over lost, late and reordered answers of   *)
(* any unit; not of a multiple write, whose answer does not repeat its data.   *)
WasHeld ==
  master.status = "ok" /\ master.last.unit # All /\ master.last.fc \notin Multiple =>
    Value \in held[master.last.unit]

(* It is what the unit holds now.                                             *)
Done == master.status = "ok" /\ master.last.unit # All => mem[master.last.unit] = Value

(* If nothing of an earlier request was on its way when a request was sent,   *)
(* the flush of the port suffices for that, for a multiple write too.         *)
DoneWhenAlone == alone => Done

(* The same without the condition.  (Violated: late answers.)                 *)
AlwaysDone == Done

(* Once no more frames are lost or late, every call is answered again,        *)
(* whatever was left on the line, in the port and in the units.               *)
Heals == <>[](master.status # "error")
=============================================================================
