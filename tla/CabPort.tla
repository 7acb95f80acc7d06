------------------------------ MODULE CabPort ------------------------------
(* The serial line of the cabinets (CabCommunication, SerialPort,            *)
(* linux_serial): one thread after the other sends a request and makes one   *)
(* read of what has come.  Nothing is flushed before, the answer is not      *)
(* compared with the cabinet asked, and a W command succeeds whatever comes. *)
EXTENDS Naturals, Sequences

CONSTANTS
  Threads, Cabs, None,
  FaultMax     \* answers that are lost, late or in two reads

VARIABLES
  call,        \* what each thread does
  lock,        \* CabCommunication::m_lock
  bus,         \* requests the cabinets have not answered
  tty,         \* what has come and was not read, in pieces
  acted,       \* threads whose request a cabinet has carried out
  faults

vars == <<call, lock, bus, tty, acted, faults>>

Kinds == {"read", "write"}
Idle == [pc |-> "idle", kind |-> None, cab |-> None, got |-> <<>>]

Init ==
  /\ call = [t \in Threads |-> Idle] /\ lock = None
  /\ bus = <<>> /\ tty = <<>> /\ acted = {} /\ faults = 0

Fault == faults < FaultMax /\ faults' = faults + 1

Goes(t, pc) == call' = [call EXCEPT ![t].pc = pc]

\* getAll and the readings of one value; openDoor, ctlFan, ctlCharger, setNodeId.
Call(t, kind, c) ==
  /\ call[t].pc = "idle"
  /\ call' = [call EXCEPT ![t] = [pc |-> "asked", kind |-> kind, cab |-> c, got |-> <<>>]]
  /\ acted' = acted \ {t}
  /\ UNCHANGED <<lock, bus, tty, faults>>

(* std::lock_guard  (variant: the calls that write do not take it).           *)
FreeToRead(t) == lock = None \/ call[t].kind = "write"
Free(t) == lock = None

Request(t) == [to |-> t, kind |-> call[t].kind, cab |-> call[t].cab]

Send(t) ==
  /\ call[t].pc = "asked" /\ Free(t) /\ lock' = t
  /\ Goes(t, "sent") /\ bus' = Append(bus, Request(t))
  /\ UNCHANGED <<tty, acted, faults>>

(* The read returns what has come, up to 32 bytes: no more than two pieces.   *)
(* Less than has come is a part that comes only after the read.               *)
Full(n) == n = 2 \/ n = Len(tty)

Receive(t) ==
  /\ call[t].pc = "sent" /\ tty # <<>>
  /\ \E n \in 1..2 :
       /\ n <= Len(tty)
       /\ call' = [call EXCEPT ![t].pc = "got", ![t].got = SubSeq(tty, 1, n)]
       /\ tty' = SubSeq(tty, n + 1, Len(tty))
       /\ Full(n) => UNCHANGED faults
       /\ ~Full(n) => Fault
  /\ lock' = None
  /\ UNCHANGED <<bus, acted>>

\* select finds nothing in 100 ms, 250 ms or 3 s.
Timeout(t) ==
  /\ call[t].pc = "sent" /\ tty = <<>>
  /\ bus # <<>> => Fault
  /\ bus = <<>> => UNCHANGED faults
  /\ Goes(t, "got") /\ lock' = None
  /\ UNCHANGED <<bus, tty, acted>>

----------------------------------------------------------------------------
(* What a call makes of it                                                    *)

Heads(got) == {i \in 1..Len(got) : got[i].part = "head"}

(* parse: a ':' and a '*' anywhere, and the values after the first 'R', which *)
(* is in the first piece of a reading.  Whose they are is not looked at.      *)
Parsed(got) ==
  /\ \E i \in 1..Len(got) : got[i].part \in {"head", "whole"}
  /\ \E i \in 1..Len(got) : got[i].part \in {"tail", "whole"}
  /\ Heads(got) # {}

\* The pieces a successful call relies on.
Used(t) ==
  IF call[t].kind = "read" THEN {call[t].got[i] : i \in Heads(call[t].got)}
  ELSE {call[t].got[i] : i \in 1..Len(call[t].got)}

Succeeds(t) ==
  /\ call[t].pc = "got"
  /\ IF call[t].kind = "read" THEN Parsed(call[t].got) ELSE call[t].got # <<>>

Return(t) ==
  /\ call[t].pc = "got"
  /\ call' = [call EXCEPT ![t] = Idle]
  /\ UNCHANGED <<lock, bus, tty, acted, faults>>

----------------------------------------------------------------------------
(* The cabinets (external): a request is carried out and answered in its      *)
(* turn, or it, or the answer, is lost.                                       *)

Piece(r, part) == [to |-> r.to, cab |-> r.cab, part |-> part]
Answer(r) ==
  IF r.kind = "read" THEN <<Piece(r, "head"), Piece(r, "tail")>> ELSE <<Piece(r, "whole")>>

CabAnswers ==
  /\ bus # <<>> /\ bus' = Tail(bus) /\ acted' = acted \cup {Head(bus).to}
  /\ tty' = tty \o Answer(Head(bus))
  /\ UNCHANGED <<call, lock, faults>>

Loses ==
  /\ bus # <<>> /\ bus' = Tail(bus) /\ Fault
  /\ acted' \in {acted, acted \cup {Head(bus).to}}
  /\ UNCHANGED <<call, lock, tty>>

Next ==
  \/ \E t \in Threads, kind \in Kinds, c \in Cabs : Call(t, kind, c)
  \/ \E t \in Threads : Send(t) \/ Receive(t) \/ Timeout(t) \/ Return(t)
  \/ CabAnswers \/ Loses

Spec == Init /\ [][Next]_vars

----------------------------------------------------------------------------
(* As long as every answer comes in time and in one read, a call that         *)
(* succeeds has the answer of the cabinet it asked, to its own request, which *)
(* was carried out, whatever the other threads ask on the same line.          *)
OwnAnswer ==
  \A t \in Threads :
    faults = 0 /\ Succeeds(t) =>
      t \in acted /\ \A a \in Used(t) : a.to = t /\ a.cab = call[t].cab

(* After a fault too.  (Violated: one late answer is read by the next call,   *)
(* whose answer is read by the one after it, and so on: a door is reported in *)
(* the state of another, and a command that no cabinet carried out succeeds.) *)
AlwaysOwnAnswer ==
  \A t \in Threads :
    Succeeds(t) =>
      t \in acted /\ \A a \in Used(t) : a.to = t /\ a.cab = call[t].cab
=============================================================================
