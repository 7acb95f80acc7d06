------------------------------ MODULE CanPort ------------------------------
(* The serial port of the CAN adapter (sm_host, sm_co_serial_if): frames     *)
(* AA, length, address, data, CRC, 55 arrive byte by byte in the ring        *)
(* m_buffer; each loop of the service takes one byte out of it and puts      *)
(* frames together in m_packet.  Lengths and CRCs have one byte here instead *)
(* of two, and the command and the result are left out.                      *)
EXTENDS Integers, Sequences

CONSTANTS
  Data,       \* the data of a frame, one byte
  Plain,      \* data that is neither the byte that starts nor the one that stops
  Crc,        \* the CRC of each
  Size,       \* SM_HOST_MAX_BUFFER, of the ring and of the packet
  LagMax,     \* bytes by which the service falls behind the line
  FaultMax    \* bytes lost or changed on the line

StartByte == 170
StopByte == 85
Addr == 1           \* SM_HOST_ADDR_DEFAULT
Length == 3         \* address, data and CRC

\* A frame fits in the ring, which has 4096 bytes.
Parameters ==
  /\ Data \subseteq 0..255 /\ Plain \subseteq Data /\ Crc \in [Data -> 0..255]
  /\ Size \in Nat /\ Size > Length + 2 /\ LagMax \in 1..(Size - 1) /\ FaultMax \in Nat

VARIABLES
  ring, in, out,    \* m_buffer, m_buffer_index, m_process_index
  packet,           \* m_packet up to m_packet_index
  rest,             \* of the frame on the line
  due,              \* the data of frames sent and not delivered, while there was no fault
  faults

vars == <<ring, in, out, packet, rest, due, faults>>

Covered(x) == <<StartByte, Length, Addr, x, Crc[x]>>
Frame(x) == Append(Covered(x), StopByte)

\* A changed byte is any of those that mean something, or another one.
Changed == {StartByte, StopByte, Length, Addr, 0}

Init ==
  /\ ring = [i \in 0..(Size - 1) |-> 0] /\ in = 0 /\ out = 0
  /\ packet = <<>> /\ rest = <<>> /\ due = <<>> /\ faults = 0

After(i) == (i + 1) % Size
Lag == (in - out) % Size

byte == ring[out]

(* The byte stops a frame: it comes where the length of the packet says       *)
(* (variant: wherever it comes).                                              *)
StopsAnywhere == byte = StopByte /\ Len(packet) >= 2
Stops == byte = StopByte /\ Len(packet) >= 2 /\ Len(packet) = packet[2] + 2

Foreign == Append(packet, byte)[3] # Addr

(* A frame of another address is neither dropped nor passed: the service      *)
(* looks at its last byte for ever, until the ring goes round and another     *)
(* byte is in that place.                                                     *)
Wedged == in # out /\ Stops /\ Foreign

Ends == in # out /\ Stops /\ ~Foreign

Intact == \E x \in Data : packet = Covered(x)

Deliver ==
  /\ Ends /\ Intact
  /\ packet' = <<>> /\ out' = After(out)
  /\ due' = IF due = <<>> THEN due ELSE Tail(due)
  /\ UNCHANGED <<ring, in, rest, faults>>

\* The CRC does not match.
Reject ==
  /\ Ends /\ ~Intact
  /\ packet' = <<>> /\ out' = After(out)
  /\ UNCHANGED <<ring, in, rest, due, faults>>

\* Any other byte; the packet is full before it gets its last place.
Collect ==
  /\ in # out /\ ~Stops
  /\ packet' = IF \/ packet = <<>> /\ byte # StartByte
                  \/ Len(packet) + 1 >= Size
               THEN <<>> ELSE Append(packet, byte)
  /\ out' = After(out)
  /\ UNCHANGED <<ring, in, rest, due, faults>>

\* The last byte of a foreign frame is looked at again.
Stay == Wedged /\ UNCHANGED vars

(* The ring never refuses a byte  (variant: when it is full).                 *)
RoomIfNotFull == Lag < Size - 1
Room == TRUE

\* Normally the service keeps up with the line.
Takes == (Lag < LagMax \/ Wedged) /\ Room

Store(b) == ring' = [ring EXCEPT ![in] = b] /\ in' = After(in)

Feed ==
  /\ rest # <<>> /\ Takes /\ Store(Head(rest)) /\ rest' = Tail(rest)
  /\ UNCHANGED <<out, packet, due, faults>>

(* The adapter (external).  After a fault its data is plain.                  *)
Send(x) ==
  /\ rest = <<>> /\ rest' = Frame(x)
  /\ faults > 0 => x \in Plain
  /\ due' = IF faults = 0 THEN Append(due, x) ELSE due
  /\ UNCHANGED <<ring, in, out, packet, faults>>

Lost ==
  /\ rest # <<>> /\ faults < FaultMax /\ rest' = Tail(rest)
  /\ faults' = faults + 1 /\ due' = <<>>
  /\ UNCHANGED <<ring, in, out, packet>>

Damaged ==
  /\ rest # <<>> /\ faults < FaultMax /\ Takes
  /\ \E b \in Changed : Store(b)
  /\ rest' = Tail(rest) /\ faults' = faults + 1 /\ due' = <<>>
  /\ UNCHANGED <<out, packet>>

Process == Deliver \/ Reject \/ Collect
Line == Feed \/ \E x \in Data : Send(x)

Next == Process \/ Stay \/ Line \/ Lost \/ Damaged

Fairness == WF_vars(Process) /\ WF_vars(Line)

Spec == Init /\ [][Next]_vars /\ Fairness

----------------------------------------------------------------------------
(* On a line without faults frames are delivered in the order they were sent, *)
(* none is lost and none comes twice, whatever bytes their data and CRC have. *)
Transparent ==
  /\ [](faults = 0 /\ in = out /\ rest = <<>> => due = <<>>)
  /\ [][faults = 0 /\ Deliver => due # <<>> /\ packet = Covered(Head(due))]_vars

(* A byte that is lost, or changed into whatever it may be, costs some frames *)
(* and never silences the bus: later frames of plain data are delivered.      *)
Resyncs == []<><<Deliver>>_vars
=============================================================================
