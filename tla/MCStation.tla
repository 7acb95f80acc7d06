----------------------------- MODULE MCStation -----------------------------
(* The station's threads and its two serial ports on small instances.  They  *)
(* are checked side by side: a behaviour is one of the application and its   *)
(* device, of the CAN adapter's port or of the cabinets' line, the others    *)
(* rest.                                                                     *)
EXTENDS Station, TLC

CONSTANTS
  Data, Plain, Crc, Size, LagMax, CanFaultMax,        \* of CanPort
  Threads, Cabs, Nobody, CabFaultMax                  \* of CabPort

VARIABLES
  part,
  ring, in, out, packet, rest, due, canFaults,
  call, lock, line, tty, acted, cabFaults

CanLine == INSTANCE CanPort WITH FaultMax <- CanFaultMax, faults <- canFaults
CabLine == INSTANCE CabPort WITH
  None <- Nobody, FaultMax <- CabFaultMax, bus <- line, faults <- cabFaults

canVars == <<ring, in, out, packet, rest, due, canFaults>>
cabVars == <<call, lock, line, tty, acted, cabFaults>>
allVars == <<part, vars, canVars, cabVars>>

ASSUME NobodyAssumption == Nobody \notin Threads
ASSUME PortAssumption == CanLine!Parameters

\* The CRCs of two frames are the bytes that start and stop them.
SmallCrc == (170 :> 85) @@ (85 :> 170) @@ (7 :> 9)

AllInit ==
  /\ part \in {"application", "can", "cabinets"}
  /\ Init /\ CanLine!Init /\ CabLine!Init

InCan(A) == part = "can" /\ A /\ UNCHANGED <<part, vars, cabVars>>

AllNext ==
  \/ part = "application" /\ Next /\ UNCHANGED <<part, canVars, cabVars>>
  \/ InCan(CanLine!Next)
  \/ part = "cabinets" /\ CabLine!Next /\ UNCHANGED <<part, vars, canVars>>

AllSpec ==
  /\ AllInit /\ [][AllNext]_allVars
  /\ Fairness
  /\ WF_allVars(InCan(CanLine!Process)) /\ WF_allVars(InCan(CanLine!Line))

\* The ports' properties under the names they state them by.
OwnAnswer == CabLine!OwnAnswer
AlwaysOwnAnswer == CabLine!AlwaysOwnAnswer
Transparent == CanLine!Transparent
CanResyncs == part = "can" => CanLine!Resyncs
============================================================================
