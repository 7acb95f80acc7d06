--------------------------- MODULE StationProofs ---------------------------
(***************************************************************************)
(* The invariants of Station, for every number of start commands, events   *)
(* and callers of the API, and those of the two serial ports, for every    *)
(* number of threads and cabinets and every ring that a frame fits in.     *)
(***************************************************************************)
EXTENDS MCStation, Integers, TLAPS

(* What the start command has done so far: the loop thread it asks for is     *)
(* not there yet, and at most it has a device of its own.                     *)
Commands ==
  /\ main.pc # "idle" =>
       starts \in Starts /\ main.new \in {starts, None} /\ loops[starts] = "none"
  /\ main.pc \in {"build", "run"} => main.new = starts
  /\ \A i \in Starts : loops[i] # "none" => i <= starts
  /\ \A i \in Starts : got[i] = 0 <=> loops[i] # "call"

(* Who runs and who has the bus, at each place of the start command: until    *)
(* the assignment of g_bssDevice the old device's service runs, then none but *)
(* the new one's.  After a second assignment the main thread waits for ever,  *)
(* and nothing is said.                                                       *)
Services ==
  \A i \in Starts : service[i] = "running" =>
    /\ main.pc \in {"idle", "build", "run", "finish"} => device = i
    /\ main.pc \in {"idle", "build", "finish"} => bus = i
    /\ main.pc = "publish" => i \in {device, main.new}
    /\ main.pc = "publish" /\ main.new = None => bus = i

NewHasBus ==
  main.pc \in {"run", "publish"} /\ main.new # None => bus = main.new

(* Until a second start command g_bssDevice is assigned once, from null: who  *)
(* found it there finds it again.                                             *)
Once ==
  /\ starts = 0 => main.pc = "idle" /\ device = None
  /\ starts = 1 /\ main.pc \in {"build", "run", "publish"} => device = None
  /\ starts <= 1 =>
       /\ ~crashed
       /\ \A c \in Callers : caller[c] = "checked" => device # None
       /\ \A i \in Starts : loops[i] = "use" => device # None

(* What one loop thread has, and what it left in the queue: the events that   *)
(* were told, in their order.                                                 *)
Held == IF \E i \in Starts : loops[i] = "call" THEN 1 ELSE 0

Order ==
  OneLoop =>
    /\ \A i \in Starts : loops[i] = "pop" => events # <<>>
    /\ \A i \in Starts : loops[i] = "call" => got[i] = Len(handed) + 1
    /\ \A k \in 1..Len(handed) : handed[k] = k
    /\ \A k \in 1..Len(events) : events[k] = Len(handed) + Held + k
    /\ told = Len(handed) + Held + Len(events)

TypeInv == TypeOK /\ Commands

StationInv ==
  /\ TypeInv /\ Services /\ NewHasBus /\ Once /\ Order

LEMMA InitType == Init => TypeInv
<1> SUFFICES ASSUME Init PROVE TypeInv
  OBVIOUS
<1>1. TypeOK
  <2>1. main \in [pc : {"idle", "build", "run", "publish", "finish", "join"}, new : 0..StartMax]
    BY StationAssumption DEF Init, None
  <2>2. starts \in 0..StartMax /\ device \in 0..StartMax /\ bus \in 0..StartMax
    BY StationAssumption DEF Init, None
  <2>3. service \in [Starts -> {"none", "running", "ended"}]
    BY DEF Init
  <2>4. loops \in [Starts -> {"none", "due", "check", "use", "peek", "pop", "call"}]
    BY DEF Init
  <2>5. got \in [Starts -> 0..EventMax] /\ told \in 0..EventMax
    BY StationAssumption DEF Init
  <2>6. events \in Seq(1..EventMax) /\ handed \in Seq(1..EventMax)
    BY DEF Init
  <2>7. caller \in [Callers -> {"idle", "checked"}] /\ crashed \in BOOLEAN
    BY DEF Init
  <2> QED
    BY <2>1, <2>2, <2>3, <2>4, <2>5, <2>6, <2>7 DEF TypeOK
<1>2. Commands
  BY StationAssumption DEF Init, Commands, None, Starts
<1> QED
  BY <1>1, <1>2 DEF TypeInv

LEMMA StartType == TypeInv /\ Start => TypeInv'
<1> SUFFICES ASSUME TypeInv, Start PROVE TypeInv'
  OBVIOUS
<1>1. starts + 1 \in 1..StartMax
  BY StationAssumption DEF TypeInv, TypeOK, Start
<1>2. main' \in [pc : {"idle", "build", "run", "publish", "finish", "join"}, new : 0..StartMax]
  BY <1>1 DEF Start
<1>3. TypeOK'
  BY <1>1, <1>2 DEF TypeInv, TypeOK, Start
<1>4. Commands'
  BY <1>1 DEF TypeInv, TypeOK, Commands, Start, None, Starts
<1> QED
  BY <1>3, <1>4 DEF TypeInv

LEMMA MainType == TypeInv /\ MainStep => TypeInv'
<1> SUFFICES ASSUME TypeInv, MainStep PROVE TypeInv'
  OBVIOUS
<1> DEFINE Places == [pc : {"idle", "build", "run", "publish", "finish", "join"}, new : 0..StartMax]
<1>0. main \in Places /\ None \in 0..StartMax /\ starts \in 0..StartMax /\ main.new \in 0..StartMax
  BY StationAssumption DEF TypeInv, TypeOK, None
<1>1. CASE Build
  <2>1. main' \in Places /\ bus' \in 0..StartMax
    BY <1>0, <1>1 DEF Build, Refused, BusTaken, Registered, TypeInv, TypeOK
  <2>2. Commands'
    BY <1>0, <1>1 DEF Build, Refused, BusTaken, TypeInv, Commands
  <2> QED
    BY <1>1, <2>1, <2>2 DEF Build, TypeInv, TypeOK
<1>2. CASE RunService
  <2>1. main' \in Places
    BY <1>0, <1>2 DEF RunService
  <2>2. service' \in [Starts -> {"none", "running", "ended"}]
    BY <1>2 DEF RunService, TypeInv, TypeOK
  <2>3. Commands'
    BY <1>0, <1>2 DEF RunService, TypeInv, Commands
  <2> QED
    BY <1>2, <2>1, <2>2, <2>3 DEF RunService, TypeInv, TypeOK
<1>3. CASE Publish
  <2>1. main' \in Places /\ device' \in 0..StartMax /\ bus' \in 0..StartMax
    BY <1>0, <1>3 DEF Publish, TypeInv, TypeOK
  <2>2. service' \in [Starts -> {"none", "running", "ended"}]
    BY <1>3 DEF Publish, TypeInv, TypeOK
  <2>3. Commands'
    BY <1>0, <1>3 DEF Publish, TypeInv, Commands
  <2> QED
    BY <1>3, <2>1, <2>2, <2>3 DEF Publish, TypeInv, TypeOK
<1>4. CASE Finish
  <2>1. main' \in Places
    BY <1>0, <1>4 DEF Finish
  <2>2. loops' \in [Starts -> {"none", "due", "check", "use", "peek", "pop", "call"}]
    BY <1>4 DEF Finish, TypeInv, TypeOK
  <2>3. \A i \in Starts : loops'[i] = IF i = starts THEN "due" ELSE loops[i]
    BY <1>4 DEF Finish, TypeInv, TypeOK
  <2>4. Commands'
    BY <1>0, <1>4, <2>3 DEF Finish, TypeInv, Commands, Starts
  <2> QED
    BY <1>4, <2>1, <2>2, <2>4 DEF Finish, TypeInv, TypeOK
<1>5. ASSUME NEW i \in Starts, LoopStarts(i) PROVE TypeInv'
  <2>1. loops' \in [Starts -> {"none", "due", "check", "use", "peek", "pop", "call"}]
    BY <1>5 DEF LoopStarts, TypeInv, TypeOK
  <2>2. Commands'
    BY <1>5 DEF LoopStarts, TypeInv, TypeOK, Commands
  <2> QED
    BY <1>5, <2>1, <2>2 DEF LoopStarts, TypeInv, TypeOK
<1> QED
  BY <1>1, <1>2, <1>3, <1>4, <1>5 DEF MainStep

\* The queue when an event is told or taken.
LEMMA Told ==
  ASSUME TypeOK, Tell
  PROVE  /\ told' \in 0..EventMax /\ told' = told + 1
         /\ events' \in Seq(1..EventMax) /\ Len(events') = Len(events) + 1
         /\ \A k \in 1..Len(events) : events'[k] = events[k]
         /\ events'[Len(events) + 1] = told + 1
BY StationAssumption DEF TypeOK, Tell

LEMMA Popped ==
  ASSUME TypeOK, events # <<>>
  PROVE  /\ Head(events) \in 1..EventMax /\ Head(events) = events[1]
         /\ Rest \in Seq(1..EventMax) /\ Len(Rest) = Len(events) - 1
         /\ \A k \in 1..Len(Rest) : Rest[k] = events[k + 1]
BY StationAssumption DEF TypeOK, Rest

LEMMA Handed ==
  ASSUME TypeOK, NEW e \in 1..EventMax
  PROVE  /\ Append(handed, e) \in Seq(1..EventMax) /\ Len(Append(handed, e)) = Len(handed) + 1
         /\ \A k \in 1..Len(handed) : Append(handed, e)[k] = handed[k]
         /\ Append(handed, e)[Len(handed) + 1] = e
BY DEF TypeOK

LEMMA LoopType == TypeInv /\ (\E i \in Starts : Loop(i)) => TypeInv'
<1> SUFFICES ASSUME TypeInv, NEW i \in Starts, Loop(i) PROVE TypeInv'
  OBVIOUS
<1> USE DEF TypeInv, Commands, None, Starts, Goes
<1>1. CASE LoopChecks(i)
  BY <1>1 DEF LoopChecks, TypeOK
<1>2. CASE LoopUses(i)
  BY <1>2, Told DEF LoopUses, TypeOK
<1>3. CASE LoopPeeks(i)
  BY <1>3 DEF LoopPeeks, TypeOK
<1>4. CASE LoopPops(i)
  <2>1. CASE events = <<>>
    BY <1>4, <2>1 DEF LoopPops, TypeOK
  <2>2. CASE events # <<>>
    <3>1. /\ Head(events) \in 1..EventMax /\ Rest \in Seq(1..EventMax)
          /\ got' = [got EXCEPT ![i] = Head(events)] /\ events' = Rest
          /\ loops' = [loops EXCEPT ![i] = "call"]
          /\ UNCHANGED <<main, starts, device, service, bus, told, handed, caller, crashed>>
      BY <1>4, <2>2, Popped DEF LoopPops
    <3>2. got' \in [Starts -> 0..EventMax]
      BY <3>1 DEF TypeOK
    <3>3. loops' \in [Starts -> {"none", "due", "check", "use", "peek", "pop", "call"}]
      BY <3>1 DEF TypeOK
    <3>4. TypeOK'
      BY <3>1, <3>2, <3>3 DEF TypeOK
    <3>5. loops[i] # "none" /\ got'[i] # 0
      BY <1>4, <3>1 DEF LoopPops, TypeOK
    <3>6. Commands'
      BY <3>1, <3>5 DEF TypeOK
    <3> QED
      BY <3>4, <3>6
  <2> QED
    BY <2>1, <2>2
<1>5. CASE LoopCalls(i)
  <2>1. got[i] \in 1..EventMax
    BY <1>5, StationAssumption DEF LoopCalls, TypeOK
  <2> QED
    BY <1>5, <2>1, Handed, StationAssumption DEF LoopCalls, TypeOK
<1> QED
  BY <1>1, <1>2, <1>3, <1>4, <1>5 DEF Loop

LEMMA OtherType ==
  TypeInv /\ ((\E i \in Starts : ServiceTells(i)) \/ (\E c \in Callers : Checks(c) \/ Uses(c))) => TypeInv'
<1> SUFFICES ASSUME TypeInv,
                    (\E i \in Starts : ServiceTells(i)) \/ (\E c \in Callers : Checks(c) \/ Uses(c))
             PROVE  TypeInv'
  OBVIOUS
<1> USE DEF TypeInv, Commands, None, Starts
<1>1. CASE \E i \in Starts : ServiceTells(i)
  <2>1. TypeOK /\ Tell /\ UNCHANGED <<main, starts, device, service, bus, loops, got, handed, caller, crashed>>
    BY <1>1 DEF ServiceTells
  <2>2. told' \in 0..EventMax /\ events' \in Seq(1..EventMax)
    BY <2>1, Told
  <2>3. TypeOK'
    BY <2>1, <2>2 DEF TypeOK
  <2>4. Commands'
    BY <2>1
  <2> QED
    BY <2>3, <2>4
<1>2. ASSUME NEW c \in Callers, Checks(c) PROVE TypeInv'
  <2>1. caller' \in [Callers -> {"idle", "checked"}]
    BY <1>2 DEF Checks, TypeOK
  <2>2. UNCHANGED <<main, starts, device, service, bus, loops, got, events, told, handed, crashed>>
    BY <1>2 DEF Checks
  <2>3. TypeOK'
    BY <2>1, <2>2 DEF TypeOK
  <2>4. Commands'
    BY <2>2
  <2> QED
    BY <2>3, <2>4
<1>3. ASSUME NEW c \in Callers, Uses(c) PROVE TypeInv'
  <2>0. crashed' \in BOOLEAN
    BY <1>3 DEF Uses, TypeOK
  <2>1. caller' \in [Callers -> {"idle", "checked"}]
    BY <1>3 DEF Uses, Thereafter, TypeOK
  <2>2. UNCHANGED <<main, starts, device, service, bus, loops, got, events, told, handed>>
    BY <1>3 DEF Uses
  <2>3. TypeOK'
    BY <2>0, <2>1, <2>2 DEF TypeOK
  <2>4. Commands'
    BY <2>2
  <2> QED
    BY <2>3, <2>4
<1> QED
  BY <1>1, <1>2, <1>3

LEMMA Rebirth == Reborn => Init'
BY DEF Reborn, Init

LEMMA RebornType == Reborn => TypeInv'
BY Rebirth, InitType, PTL

LEMMA TypeStep == TypeInv /\ [Next]_vars => TypeInv'
<1>1. TypeInv /\ UNCHANGED vars => TypeInv'
  BY DEF TypeInv, TypeOK, Commands, vars
<1> QED
  BY <1>1, StartType, MainType, LoopType, OtherType, RebornType DEF Next

LEMMA TypeInvariant == Spec => []TypeInv
BY InitType, TypeStep, PTL DEF Spec

(* Every variable keeps its type, however many devices are created and        *)
(* destroyed and however the threads that read them interleave.               *)
THEOREM StationTypeCorrect == Spec => []TypeOK
<1>1. TypeInv => TypeOK
  BY DEF TypeInv
<1> QED
  BY <1>1, TypeInvariant, PTL

----------------------------------------------------------------------------
(* The service threads and the bus.                                           *)

Running == Services /\ NewHasBus

LEMMA InitRunning == Init => Running
BY DEF Init, Running, Services, NewHasBus

LEMMA SameRunning == Running /\ UNCHANGED <<main, device, service, bus>> => Running'
BY DEF Running, Services, NewHasBus

LEMMA StartRunning == TypeInv /\ Running /\ Start => Running'
BY DEF Running, Services, NewHasBus, Start

LEMMA MainRunning == TypeInv /\ Running /\ MainStep => Running'
<1> SUFFICES ASSUME TypeInv, Running, MainStep PROVE Running'
  OBVIOUS
<1> USE DEF Running, Services, NewHasBus
<1>0. main \in [pc : {"idle", "build", "run", "publish", "finish", "join"}, new : 0..StartMax]
  BY DEF TypeInv, TypeOK
<1>1. CASE Build
  BY <1>0, <1>1 DEF Build, Refused, BusTaken, Registered, TypeInv, Commands, None, Starts
<1>2. CASE RunService
  <2>1. main.new \in Starts /\ main.pc = "run"
    BY <1>2 DEF RunService, TypeInv, Commands
  <2>2. \A i \in Starts : service'[i] = IF i = main.new THEN "running" ELSE service[i]
    BY <1>2, <2>1 DEF RunService, TypeInv, TypeOK
  <2>3. /\ main' = [main EXCEPT !.pc = "publish"] /\ main'.pc = "publish" /\ main'.new = main.new
        /\ UNCHANGED <<device, bus>>
    BY <1>0, <1>2 DEF RunService
  <2>4. ASSUME NEW i \in Starts, service'[i] = "running" PROVE i \in {device, main.new}
    BY <2>1, <2>2, <2>4
  <2>5. main.new # None /\ bus = main.new
    BY <2>1 DEF None, Starts
  <2>6. Services'
    BY <2>3, <2>4, <2>5
  <2>7. NewHasBus'
    BY <2>3, <2>5
  <2> QED
    BY <2>6, <2>7
<1>3. CASE Publish
  <2>1. CASE device # None
    <3>1. main'.pc = "join"
      BY <1>0, <1>3, <2>1 DEF Publish, ShutDown
    <3> QED
      BY <3>1
  <2>2. CASE device = None
    <3>1. main'.pc = "finish" /\ device' = main.new /\ bus' = bus /\ main.pc = "publish"
      BY <1>0, <1>3, <2>2 DEF Publish
    <3>2. \A i \in Starts : service'[i] = service[i]
      BY <1>3, <2>2 DEF Publish, None, Starts
    <3>3. \A i \in Starts : service[i] = "running" => i = main.new /\ i # None
      BY <2>2, <3>1 DEF None, Starts
    <3> QED
      BY <3>1, <3>2, <3>3
  <2> QED
    BY <2>1, <2>2
<1>4. CASE Finish
  BY <1>4 DEF Finish
<1>5. ASSUME NEW i \in Starts, LoopStarts(i) PROVE Running'
  BY <1>5, SameRunning DEF LoopStarts
<1> QED
  BY <1>1, <1>2, <1>3, <1>4, <1>5 DEF MainStep

LEMMA RunningStep == TypeInv /\ Running /\ [Next]_vars => Running'
<1> SUFFICES ASSUME TypeInv, Running, [Next]_vars PROVE Running'
  OBVIOUS
<1>1. ASSUME NEW i \in Starts, ServiceTells(i) \/ Loop(i) PROVE UNCHANGED <<main, device, service, bus>>
  BY <1>1 DEF ServiceTells, Loop, LoopChecks, LoopUses, LoopPeeks, LoopPops, LoopCalls
<1>2. ASSUME NEW c \in Callers, Checks(c) \/ Uses(c) PROVE UNCHANGED <<main, device, service, bus>>
  BY <1>2 DEF Checks, Uses
<1>3. CASE UNCHANGED vars
  BY <1>3, SameRunning DEF vars
<1>4. CASE Reborn
  BY <1>4 DEF Reborn, Running, Services, NewHasBus
<1> QED
  BY <1>1, <1>2, <1>3, <1>4, SameRunning, StartRunning, MainRunning DEF Next

LEMMA RunningInvariant == Spec => []Running
BY InitRunning, RunningStep, TypeInvariant, PTL DEF Spec

(* When a start command has returned, the service thread that runs is the one *)
(* whose device has the CAN interface, and no other runs.                     *)
THEOREM ServiceAlwaysHasBus == Spec => []ServiceHasBus
<1>1. Running => ServiceHasBus
  BY DEF Running, Services, ServiceHasBus
<1> QED
  BY <1>1, RunningInvariant, PTL

----------------------------------------------------------------------------
(* The queue and the loop threads.                                            *)

LEMMA InitOrder == Init => Order
BY DEF Init, Order, OneLoop, Held

LEMMA InitOrderNext == Init' => Order'
BY InitOrder, PTL

LEMMA SameOrder == Order /\ UNCHANGED <<loops, got, events, told, handed>> => Order'
BY DEF Order, OneLoop, Held

\* A loop thread goes on without an event in its hands.
LEMMA GoesOrder ==
  ASSUME TypeInv, Order, NEW i \in Starts, NEW pc \in {"due", "check", "use", "peek", "pop"},
         loops' = [loops EXCEPT ![i] = pc], loops[i] # "call", pc = "pop" => events # <<>>,
         loops[i] = "none" => pc = "due",
         UNCHANGED <<got, events, told, handed>>
  PROVE  Order'
<1>1. \A j \in Starts : loops'[j] = IF j = i THEN pc ELSE loops[j]
  BY DEF TypeInv, TypeOK
<1>2. OneLoop' => OneLoop
  BY <1>1 DEF OneLoop
<1>3. Held' = Held
  BY <1>1 DEF Held
<1> QED
  BY <1>1, <1>2, <1>3 DEF Order

\* The queue with one more event goes on where it ended.
LEMMA TellFacts ==
  ASSUME TypeInv, Order, OneLoop, Tell
  PROVE  /\ \A k \in 1..Len(events') : events'[k] = Len(handed) + Held + k
         /\ told' = Len(handed) + Held + Len(events') /\ events' # <<>>
<1>1. Held \in Nat /\ Len(handed) \in Nat /\ Len(events) \in Nat /\ told \in Nat
  BY StationAssumption DEF Held, TypeInv, TypeOK
<1>2. /\ told' = told + 1 /\ Len(events') = Len(events) + 1
      /\ \A k \in 1..Len(events) : events'[k] = events[k]
      /\ events'[Len(events) + 1] = told + 1
  BY Told DEF TypeInv
<1>3. told = Len(handed) + Held + Len(events)
  BY DEF Order
<1>4. ASSUME NEW k \in 1..Len(events') PROVE events'[k] = Len(handed) + Held + k
  <2>1. CASE k \in 1..Len(events)
    BY <1>2, <2>1 DEF Order
  <2>2. CASE k = Len(events) + 1
    BY <1>1, <1>2, <1>3, <2>2
  <2> QED
    BY <1>1, <1>2, <2>1, <2>2
<1> QED
  BY <1>1, <1>2, <1>3, <1>4

LEMMA TellOrder ==
  ASSUME TypeInv, Order, Tell, UNCHANGED <<loops, got, handed>>
  PROVE  Order'
<1>1. OneLoop' = OneLoop /\ Held' = Held
  BY DEF OneLoop, Held
<1> QED
  BY <1>1, TellFacts DEF Order

LEMMA PopOrder ==
  ASSUME TypeInv, Order, NEW i \in Starts, LoopPops(i)
  PROVE  Order'
<1>1. CASE events = <<>>
  BY <1>1, SameOrder DEF LoopPops
<1>2. CASE events # <<>>
  <2>1. /\ loops[i] = "pop" /\ got' = [got EXCEPT ![i] = Head(events)] /\ events' = Rest
        /\ loops' = [loops EXCEPT ![i] = "call"] /\ UNCHANGED <<told, handed>>
    BY <1>2 DEF LoopPops, Goes
  <2>2. /\ \A j \in Starts : loops'[j] = IF j = i THEN "call" ELSE loops[j]
        /\ got'[i] = Head(events)
    BY <2>1 DEF TypeInv, TypeOK
  <2>3. SUFFICES ASSUME OneLoop' PROVE Order'
    BY DEF Order
  <2>4. OneLoop /\ \A j \in Starts : j # i => loops[j] = "none"
    BY <2>1, <2>2, <2>3 DEF OneLoop
  <2>5. Held = 0 /\ Held' = 1
    BY <2>1, <2>2, <2>4 DEF Held
  <2>6. Len(handed) \in Nat /\ Len(events) \in Nat /\ Len(events) # 0
    BY <1>2 DEF TypeInv, TypeOK
  <2>7. /\ Head(events) = events[1] /\ Len(events') = Len(events) - 1
        /\ \A k \in 1..Len(events') : events'[k] = events[k + 1]
    BY <1>2, <2>1, Popped DEF TypeInv
  <2>8. got'[i] = Len(handed) + 1
    BY <2>2, <2>4, <2>5, <2>6, <2>7 DEF Order
  <2>9. \A k \in 1..Len(events') : events'[k] = Len(handed) + 1 + k
    BY <2>4, <2>5, <2>6, <2>7 DEF Order
  <2>10. told' = Len(handed) + 1 + Len(events')
    BY <2>1, <2>4, <2>5, <2>6, <2>7 DEF Order
  <2>11. \A j \in Starts : loops'[j] # "pop"
    BY <2>2, <2>4
  <2>12. \A j \in Starts : loops'[j] = "call" => j = i
    BY <2>2, <2>4
  <2> QED
    BY <2>1, <2>4, <2>5, <2>8, <2>9, <2>10, <2>11, <2>12 DEF Order
<1> QED
  BY <1>1, <1>2

LEMMA CallOrder ==
  ASSUME TypeInv, Order, NEW i \in Starts, LoopCalls(i)
  PROVE  Order'
<1>1. /\ loops[i] = "call" /\ handed' = Append(handed, got[i])
      /\ loops' = [loops EXCEPT ![i] = "check"] /\ UNCHANGED <<told, events>>
  BY DEF LoopCalls, Goes
<1>2. /\ \A j \in Starts : loops'[j] = IF j = i THEN "check" ELSE loops[j]
      /\ got[i] \in 1..EventMax
  BY <1>1, StationAssumption DEF TypeInv, TypeOK, Commands
<1>3. SUFFICES ASSUME OneLoop' PROVE Order'
  BY DEF Order
<1>4. OneLoop /\ \A j \in Starts : j # i => loops[j] = "none"
  BY <1>1, <1>2, <1>3 DEF OneLoop
<1>5. Held = 1 /\ Held' = 0
  BY <1>1, <1>2, <1>4 DEF Held
<1>6. Len(handed) \in Nat /\ Len(events) \in Nat
  BY DEF TypeInv, TypeOK
<1>7. /\ Len(handed') = Len(handed) + 1
      /\ \A k \in 1..Len(handed) : handed'[k] = handed[k]
      /\ handed'[Len(handed) + 1] = got[i]
  BY <1>1, <1>2, Handed DEF TypeInv
<1>8. got[i] = Len(handed) + 1
  BY <1>1, <1>4 DEF Order
<1>9. \A k \in 1..Len(handed') : handed'[k] = k
  <2> SUFFICES ASSUME NEW k \in 1..Len(handed') PROVE handed'[k] = k
    OBVIOUS
  <2>1. k \in 1..Len(handed) \/ k = Len(handed) + 1
    BY <1>6, <1>7
  <2> QED
    BY <1>4, <1>7, <1>8, <2>1 DEF Order
<1>10. \A k \in 1..Len(events') : events'[k] = Len(handed') + Held' + k
  BY <1>1, <1>4, <1>5, <1>6, <1>7 DEF Order
<1>11. told' = Len(handed') + Held' + Len(events')
  BY <1>1, <1>4, <1>5, <1>6, <1>7 DEF Order
<1>12. \A j \in Starts : loops'[j] \notin {"pop", "call"}
  BY <1>2, <1>4
<1> QED
  BY <1>9, <1>10, <1>11, <1>12 DEF Order

LEMMA LoopOrder == TypeInv /\ Order /\ (\E i \in Starts : Loop(i)) => Order'
<1> SUFFICES ASSUME TypeInv, Order, NEW i \in Starts, Loop(i) PROVE Order'
  OBVIOUS
<1>1. CASE LoopChecks(i)
  BY <1>1, GoesOrder DEF LoopChecks, Goes
<1>2. CASE LoopUses(i)
  <2>1. CASE device = None
    BY <1>2, <2>1, SameOrder DEF LoopUses
  <2>2. CASE device # None /\ UNCHANGED <<events, told>>
    BY <1>2, <2>2, GoesOrder DEF LoopUses, Goes
  <2>3. CASE device # None /\ Tell
    <3>1. \A j \in Starts : loops'[j] = IF j = i THEN "peek" ELSE loops[j]
      BY <1>2, <2>3 DEF LoopUses, Goes, TypeInv, TypeOK
    <3>2. loops[i] = "use" /\ UNCHANGED <<got, handed>>
      BY <1>2 DEF LoopUses
    <3>3. (OneLoop' => OneLoop) /\ Held' = Held /\ \A j \in Starts : loops'[j] = "pop" => loops[j] = "pop"
      BY <3>1, <3>2 DEF OneLoop, Held
    <3>4. \A j \in Starts : loops'[j] = "call" => loops[j] = "call"
      BY <3>1
    <3> QED
      BY <2>3, <3>2, <3>3, <3>4, TellFacts DEF Order
  <2> QED
    BY <1>2, <2>1, <2>2, <2>3 DEF LoopUses
<1>3. CASE LoopPeeks(i)
  BY <1>3, GoesOrder DEF LoopPeeks, Goes, Waiting
<1>4. CASE LoopPops(i)
  BY <1>4, PopOrder
<1>5. CASE LoopCalls(i)
  BY <1>5, CallOrder
<1> QED
  BY <1>1, <1>2, <1>3, <1>4, <1>5 DEF Loop

LEMMA OrderStep == TypeInv /\ Order /\ [Next]_vars => Order'
<1> SUFFICES ASSUME TypeInv, Order, [Next]_vars PROVE Order'
  OBVIOUS
<1>1. CASE UNCHANGED vars
  BY <1>1, SameOrder DEF vars
<1>2. CASE Start
  BY <1>2, SameOrder DEF Start
<1>3. CASE Build \/ RunService \/ Publish
  BY <1>3, SameOrder DEF Build, RunService, Publish
<1>4. CASE Finish
  <2>1. starts \in Starts /\ loops[starts] = "none"
    BY <1>4 DEF Finish, TypeInv, Commands
  <2> QED
    BY <1>4, <2>1, GoesOrder DEF Finish
<1>5. ASSUME NEW i \in Starts, LoopStarts(i) PROVE Order'
  BY <1>5, GoesOrder DEF LoopStarts
<1>6. CASE Reborn
  BY <1>6, Rebirth, InitOrderNext
<1>7. ASSUME NEW i \in Starts, ServiceTells(i) PROVE Order'
  BY <1>7, TellOrder DEF ServiceTells
<1>8. ASSUME NEW c \in Callers, Checks(c) \/ Uses(c) PROVE Order'
  BY <1>8, SameOrder DEF Checks, Uses
<1> QED
  BY <1>1, <1>2, <1>3, <1>4, <1>5, <1>6, <1>7, <1>8, LoopOrder DEF Next, MainStep

LEMMA OrderInvariant == Spec => []Order
BY InitOrder, OrderStep, TypeInvariant, PTL DEF Spec

(* With one loop thread the application is told every event once, in the      *)
(* order in which they were told.                                             *)
THEOREM AlwaysHandedInOrder == Spec => []HandedInOrder
<1>1. TypeInv /\ Order => HandedInOrder
  BY DEF Order, HandedInOrder, TypeInv, TypeOK
<1> QED
  BY <1>1, TypeInvariant, OrderInvariant, PTL

----------------------------------------------------------------------------
(* One start command.                                                         *)

LEMMA InitOnce == Init => Once
BY DEF Init, Once

LEMMA InitOnceNext == Init' => Once'
BY InitOnce, PTL

LEMMA SingleLoop == TypeInv /\ starts <= 1 => OneLoop
BY DEF TypeInv, TypeOK, Commands, OneLoop, Starts

LEMMA MainOnce == TypeInv /\ Once /\ (Start \/ MainStep) => Once'
<1> SUFFICES ASSUME TypeInv, Once, Start \/ MainStep PROVE Once'
  OBVIOUS
<1>0. starts \in Nat /\ main \in [pc : {"idle", "build", "run", "publish", "finish", "join"}, new : 0..StartMax]
  BY DEF TypeInv, TypeOK
<1>1. CASE Start
  BY <1>0, <1>1 DEF Start, Once
<1>2. CASE Build \/ RunService
  <2>1. main.pc \in {"build", "run"} /\ main'.pc \in {"run", "publish"}
    BY <1>0, <1>2 DEF Build, Refused, BusTaken, RunService
  <2>2. starts \in Starts /\ UNCHANGED <<starts, device, loops, caller, crashed>>
    BY <1>2 DEF Build, RunService, TypeInv, Commands
  <2> QED
    BY <1>0, <2>1, <2>2 DEF Once, Starts
<1>3. CASE Publish
  <2>1. main.pc = "publish" /\ main'.pc \in {"join", "finish"}
    BY <1>0, <1>3 DEF Publish
  <2>2. starts \in Starts /\ UNCHANGED <<starts, loops, caller, crashed>>
    BY <1>3 DEF Publish, TypeInv, Commands
  <2> QED
    BY <1>0, <2>1, <2>2 DEF Once, Starts
<1>4. CASE Finish
  <2>1. main'.pc = "idle" /\ starts \in Starts /\ UNCHANGED <<starts, device, caller, crashed>>
    BY <1>4 DEF Finish, TypeInv, Commands
  <2>2. \A i \in Starts : loops'[i] = "use" => loops[i] = "use"
    BY <1>4 DEF Finish, TypeInv, TypeOK
  <2> QED
    BY <1>0, <2>1, <2>2 DEF Once, Starts
<1>5. ASSUME NEW i \in Starts, LoopStarts(i) PROVE Once'
  <2>1. UNCHANGED <<main, starts, device, caller, crashed>>
    BY <1>5 DEF LoopStarts
  <2>2. \A j \in Starts : loops'[j] = "use" => loops[j] = "use"
    BY <1>5 DEF LoopStarts, TypeInv, TypeOK
  <2> QED
    BY <2>1, <2>2 DEF Once
<1> QED
  BY <1>1, <1>2, <1>3, <1>4, <1>5 DEF MainStep

LEMMA LoopOnce == TypeInv /\ Once /\ Order /\ (\E i \in Starts : Loop(i)) => Once'
<1> SUFFICES ASSUME TypeInv, Once, Order, NEW i \in Starts, Loop(i) PROVE Once'
  OBVIOUS
<1>1. UNCHANGED <<main, starts, device, caller>>
  BY DEF Loop, LoopChecks, LoopUses, LoopPeeks, LoopPops, LoopCalls
<1>2. starts <= 1 => crashed' = crashed
  <2> SUFFICES ASSUME starts <= 1 PROVE crashed' = crashed
    OBVIOUS
  <2>1. OneLoop /\ (loops[i] = "use" => device # None) /\ (loops[i] = "pop" => events # <<>>)
    BY SingleLoop DEF Once, Order
  <2> QED
    BY <2>1 DEF Loop, LoopChecks, LoopUses, LoopPeeks, LoopPops, LoopCalls
<1>3. \A j \in Starts : loops'[j] = "use" => loops[j] = "use" \/ device # None
  BY DEF Loop, LoopChecks, LoopUses, LoopPeeks, LoopPops, LoopCalls, Goes, Present, TypeInv, TypeOK
<1> QED
  BY <1>1, <1>2, <1>3 DEF Once

LEMMA CallerOnce == TypeInv /\ Once /\ (\E c \in Callers : Checks(c) \/ Uses(c)) => Once'
<1> SUFFICES ASSUME TypeInv, Once, NEW c \in Callers, Checks(c) \/ Uses(c) PROVE Once'
  OBVIOUS
<1>1. UNCHANGED <<main, starts, device, loops>>
  BY DEF Checks, Uses
<1>2. \A d \in Callers : caller'[d] = "checked" => caller[d] = "checked" \/ device # None
  BY DEF Checks, Uses, Present, TypeInv, TypeOK
<1>3. starts <= 1 => crashed' = crashed
  BY DEF Checks, Uses, Once
<1> QED
  BY <1>1, <1>2, <1>3 DEF Once

LEMMA OnceStep == TypeInv /\ Once /\ Order /\ [Next]_vars => Once'
<1> SUFFICES ASSUME TypeInv, Once, Order, [Next]_vars PROVE Once'
  OBVIOUS
<1>1. CASE UNCHANGED vars
  BY <1>1 DEF vars, Once
<1>2. CASE Reborn
  BY <1>2, Rebirth, InitOnceNext
<1>3. ASSUME NEW i \in Starts, ServiceTells(i) PROVE Once'
  BY <1>3 DEF ServiceTells, Once
<1> QED
  BY <1>1, <1>2, <1>3, MainOnce, LoopOnce, CallerOnce DEF Next

LEMMA OnceInvariant == Spec => []Once
BY InitOnce, OnceStep, TypeInvariant, OrderInvariant, PTL DEF Spec

(* Started once, the application does not crash, whatever the order in which  *)
(* its threads read g_bssDevice and the queue.                                *)
THEOREM OnceAlwaysSafe == Spec => []OnceNeverCrashes
<1>1. TypeInv /\ Once => OnceNeverCrashes
  BY DEF Once, OnceNeverCrashes, TypeInv, TypeOK
<1> QED
  BY <1>1, TypeInvariant, OnceInvariant, PTL

----------------------------------------------------------------------------
(* The cabinets' line.                                                     *)

(* Until the first fault, one request and its answer are on the line, those  *)
(* of the thread that has the lock.                                          *)
Pieces == [to : Threads, cab : Cabs, part : {"head", "tail", "whole"}]
Requests == [to : Threads, kind : CabLine!Kinds, cab : Cabs]
Calls ==
  [pc : {"idle", "asked", "sent", "got"}, kind : CabLine!Kinds \cup {Nobody},
   cab : Cabs \cup {Nobody}, got : Seq(Pieces)]

CabType ==
  /\ call \in [Threads -> Calls] /\ lock \in Threads \cup {Nobody}
  /\ line \in Seq(Requests) /\ tty \in Seq(Pieces)
  /\ acted \in SUBSET Threads /\ cabFaults \in Nat
  /\ \A t \in Threads : call[t].pc # "idle" => call[t].kind \in CabLine!Kinds /\ call[t].cab \in Cabs

Answered(t) == t \in acted /\ tty = CabLine!Answer(CabLine!Request(t)) /\ line = <<>>
Asked(t) == line = <<CabLine!Request(t)>> /\ tty = <<>>

LineInv ==
  cabFaults = 0 =>
    /\ \A t \in Threads : call[t].pc = "sent" <=> lock = t
    /\ lock = Nobody => line = <<>> /\ tty = <<>>
    /\ lock # Nobody => Asked(lock) \/ Answered(lock)
    /\ \A t \in Threads : call[t].pc = "got" =>
         t \in acted /\ call[t].got = CabLine!Answer(CabLine!Request(t))


LEMMA Asks ==
  ASSUME CabType, NEW t \in Threads, call[t].pc # "idle"
  PROVE  CabLine!Request(t) \in Requests
BY DEF CabType, CabLine!Request, Requests

LEMMA Joined == \A S : \A u, v \in Seq(S) : u \o v \in Seq(S)
OBVIOUS

LEMMA Answers ==
  ASSUME NEW r \in Requests
  PROVE  /\ CabLine!Answer(r) \in Seq(Pieces)
         /\ r.kind = "write" =>
              CabLine!Answer(r) = <<[to |-> r.to, cab |-> r.cab, part |-> "whole"]>>
         /\ r.kind # "write" =>
              CabLine!Answer(r) = <<[to |-> r.to, cab |-> r.cab, part |-> "head"],
                                    [to |-> r.to, cab |-> r.cab, part |-> "tail"]>>
<1>1. r.to \in Threads /\ r.cab \in Cabs /\ r.kind \in {"read", "write"}
  BY DEF Requests, CabLine!Kinds
<1>2. \A p \in {"head", "tail", "whole"} : [to |-> r.to, cab |-> r.cab, part |-> p] \in Pieces
  BY <1>1 DEF Pieces
<1> QED
  BY <1>1, <1>2 DEF CabLine!Answer, CabLine!Piece

LEMMA InitLine == CabLine!Init => CabType /\ LineInv
<1> SUFFICES ASSUME CabLine!Init PROVE CabType /\ LineInv
  OBVIOUS
<1>1. \A t \in Threads : call[t] = CabLine!Idle
  BY DEF CabLine!Init
<1>2. CabLine!Idle \in Calls
  BY DEF CabLine!Idle, Calls
<1>3. CabType
  BY <1>1, <1>2 DEF CabType, CabLine!Init, CabLine!Idle
<1>4. LineInv
  BY <1>1, NobodyAssumption DEF LineInv, CabLine!Init, CabLine!Idle
<1> QED
  BY <1>3, <1>4

LEMMA CabTypeStep == CabType /\ [CabLine!Next]_cabVars => CabType'
<1> SUFFICES ASSUME CabType, [CabLine!Next]_cabVars PROVE CabType'
  OBVIOUS
<1>1. CASE UNCHANGED cabVars
  BY <1>1 DEF cabVars, CabType
<1>2. ASSUME NEW t \in Threads, NEW kind \in CabLine!Kinds, NEW c \in Cabs, CabLine!Call(t, kind, c)
      PROVE  CabType'
  <2>1. [pc |-> "asked", kind |-> kind, cab |-> c, got |-> <<>>] \in Calls
    BY DEF Calls
  <2>2. call' \in [Threads -> Calls]
    BY <1>2, <2>1 DEF CabLine!Call, CabType
  <2> QED
    BY <1>2, <2>1, <2>2 DEF CabLine!Call, CabType
<1>3. ASSUME NEW t \in Threads, CabLine!Send(t) PROVE CabType'
  <2>1. call[t] \in Calls
    BY DEF CabType
  <2>2. call' \in [Threads -> Calls]
    BY <1>3, <2>1 DEF CabLine!Send, CabLine!Goes, CabType, Calls
  <2>3. line' \in Seq(Requests)
    BY <1>3, Asks DEF CabLine!Send, CabType
  <2> QED
    BY <1>3, <2>2, <2>3 DEF CabLine!Send, CabLine!Goes, CabType, Calls
<1>4. ASSUME NEW t \in Threads, CabLine!Receive(t) PROVE CabType'
  <2>1. PICK n \in 1..2 :
          /\ n <= Len(tty) /\ tty' = SubSeq(tty, n + 1, Len(tty))
          /\ call' = [call EXCEPT ![t].pc = "got", ![t].got = SubSeq(tty, 1, n)]
          /\ (UNCHANGED cabFaults) \/ cabFaults' = cabFaults + 1
    BY <1>4 DEF CabLine!Receive, CabLine!Fault
  <2>2. SubSeq(tty, 1, n) \in Seq(Pieces) /\ tty' \in Seq(Pieces)
    BY <2>1 DEF CabType
  <2>3. call' \in [Threads -> Calls]
    BY <2>1, <2>2 DEF CabType, Calls
  <2>4. \A s \in Threads : call'[s].kind = call[s].kind /\ call'[s].cab = call[s].cab
    BY <2>1 DEF CabType, Calls
  <2>5. \A s \in Threads : call'[s].pc # "idle" => call[s].pc # "idle"
    BY <1>4, <2>1 DEF CabLine!Receive, CabType, Calls
  <2> QED
    BY <1>4, <2>1, <2>2, <2>3, <2>4, <2>5 DEF CabLine!Receive, CabType
<1>5. ASSUME NEW t \in Threads, CabLine!Timeout(t) PROVE CabType'
  <2>1. call' \in [Threads -> Calls]
    BY <1>5 DEF CabLine!Timeout, CabLine!Goes, CabType, Calls
  <2>2. \A s \in Threads : call'[s].kind = call[s].kind /\ call'[s].cab = call[s].cab
    BY <1>5 DEF CabLine!Timeout, CabLine!Goes, CabType, Calls
  <2>3. \A s \in Threads : call'[s].pc # "idle" => call[s].pc # "idle"
    BY <1>5 DEF CabLine!Timeout, CabLine!Goes, CabType, Calls
  <2> QED
    BY <1>5, <2>1, <2>2, <2>3 DEF CabLine!Timeout, CabLine!Fault, CabType
<1>6. ASSUME NEW t \in Threads, CabLine!Return(t) PROVE CabType'
  <2>1. CabLine!Idle \in Calls /\ CabLine!Idle.pc = "idle"
    BY DEF CabLine!Idle, Calls
  <2>2. call' = [call EXCEPT ![t] = CabLine!Idle] /\ UNCHANGED <<lock, line, tty, acted, cabFaults>>
    BY <1>6 DEF CabLine!Return
  <2> QED
    BY <2>1, <2>2 DEF CabType
<1>7. CASE CabLine!CabAnswers \/ CabLine!Loses
  <2>1. line # <<>> /\ line' = Tail(line) /\ UNCHANGED <<call, lock>>
    BY <1>7 DEF CabLine!CabAnswers, CabLine!Loses
  <2>2. Head(line) \in Requests /\ line' \in Seq(Requests)
    BY <2>1 DEF CabType
  <2>3. CabLine!Answer(Head(line)) \in Seq(Pieces) /\ Head(line).to \in Threads
    BY <2>2, Answers DEF Requests
  <2>4. tty' = tty \/ tty' = tty \o CabLine!Answer(Head(line))
    BY <1>7 DEF CabLine!CabAnswers, CabLine!Loses
  <2>5. tty' \in Seq(Pieces)
    <3>1. tty \in Seq(Pieces)
      BY DEF CabType
    <3> QED
      BY <2>3, <2>4, <3>1, Joined
  <2>6. acted' \in SUBSET Threads /\ cabFaults' \in Nat
    BY <1>7, <2>3 DEF CabLine!CabAnswers, CabLine!Loses, CabLine!Fault, CabType
  <2> QED
    BY <2>1, <2>2, <2>5, <2>6 DEF CabType
<1> QED
  BY <1>1, <1>2, <1>3, <1>4, <1>5, <1>6, <1>7 DEF CabLine!Next

LEMMA LineStep == CabType /\ LineInv /\ [CabLine!Next]_cabVars => LineInv'
<1> SUFFICES ASSUME CabType, LineInv, [CabLine!Next]_cabVars, cabFaults' = 0 PROVE LineInv'
  BY DEF LineInv
<1>0. ~CabLine!Fault /\ cabFaults \in Nat
  BY DEF CabLine!Fault, CabType
<1>1. CASE UNCHANGED cabVars
  BY <1>1 DEF cabVars, LineInv, Asked, Answered, CabLine!Request
<1>2. ASSUME NEW t \in Threads, NEW kind \in CabLine!Kinds, NEW c \in Cabs, CabLine!Call(t, kind, c)
      PROVE  LineInv'
  <2>1. /\ call[t].pc = "idle" /\ acted' = acted \ {t} /\ UNCHANGED <<lock, line, tty, cabFaults>>
        /\ \A s \in Threads : s # t => call'[s] = call[s]
        /\ call'[t].pc = "asked"
    BY <1>2 DEF CabLine!Call, CabType
  <2>2. lock # t
    BY <2>1 DEF LineInv
  <2>3. \A s \in Threads : s # t => CabLine!Request(s)' = CabLine!Request(s) /\ (s \in acted' <=> s \in acted)
    BY <2>1 DEF CabLine!Request
  <2> QED
    BY <2>1, <2>2, <2>3 DEF LineInv, Asked, Answered, CabType
<1>3. ASSUME NEW t \in Threads, CabLine!Send(t) PROVE LineInv'
  <2>1. /\ call[t].pc = "asked" /\ lock = Nobody /\ lock' = t
        /\ line' = Append(line, CabLine!Request(t)) /\ UNCHANGED <<tty, acted, cabFaults>>
        /\ \A s \in Threads : s # t => call'[s] = call[s]
        /\ call'[t].pc = "sent" /\ call'[t].kind = call[t].kind /\ call'[t].cab = call[t].cab
    BY <1>3 DEF CabLine!Send, CabLine!Free, CabLine!Goes, CabType, Calls
  <2>2. line = <<>> /\ tty = <<>>
    BY <1>3, <2>1 DEF LineInv
  <2>3. \A s \in Threads : CabLine!Request(s)' = CabLine!Request(s)
    BY <2>1 DEF CabLine!Request
  <2>4. Asked(t)'
    BY <2>1, <2>2, <2>3 DEF Asked
  <2>5. \A s \in Threads : s # t => call[s].pc # "sent"
    BY <2>1, NobodyAssumption DEF LineInv
  <2> QED
    BY <2>1, <2>3, <2>4, <2>5, NobodyAssumption DEF LineInv
<1>4. ASSUME NEW t \in Threads, CabLine!Receive(t) PROVE LineInv'
  <2>1. /\ call[t].pc = "sent" /\ tty # <<>> /\ lock' = Nobody /\ UNCHANGED <<line, acted>>
        /\ cabFaults = 0
    BY <1>0, <1>4 DEF CabLine!Receive
  <2>2. lock = t /\ Answered(t)
    BY <2>1, NobodyAssumption DEF LineInv, Asked
  <2>3. PICK n \in 1..2 :
          /\ n <= Len(tty) /\ (n = 2 \/ n = Len(tty)) /\ tty' = SubSeq(tty, n + 1, Len(tty))
          /\ call' = [call EXCEPT ![t].pc = "got", ![t].got = SubSeq(tty, 1, n)]
    BY <1>0, <1>4 DEF CabLine!Receive, CabLine!Full
  <2>4. Len(tty) \in 1..2 /\ tty \in Seq(Pieces)
    BY <2>1, <2>2, Asks, Answers DEF Answered, CabType
  <2>5. n = Len(tty)
    BY <2>3, <2>4
  <2>6. SubSeq(tty, 1, n) = tty /\ tty' = <<>>
    BY <2>3, <2>4, <2>5
  <2>7. /\ \A s \in Threads : s # t => call'[s] = call[s]
        /\ call'[t].pc = "got" /\ call'[t].got = tty
        /\ call'[t].kind = call[t].kind /\ call'[t].cab = call[t].cab
    BY <2>3, <2>6 DEF CabType, Calls
  <2>8. \A s \in Threads : CabLine!Request(s)' = CabLine!Request(s)
    BY <2>7 DEF CabLine!Request
  <2>9. \A s \in Threads : s # t => call[s].pc # "sent"
    BY <2>1, <2>2 DEF LineInv
  <2>10. line' = <<>>
    BY <2>1, <2>2 DEF Answered
  <2>11. \A s \in Threads : call'[s].pc = "got" =>
           s \in acted' /\ call'[s].got = CabLine!Answer(CabLine!Request(s))'
    BY <2>1, <2>2, <2>7, <2>8 DEF LineInv, Answered, CabLine!Answer, CabLine!Piece
  <2>12. \A s \in Threads : call'[s].pc # "sent" /\ lock' # s
    BY <2>1, <2>7, <2>9, NobodyAssumption
  <2> QED
    BY <2>1, <2>6, <2>10, <2>11, <2>12 DEF LineInv
<1>5. ASSUME NEW t \in Threads, CabLine!Timeout(t) PROVE FALSE
  <2>1. call[t].pc = "sent" /\ tty = <<>> /\ line = <<>> /\ cabFaults = 0
    BY <1>0, <1>5 DEF CabLine!Timeout
  <2>2. Answered(t)
    BY <2>1, NobodyAssumption DEF LineInv, Asked
  <2>3. CabLine!Request(t) \in Requests
    BY <2>1, Asks
  <2>4. CabLine!Answer(CabLine!Request(t)) # <<>>
    BY <2>3, Answers
  <2> QED
    BY <2>1, <2>2, <2>4 DEF Answered
<1>6. ASSUME NEW t \in Threads, CabLine!Return(t) PROVE LineInv'
  <2>1. /\ call[t].pc = "got" /\ UNCHANGED <<lock, line, tty, acted, cabFaults>>
        /\ \A s \in Threads : s # t => call'[s] = call[s]
        /\ call'[t].pc = "idle"
    BY <1>6 DEF CabLine!Return, CabLine!Idle, CabType
  <2>2. lock # t
    BY <2>1 DEF LineInv
  <2>3. \A s \in Threads : s # t => CabLine!Request(s)' = CabLine!Request(s)
    BY <2>1 DEF CabLine!Request
  <2> QED
    BY <2>1, <2>2, <2>3 DEF LineInv, Asked, Answered, CabType
<1>7. CASE CabLine!CabAnswers
  <2>1. /\ line # <<>> /\ line' = Tail(line) /\ acted' = acted \cup {Head(line).to}
        /\ tty' = tty \o CabLine!Answer(Head(line)) /\ UNCHANGED <<call, lock, cabFaults>>
    BY <1>7 DEF CabLine!CabAnswers
  <2>2. lock \in Threads /\ Asked(lock) /\ call[lock].pc = "sent"
    BY <2>1 DEF LineInv, Answered, CabType
  <2>3. Head(line) = CabLine!Request(lock) /\ line' = <<>> /\ tty = <<>>
    BY <2>1, <2>2 DEF Asked
  <2>4. CabLine!Request(lock) \in Requests /\ Head(line).to = lock
    BY <2>2, <2>3, Asks DEF CabLine!Request
  <2>5. tty' = CabLine!Answer(CabLine!Request(lock))
    BY <2>1, <2>3, <2>4, Answers
  <2>6. \A s \in Threads : CabLine!Request(s)' = CabLine!Request(s)
    BY <2>1 DEF CabLine!Request
  <2>7. \A s \in Threads : lock = s => Answered(s)'
    BY <2>1, <2>3, <2>4, <2>5, <2>6 DEF Answered
  <2> QED
    BY <2>1, <2>2, <2>6, <2>7, NobodyAssumption DEF LineInv
<1>8. CASE CabLine!Loses
  BY <1>0, <1>8 DEF CabLine!Loses
<1> QED
  BY <1>1, <1>2, <1>3, <1>4, <1>5, <1>6, <1>7, <1>8 DEF CabLine!Next

LEMMA LineOwns == CabType /\ LineInv => OwnAnswer
<1> SUFFICES ASSUME CabType, LineInv, NEW t \in Threads, cabFaults = 0, CabLine!Succeeds(t)
             PROVE  t \in acted /\ \A a \in CabLine!Used(t) : a.to = t /\ a.cab = call[t].cab
  BY DEF OwnAnswer, CabLine!OwnAnswer
<1>1. t \in acted /\ call[t].got = CabLine!Answer(CabLine!Request(t)) /\ CabLine!Request(t) \in Requests
  BY Asks DEF CabLine!Succeeds, LineInv
<1>2. \A i \in 1..Len(call[t].got) : call[t].got[i].to = t /\ call[t].got[i].cab = call[t].cab
  <2>1. /\ CabLine!Request(t).to = t /\ CabLine!Request(t).cab = call[t].cab
    BY DEF CabLine!Request
  <2> QED
    BY <1>1, <2>1, Answers
<1> QED
  BY <1>1, <1>2 DEF CabLine!Used, CabLine!Heads

LEMMA AllCab == [AllNext]_allVars => [CabLine!Next]_cabVars
BY DEF AllNext, allVars, InCan, cabVars, canVars

(* Until an answer is lost, late or in two reads, a call that succeeds has    *)
(* the answer of the cabinet it asked, for any number of threads.             *)
THEOREM EachOwnAnswer == AllSpec => []OwnAnswer
<1>1. AllInit => CabType /\ LineInv
  BY InitLine DEF AllInit
<1>2. CabType /\ LineInv /\ [AllNext]_allVars => (CabType /\ LineInv)'
  BY CabTypeStep, LineStep, AllCab
<1> QED
  BY <1>1, <1>2, LineOwns, PTL DEF AllSpec

----------------------------------------------------------------------------
(* The CAN adapter's port.                                                 *)

(* Until the first fault, what is in the packet, in the ring and on the line *)
(* are the bytes of the frames that are due, in their order.                 *)
Bytes == 0..255
Byte(d, k) == CanLine!Frame(d[(k \div 6) + 1])[(k % 6) + 1]

\* Where the ring has the byte after the next j.
Place(o, j) == IF o + j < Size THEN o + j ELSE o + j - Size

CanType ==
  /\ ring \in [0..(Size - 1) -> Bytes] /\ in \in 0..(Size - 1) /\ out \in 0..(Size - 1)
  /\ packet \in Seq(Bytes) /\ rest \in Seq(Bytes)
  /\ due \in Seq(Data) /\ canFaults \in Nat

Stream ==
  /\ Len(packet) <= 5
  /\ Len(packet) + CanLine!Lag + Len(rest) = 6 * Len(due)
  /\ \A k \in 1..Len(packet) : packet[k] = Byte(due, k - 1)
  /\ \A j \in 0..(CanLine!Lag - 1) : ring[Place(out, j)] = Byte(due, Len(packet) + j)
  /\ \A k \in 1..Len(rest) : rest[k] = Byte(due, Len(packet) + CanLine!Lag + k - 1)

StreamInv == canFaults = 0 => Stream

LEMMA SmallMod == \A a \in 0..(Size - 1) : a % Size = a
BY PortAssumption, SMTT(30) DEF CanLine!Parameters

LEMMA RingSize == Size \in Nat /\ Size > 5 /\ LagMax \in 1..(Size - 1)
BY PortAssumption DEF CanLine!Parameters, CanLine!Length

LEMMA Afters ==
  ASSUME NEW i \in 0..(Size - 1)
  PROVE  CanLine!After(i) = IF i = Size - 1 THEN 0 ELSE i + 1
BY RingSize, SMTT(30) DEF CanLine!After

LEMMA Distance ==
  ASSUME NEW a \in 0..(Size - 1), NEW b \in 0..(Size - 1)
  PROVE  (a - b) % Size = IF a >= b THEN a - b ELSE a - b + Size
<1>1. CASE a >= b
  <2>1. a - b \in 0..(Size - 1)
    BY <1>1, RingSize
  <2> QED
    BY <1>1, <2>1, SmallMod
<1>2. CASE a < b
  <2>1. a - b \in (-(Size - 1))..(-1)
    BY <1>2, RingSize
  <2>2. \A c \in (-(Size - 1))..(-1) : c % Size = c + Size
    BY RingSize, SMTT(30)
  <2> QED
    BY <1>2, <2>1, <2>2
<1> QED
  BY <1>1, <1>2, RingSize

LEMMA Lags ==
  ASSUME CanType
  PROVE  /\ CanLine!Lag = IF in >= out THEN in - out ELSE in - out + Size
         /\ CanLine!Lag \in 0..(Size - 1)
<1>1. in \in 0..(Size - 1) /\ out \in 0..(Size - 1)
  BY DEF CanType
<1> QED
  BY <1>1, Distance, RingSize DEF CanLine!Lag

LEMMA Parts ==
  \A S : \A s \in Seq(S) :
    /\ <<>> \in Seq(S)
    /\ s # <<>> => Tail(s) \in Seq(S) /\ Head(s) \in S
    /\ \A e \in S : Append(s, e) \in Seq(S)
OBVIOUS

LEMMA Appended ==
  \A S : \A s \in Seq(S), e \in S :
    /\ Len(Append(s, e)) = Len(s) + 1 /\ Append(s, e)[Len(s) + 1] = e
    /\ \A i \in 1..Len(s) : Append(s, e)[i] = s[i]
OBVIOUS

LEMMA Frames ==
  ASSUME NEW x \in Data
  PROVE  /\ CanLine!Covered(x) = <<170, 3, 1, x, Crc[x]>>
         /\ CanLine!Frame(x) \in Seq(Bytes) /\ Len(CanLine!Frame(x)) = 6
         /\ \A k \in 1..5 : CanLine!Frame(x)[k] = CanLine!Covered(x)[k]
         /\ CanLine!Frame(x)[6] = 85
<1>1. x \in Bytes /\ Crc[x] \in Bytes
  BY PortAssumption DEF CanLine!Parameters, Bytes
<1>2. CanLine!Covered(x) = <<170, 3, 1, x, Crc[x]>>
  BY DEF CanLine!Covered, CanLine!StartByte, CanLine!Length, CanLine!Addr
<1>3. CanLine!Covered(x) \in Seq(Bytes) /\ Len(CanLine!Covered(x)) = 5
  BY <1>1, <1>2 DEF Bytes
<1>4. CanLine!Frame(x) = Append(CanLine!Covered(x), 85) /\ 85 \in Bytes
  BY DEF CanLine!Frame, CanLine!StopByte, Bytes
<1> QED
  BY <1>2, <1>3, <1>4

\* The first frame that is due.
LEMMA FirstBytes ==
  ASSUME CanType, due # <<>>
  PROVE  /\ due[1] \in Data /\ due[1] = Head(due)
         /\ Byte(due, 0) = 170 /\ Byte(due, 1) = 3 /\ Byte(due, 2) = 1 /\ Byte(due, 3) = due[1]
         /\ Byte(due, 4) = Crc[due[1]] /\ Byte(due, 5) = 85
<1>1. due[1] \in Data /\ due[1] = Head(due)
  BY DEF CanType
<1>2. \A k \in 0..5 : k \div 6 + 1 = 1 /\ k % 6 = k
  OBVIOUS
<1>3. \A k \in 0..5 : Byte(due, k) = CanLine!Frame(due[1])[k + 1]
  BY <1>2 DEF Byte
<1> QED
  BY <1>1, <1>3, Frames

LEMMA InitCan == CanLine!Init => CanType /\ StreamInv
<1> SUFFICES ASSUME CanLine!Init PROVE CanType /\ StreamInv
  OBVIOUS
<1>1. CanType
  BY RingSize DEF CanLine!Init, CanType
<1>2. CanLine!Lag = 0
  BY <1>1, Lags DEF CanLine!Init
<1> QED
  BY <1>1, <1>2 DEF CanLine!Init, StreamInv, Stream

\* The service looks at one byte.
LEMMA Looks ==
  ASSUME CanType, in # out, out' = CanLine!After(out), in' = in
  PROVE  /\ out' \in 0..(Size - 1) /\ CanLine!Lag > 0
         /\ CanLine!Lag' = CanLine!Lag - 1
         /\ \A j \in 0..(CanLine!Lag' - 1) : Place(out', j) = Place(out, j + 1)
         /\ Place(out, 0) = out
<1>1. out' = IF out = Size - 1 THEN 0 ELSE out + 1
  BY Afters DEF CanType
<1>2. in \in 0..(Size - 1) /\ out \in 0..(Size - 1) /\ Size \in Nat /\ Size > 5
  BY RingSize DEF CanType
<1>3. CanLine!Lag = IF in >= out THEN in - out ELSE in - out + Size
  BY Lags
<1>4. CanLine!Lag' = IF in' >= out' THEN in' - out' ELSE in' - out' + Size
  BY <1>1, <1>2, Distance DEF CanLine!Lag
<1> QED
  BY <1>1, <1>2, <1>3, <1>4 DEF Place

LEMMA CanTypeStep == CanType /\ [CanLine!Next]_canVars => CanType'
<1> SUFFICES ASSUME CanType, [CanLine!Next]_canVars PROVE CanType'
  OBVIOUS
<1>1. CASE UNCHANGED canVars \/ CanLine!Stay
  BY <1>1 DEF canVars, CanLine!Stay, CanLine!vars, CanType
<1>2. CASE CanLine!Deliver \/ CanLine!Reject
  <2>1. out' \in 0..(Size - 1) /\ packet' = <<>> /\ UNCHANGED <<ring, in, rest, canFaults>>
    BY <1>2, Looks DEF CanLine!Deliver, CanLine!Reject, CanLine!Ends
  <2>2. due' \in Seq(Data)
    <3>1. due' = due \/ (due # <<>> /\ due' = Tail(due))
      BY <1>2 DEF CanLine!Deliver, CanLine!Reject
    <3>2. due \in Seq(Data)
      BY DEF CanType
    <3> QED
      BY <3>1, <3>2, Parts
  <2> QED
    BY <2>1, <2>2 DEF CanType
<1>3. CASE CanLine!Collect
  <2>1. out' \in 0..(Size - 1) /\ UNCHANGED <<ring, in, rest, due, canFaults>>
    BY <1>3, Looks DEF CanLine!Collect
  <2>2. packet' = <<>> \/ packet' = Append(packet, ring[out])
    BY <1>3 DEF CanLine!Collect, CanLine!byte
  <2> QED
    <3>1. ring[out] \in Bytes /\ packet \in Seq(Bytes)
      BY DEF CanType
    <3>2. packet' \in Seq(Bytes)
      BY <2>2, <3>1, Parts
    <3> QED
      BY <2>1, <3>2 DEF CanType
<1>4. ASSUME NEW b \in Bytes, CanLine!Store(b) PROVE ring' \in [0..(Size - 1) -> Bytes] /\ in' \in 0..(Size - 1)
  BY <1>4, Afters, RingSize DEF CanLine!Store, CanType
<1>5. CASE CanLine!Feed
  <2>1. Head(rest) \in Bytes /\ rest' \in Seq(Bytes)
    BY <1>5 DEF CanLine!Feed, CanType
  <2> QED
    BY <1>4, <1>5, <2>1 DEF CanLine!Feed, CanType
<1>6. ASSUME NEW x \in Data, CanLine!Send(x) PROVE CanType'
  <2>1. rest' \in Seq(Bytes) /\ due' \in Seq(Data)
    BY <1>6, Frames DEF CanLine!Send, CanType
  <2> QED
    BY <1>6, <2>1 DEF CanLine!Send, CanType
<1>7. CASE CanLine!Lost
  BY <1>7 DEF CanLine!Lost, CanType
<1>8. CASE CanLine!Damaged
  <2>1. rest' \in Seq(Bytes) /\ due' = <<>> /\ canFaults' \in Nat /\ UNCHANGED <<out, packet>>
    BY <1>8 DEF CanLine!Damaged, CanType
  <2>2. PICK b \in CanLine!Changed : CanLine!Store(b)
    BY <1>8 DEF CanLine!Damaged
  <2>3. b \in Bytes
    BY DEF CanLine!Changed, CanLine!StartByte, CanLine!StopByte, CanLine!Addr, CanLine!Length, Bytes
  <2> QED
    BY <1>4, <2>1, <2>2, <2>3 DEF CanType
<1> QED
  BY <1>1, <1>2, <1>3, <1>5, <1>6, <1>7, <1>8 DEF CanLine!Next, CanLine!Process, CanLine!Line

\* What the service does with the byte it looks at, if the stream is whole.
LEMMA NextByte ==
  ASSUME CanType, Stream, in # out
  PROVE  /\ due # <<>> /\ CanLine!byte = Byte(due, Len(packet))
         /\ Len(packet) = 0 => CanLine!byte = 170
         /\ CanLine!Stops <=> Len(packet) = 5
         /\ Len(packet) = 5 => packet = CanLine!Covered(due[1]) /\ ~CanLine!Foreign
<1>1. Len(packet) \in 0..5 /\ packet \in Seq(Bytes) /\ CanLine!Lag \in 0..(Size - 1) /\ CanLine!Lag # 0
  <2>1. in \in 0..(Size - 1) /\ out \in 0..(Size - 1) /\ Size \in Nat
    BY RingSize DEF CanType
  <2>2. CanLine!Lag \in 0..(Size - 1) /\ CanLine!Lag # 0
    BY <2>1, Lags
  <2>3. packet \in Seq(Bytes) /\ Len(packet) <= 5
    BY DEF CanType, Stream
  <2>4. Len(packet) \in Nat
    BY <2>3
  <2>5. Len(packet) \in 0..5
    <3>1. Len(packet) <= 5
      BY <2>3
    <3>2. \A n \in Nat : n <= 5 => n \in 0..5
      OBVIOUS
    <3> QED
      BY ONLY <2>4, <3>1, <3>2
  <2> QED
    BY <2>2, <2>3, <2>5
<1>2. due # <<>>
  BY <1>1 DEF Stream, CanType
<1>3. CanLine!byte = Byte(due, Len(packet))
  <2>1. Place(out, 0) = out
    BY RingSize DEF Place, CanType
  <2>2. ring[Place(out, 0)] = Byte(due, Len(packet) + 0)
    BY <1>1, RingSize DEF Stream
  <2> QED
    BY <1>1, <2>1, <2>2 DEF CanLine!byte
<1>4. /\ due[1] \in Data /\ Byte(due, 0) = 170 /\ Byte(due, 1) = 3 /\ Byte(due, 2) = 1 /\ Byte(due, 3) = due[1]
      /\ Byte(due, 4) = Crc[due[1]] /\ Byte(due, 5) = 85
  BY <1>2, FirstBytes
<1>5. \A k \in 1..Len(packet) : packet[k] = Byte(due, k - 1)
  BY DEF Stream
<1>6. CanLine!Stops <=> Len(packet) = 5
  <2>1. Len(packet) >= 2 => packet[2] = 3
    BY <1>1, <1>4, <1>5
  <2>2. Len(packet) = 5 => CanLine!byte = 85
    BY <1>3, <1>4
  <2>3. CASE Len(packet) = 5
    BY <2>1, <2>2, <2>3 DEF CanLine!Stops, CanLine!StopByte
  <2>4. CASE Len(packet) # 5
    <3>1. Len(packet) >= 2 => packet[2] + 2 = 5
      BY <2>1
    <3> QED
      BY <1>1, <2>4, <3>1 DEF CanLine!Stops
  <2> QED
    BY <2>3, <2>4
<1>7. ASSUME Len(packet) = 5 PROVE packet = CanLine!Covered(due[1]) /\ ~CanLine!Foreign
  <2>1. packet[1] = 170 /\ packet[2] = 3 /\ packet[3] = 1 /\ packet[4] = due[1] /\ packet[5] = Crc[due[1]]
    BY <1>4, <1>5, <1>7
  <2>2. CanLine!Covered(due[1]) = <<170, 3, 1, due[1], Crc[due[1]]>>
    BY <1>4, Frames
  <2>3. packet = <<packet[1], packet[2], packet[3], packet[4], packet[5]>>
    BY <1>1, <1>7
  <2>4. Append(packet, CanLine!byte)[3] = packet[3]
    <3>1. CanLine!byte \in Bytes
      BY DEF CanType, CanLine!byte
    <3>2. 3 \in 1..Len(packet) /\ packet \in Seq(Bytes)
      BY <1>1, <1>7
    <3> QED
      BY <3>1, <3>2, Appended
  <2> QED
    BY <2>1, <2>2, <2>3, <2>4 DEF CanLine!Foreign, CanLine!Addr
<1> QED
  BY <1>2, <1>3, <1>4, <1>6, <1>7

LEMMA AfterFirst ==
  ASSUME CanType, due # <<>>, due' = Tail(due)
  PROVE  /\ Len(due') = Len(due) - 1
         /\ \A k \in Nat : k < 6 * Len(due') => Byte(due', k) = Byte(due, k + 6)
<1>1. Len(due) \in Nat /\ Len(due') = Len(due) - 1 /\ \A i \in 1..Len(due') : due'[i] = due[i + 1]
  BY DEF CanType
<1>2. ASSUME NEW k \in Nat, k < 6 * Len(due') PROVE Byte(due', k) = Byte(due, k + 6)
  <2>1. (k + 6) \div 6 = (k \div 6) + 1 /\ (k + 6) % 6 = k % 6 /\ (k \div 6) + 1 \in 1..Len(due')
    BY <1>1, <1>2
  <2>2. due'[(k \div 6) + 1] = due[((k + 6) \div 6) + 1]
    BY <1>1, <2>1
  <2> QED
    BY <2>1, <2>2 DEF Byte, CanLine!Frame, CanLine!Covered
<1> QED
  BY <1>1, <1>2

LEMMA AfterSend ==
  ASSUME CanType, NEW x \in Data, due' = Append(due, x)
  PROVE  /\ Len(due') = Len(due) + 1
         /\ \A k \in Nat : k < 6 * Len(due) => Byte(due', k) = Byte(due, k)
         /\ \A k \in Nat : k \in (6 * Len(due))..(6 * Len(due) + 5) =>
              Byte(due', k) = CanLine!Frame(x)[k - 6 * Len(due) + 1]
<1>1. /\ Len(due) \in Nat /\ Len(due') = Len(due) + 1 /\ due'[Len(due) + 1] = x
      /\ \A i \in 1..Len(due) : due'[i] = due[i]
  BY DEF CanType
<1>2. ASSUME NEW k \in Nat, k < 6 * Len(due) PROVE Byte(due', k) = Byte(due, k)
  <2>1. (k \div 6) + 1 \in 1..Len(due)
    BY <1>1, <1>2
  <2>2. due'[(k \div 6) + 1] = due[(k \div 6) + 1]
    BY <1>1, <2>1
  <2> QED
    BY <2>2 DEF Byte, CanLine!Frame, CanLine!Covered
<1>3. ASSUME NEW k \in Nat, k \in (6 * Len(due))..(6 * Len(due) + 5)
      PROVE  Byte(due', k) = CanLine!Frame(x)[k - 6 * Len(due) + 1]
  <2>1. (k \div 6) + 1 = Len(due) + 1 /\ (k % 6) + 1 = k - 6 * Len(due) + 1
    BY <1>1, <1>3
  <2>2. due'[(k \div 6) + 1] = x
    BY <1>1, <2>1
  <2> QED
    BY <2>1, <2>2 DEF Byte, CanLine!Frame, CanLine!Covered
<1> QED
  BY <1>1, <1>2, <1>3

LEMMA Lens ==
  ASSUME CanType
  PROVE  Len(packet) \in Nat /\ Len(rest) \in Nat /\ Len(due) \in Nat
BY DEF CanType

LEMMA SameStream ==
  ASSUME Stream, UNCHANGED canVars
  PROVE  Stream'
BY DEF Stream, canVars, Byte, Place, CanLine!Lag, CanLine!Frame, CanLine!Covered

LEMMA DeliverStream ==
  ASSUME CanType, CanType', Stream, CanLine!Deliver
  PROVE  Stream'
<1>1. /\ in # out /\ out' = CanLine!After(out) /\ in' = in /\ packet' = <<>>
      /\ UNCHANGED <<ring, rest>> /\ CanLine!Stops
      /\ due' = IF due = <<>> THEN due ELSE Tail(due)
  BY DEF CanLine!Deliver, CanLine!Ends
<1>2. Len(packet) = 5 /\ due # <<>> /\ due' = Tail(due)
  BY <1>1, NextByte
<1>3. /\ CanLine!Lag' = CanLine!Lag - 1 /\ CanLine!Lag > 0
      /\ \A j \in 0..(CanLine!Lag' - 1) : Place(out', j) = Place(out, j + 1)
  BY <1>1, Looks
<1>4. /\ Len(due') = Len(due) - 1
      /\ \A k \in Nat : k < 6 * Len(due') => Byte(due', k) = Byte(due, k + 6)
  BY <1>2, AfterFirst
<1>5. CanLine!Lag \in Nat /\ CanLine!Lag' \in Nat /\ Len(rest) \in Nat /\ Len(due) \in Nat /\ Len(packet') = 0
  BY <1>1, Lags, <1>3, RingSize, Lens
<1>6. PICK l \in Nat, r \in Nat, d \in Nat :
        /\ l = CanLine!Lag /\ r = Len(rest) /\ d = Len(due)
        /\ 5 + l + r = 6 * d /\ l > 0
  BY <1>2, <1>3, <1>5 DEF Stream
<1>7. CanLine!Lag' = l - 1 /\ Len(rest') = r /\ Len(due') = d - 1 /\ (l - 1) + r = 6 * (d - 1)
  <2>1. CanLine!Lag' = l - 1 /\ Len(rest') = r /\ Len(due') = d - 1
    BY <1>1, <1>3, <1>4, <1>6
  <2>2. (l - 1) + r = 6 * (d - 1)
    BY <1>6
  <2> QED
    BY <2>1, <2>2
<1>8. ASSUME NEW j \in 0..(l - 2) PROVE ring'[Place(out', j)] = Byte(due', j)
  <2>1. Byte(due', j) = Byte(due, j + 6)
    BY <1>4, <1>6, <1>7
  <2>2. ring[Place(out, j + 1)] = Byte(due, 5 + (j + 1))
    BY <1>2, <1>6 DEF Stream
  <2>3. Place(out', j) = Place(out, j + 1)
    BY <1>3, <1>6, <1>7
  <2> QED
    BY <1>1, <2>1, <2>2, <2>3
<1>9. ASSUME NEW k \in 1..r PROVE rest'[k] = Byte(due', l - 1 + k - 1)
  <2>1. rest[k] = Byte(due, 5 + l + k - 1)
    BY <1>2, <1>6 DEF Stream
  <2>2. l - 1 + k - 1 \in Nat /\ l - 1 + k - 1 < 6 * (d - 1)
    BY <1>6, <1>7
  <2>3. Byte(due', l - 1 + k - 1) = Byte(due, (l - 1 + k - 1) + 6)
    BY <1>4, <1>7, <2>2
  <2> QED
    BY <1>1, <1>6, <2>1, <2>3
<1> QED
  BY <1>1, <1>5, <1>6, <1>7, <1>8, <1>9 DEF Stream

LEMMA CollectStream ==
  ASSUME CanType, CanType', Stream, CanLine!Collect
  PROVE  Stream'
<1>1. /\ in # out /\ out' = CanLine!After(out) /\ in' = in /\ ~CanLine!Stops
      /\ UNCHANGED <<ring, rest, due>>
      /\ packet' = IF \/ packet = <<>> /\ CanLine!byte # 170
                      \/ Len(packet) + 1 >= Size
                   THEN <<>> ELSE Append(packet, CanLine!byte)
  BY DEF CanLine!Collect, CanLine!StartByte
<1>2. PICK p \in Nat, l \in Nat, r \in Nat, d \in Nat :
        /\ p = Len(packet) /\ l = CanLine!Lag /\ r = Len(rest) /\ d = Len(due)
        /\ p + l + r = 6 * d /\ p < 5 /\ l > 0
  <2>1. Len(packet) # 5 /\ Len(packet) \in Nat /\ Len(packet) <= 5
    BY <1>1, NextByte, Lens DEF Stream
  <2>2. CanLine!Lag \in Nat /\ CanLine!Lag > 0
    BY <1>1, Looks, Lags, RingSize
  <2>3. Len(rest) \in Nat /\ Len(due) \in Nat
    BY Lens
  <2>4. Len(packet) + CanLine!Lag + Len(rest) = 6 * Len(due)
    BY DEF Stream
  <2>5. PICK p \in Nat, l \in Nat, r \in Nat, d \in Nat :
          p = Len(packet) /\ l = CanLine!Lag /\ r = Len(rest) /\ d = Len(due)
    BY <2>1, <2>2, <2>3
  <2>6. p + l + r = 6 * d /\ p <= 5 /\ p # 5 /\ l > 0
    BY <2>1, <2>2, <2>4, <2>5
  <2>7. p < 5
    BY <2>6
  <2> QED
    BY <2>5, <2>6, <2>7
<1>3. packet' = Append(packet, CanLine!byte) /\ CanLine!byte = Byte(due, p)
  <2>1. p = 0 => CanLine!byte = 170
    BY <1>1, <1>2, NextByte
  <2>2. ~(p + 1 >= Size)
    BY <1>2, RingSize
  <2>3. packet = <<>> => p = 0
    BY <1>2
  <2> QED
    BY <1>1, <1>2, <2>1, <2>2, <2>3, NextByte
<1>4. /\ Len(packet') = p + 1 /\ packet'[p + 1] = Byte(due, p)
      /\ \A k \in 1..p : packet'[k] = packet[k]
  <2>1. packet \in Seq(Bytes) /\ CanLine!byte \in Bytes
    BY DEF CanType, CanLine!byte
  <2> QED
    BY <1>2, <1>3, <2>1, Appended
<1>5. CanLine!Lag' = l - 1 /\ \A j \in 0..(l - 2) : Place(out', j) = Place(out, j + 1)
  BY <1>1, <1>2, Looks
<1>6. ASSUME NEW k \in 1..(p + 1) PROVE packet'[k] = Byte(due', k - 1)
  <2>1. k \in 1..p \/ k = p + 1
    BY <1>2
  <2>2. k = p + 1 => k - 1 = p
    BY <1>2
  <2> QED
    BY <1>1, <1>2, <1>4, <2>1, <2>2 DEF Stream
<1>7. ASSUME NEW j \in 0..(l - 2) PROVE ring'[Place(out', j)] = Byte(due', p + 1 + j)
  <2>1. j + 1 \in 0..(l - 1) /\ p + (j + 1) = p + 1 + j
    BY <1>2
  <2>2. ring[Place(out, j + 1)] = Byte(due, p + (j + 1))
    BY <1>2, <2>1 DEF Stream
  <2> QED
    BY <1>1, <1>5, <2>1, <2>2
<1>8. ASSUME NEW k \in 1..r PROVE rest'[k] = Byte(due', (p + 1) + (l - 1) + k - 1)
  <2>1. (p + 1) + (l - 1) + k - 1 = p + l + k - 1
    BY <1>2
  <2>2. rest[k] = Byte(due, p + l + k - 1)
    BY <1>2 DEF Stream
  <2> QED
    BY <1>1, <2>1, <2>2
<1>9. p + 1 <= 5 /\ (p + 1) + (l - 1) + r = 6 * d /\ Len(rest') = r /\ Len(due') = d
  BY <1>1, <1>2
<1> QED
  BY <1>4, <1>5, <1>6, <1>7, <1>8, <1>9 DEF Stream

LEMMA FeedStream ==
  ASSUME CanType, CanType', Stream, CanLine!Feed
  PROVE  Stream'
<1>1. /\ rest # <<>> /\ rest' = Tail(rest) /\ UNCHANGED <<out, packet, due>>
      /\ ring' = [ring EXCEPT ![in] = Head(rest)] /\ in' = CanLine!After(in)
      /\ CanLine!Lag < LagMax \/ CanLine!Wedged
  BY DEF CanLine!Feed, CanLine!Store, CanLine!Takes
<1>2. ~CanLine!Wedged
  BY NextByte DEF CanLine!Wedged
<1>3. in \in 0..(Size - 1) /\ out \in 0..(Size - 1) /\ Size \in Nat /\ Size > 5 /\ LagMax \in 1..(Size - 1)
  BY RingSize DEF CanType
<1>4. CanLine!Lag \in Nat /\ CanLine!Lag < Size - 1 /\ CanLine!Lag = IF in >= out THEN in - out ELSE in - out + Size
  BY <1>1, <1>2, <1>3, Lags
<1>5. in' = IF in = Size - 1 THEN 0 ELSE in + 1
  BY <1>1, <1>3, Afters
<1>6. CanLine!Lag' = CanLine!Lag + 1
  <2>1. CanLine!Lag' = IF in' >= out' THEN in' - out' ELSE in' - out' + Size
    BY <1>1, <1>3, <1>5, Distance DEF CanLine!Lag
  <2> QED
    BY <1>1, <1>3, <1>4, <1>5, <2>1
<1>7. /\ Place(out, CanLine!Lag) = in
      /\ \A j \in 0..(CanLine!Lag - 1) : Place(out, j) # in /\ Place(out, j) \in 0..(Size - 1)
  BY <1>3, <1>4 DEF Place
<1>8. /\ Len(rest') = Len(rest) - 1 /\ Len(rest) \in Nat /\ Len(rest) > 0 /\ Head(rest) = rest[1]
      /\ \A k \in 1..Len(rest') : rest'[k] = rest[k + 1]
  BY <1>1 DEF CanType
<1>9. Len(packet) \in Nat /\ Len(due) \in Nat
  BY Lens
<1>10. Len(packet') <= 5 /\ Len(packet') + CanLine!Lag' + Len(rest') = 6 * Len(due')
  BY <1>1, <1>4, <1>6, <1>8, <1>9 DEF Stream
<1>11. ASSUME NEW j \in 0..(CanLine!Lag' - 1) PROVE ring'[Place(out', j)] = Byte(due', Len(packet') + j)
  <2>1. CASE j = CanLine!Lag
    <3>1. ring'[Place(out', j)] = rest[1]
      BY <1>1, <1>3, <1>7, <1>8, <2>1 DEF CanType
    <3>2. rest[1] = Byte(due, Len(packet) + CanLine!Lag + 1 - 1)
      BY <1>8 DEF Stream
    <3>3. Len(packet) + CanLine!Lag + 1 - 1 = Len(packet) + j
      BY <1>4, <1>9, <2>1
    <3> QED
      BY <1>1, <3>1, <3>2, <3>3
  <2>2. CASE j # CanLine!Lag
    <3>1. j \in 0..(CanLine!Lag - 1)
      BY <1>4, <1>6, <2>2
    <3>2. ring'[Place(out', j)] = ring[Place(out, j)]
      BY <1>1, <1>3, <1>7, <3>1 DEF CanType
    <3> QED
      BY <1>1, <3>1, <3>2 DEF Stream
  <2> QED
    BY <2>1, <2>2
<1>12. ASSUME NEW k \in 1..Len(rest') PROVE rest'[k] = Byte(due', Len(packet') + CanLine!Lag' + k - 1)
  <2>1. k + 1 \in 1..Len(rest) /\ Len(packet) + CanLine!Lag + (k + 1) - 1 = Len(packet') + CanLine!Lag' + k - 1
    BY <1>1, <1>4, <1>6, <1>8, <1>9
  <2>2. rest[k + 1] = Byte(due, Len(packet) + CanLine!Lag + (k + 1) - 1)
    BY <2>1 DEF Stream
  <2> QED
    BY <1>1, <1>8, <2>1, <2>2
<1>13. \A k \in 1..Len(packet') : packet'[k] = Byte(due', k - 1)
  BY <1>1 DEF Stream
<1> QED
  BY <1>10, <1>11, <1>12, <1>13 DEF Stream

LEMMA SendStream ==
  ASSUME CanType, CanType', Stream, canFaults = 0, NEW x \in Data, CanLine!Send(x)
  PROVE  Stream'
<1>1. /\ rest = <<>> /\ rest' = CanLine!Frame(x) /\ due' = Append(due, x)
      /\ UNCHANGED <<ring, in, out, packet>>
  BY DEF CanLine!Send
<1>2. CanLine!Lag' = CanLine!Lag /\ CanLine!Lag \in Nat /\ Len(packet) \in Nat /\ Len(due) \in Nat
  BY <1>1, Lags, RingSize, Lens DEF CanLine!Lag
<1>3. /\ Len(due') = Len(due) + 1
      /\ \A k \in Nat : k < 6 * Len(due) => Byte(due', k) = Byte(due, k)
      /\ \A k \in Nat : k \in (6 * Len(due))..(6 * Len(due) + 5) =>
           Byte(due', k) = CanLine!Frame(x)[k - 6 * Len(due) + 1]
  BY <1>1, AfterSend
<1>4. Len(rest) = 0 /\ Len(rest') = 6
  BY <1>1, Frames
<1>5. Len(packet) + CanLine!Lag = 6 * Len(due)
  BY <1>2, <1>4 DEF Stream
<1>6. Len(packet') <= 5 /\ Len(packet') + CanLine!Lag' + Len(rest') = 6 * Len(due')
  BY <1>1, <1>2, <1>3, <1>4, <1>5 DEF Stream
<1>7. ASSUME NEW k \in 1..Len(packet') PROVE packet'[k] = Byte(due', k - 1)
  <2>1. k - 1 \in Nat /\ k - 1 < 6 * Len(due)
    BY <1>1, <1>2, <1>5
  <2> QED
    BY <1>1, <1>3, <2>1 DEF Stream
<1>8. ASSUME NEW j \in 0..(CanLine!Lag' - 1) PROVE ring'[Place(out', j)] = Byte(due', Len(packet') + j)
  <2>1. Len(packet) + j \in Nat /\ Len(packet) + j < 6 * Len(due)
    BY <1>1, <1>2, <1>5
  <2> QED
    BY <1>1, <1>2, <1>3, <2>1 DEF Stream
<1>9. ASSUME NEW k \in 1..Len(rest') PROVE rest'[k] = Byte(due', Len(packet') + CanLine!Lag' + k - 1)
  <2>1. Len(packet') + CanLine!Lag' + k - 1 = 6 * Len(due) + k - 1 /\ k \in 1..6
    BY <1>1, <1>2, <1>4, <1>5
  <2>2. 6 * Len(due) + k - 1 \in Nat /\ 6 * Len(due) + k - 1 \in (6 * Len(due))..(6 * Len(due) + 5)
    BY <1>2, <2>1
  <2>3. (6 * Len(due) + k - 1) - 6 * Len(due) + 1 = k
    BY <1>2, <2>1
  <2> QED
    BY <1>1, <1>3, <2>1, <2>2, <2>3
<1> QED
  BY <1>6, <1>7, <1>8, <1>9 DEF Stream

LEMMA StreamStep == CanType /\ StreamInv /\ [CanLine!Next]_canVars => StreamInv'
<1> SUFFICES ASSUME CanType, StreamInv, [CanLine!Next]_canVars, canFaults' = 0 PROVE Stream'
  BY DEF StreamInv
<1>0. CanType' /\ canFaults \in Nat
  BY CanTypeStep DEF CanType
<1>1. CASE UNCHANGED canVars \/ CanLine!Stay
  <2>1. UNCHANGED canVars
    BY <1>1 DEF CanLine!Stay, CanLine!vars, canVars
  <2>2. Stream
    BY <2>1 DEF canVars, StreamInv
  <2> QED
    BY <2>1, <2>2, SameStream
<1>2. CASE CanLine!Deliver
  BY <1>0, <1>2, DeliverStream DEF StreamInv, CanLine!Deliver
<1>3. CASE CanLine!Reject
  <2>1. Stream /\ in # out /\ CanLine!Stops /\ ~CanLine!Intact
    BY <1>3 DEF CanLine!Reject, CanLine!Ends, StreamInv
  <2>2. packet = CanLine!Covered(due[1]) /\ due[1] \in Data
    BY <2>1, NextByte DEF CanType
  <2> QED
    BY <2>1, <2>2 DEF CanLine!Intact
<1>4. CASE CanLine!Collect
  BY <1>0, <1>4, CollectStream DEF StreamInv, CanLine!Collect
<1>5. CASE CanLine!Feed
  BY <1>0, <1>5, FeedStream DEF StreamInv, CanLine!Feed
<1>6. ASSUME NEW x \in Data, CanLine!Send(x) PROVE Stream'
  BY <1>0, <1>6, SendStream DEF StreamInv, CanLine!Send
<1>7. CASE CanLine!Lost \/ CanLine!Damaged
  BY <1>0, <1>7 DEF CanLine!Lost, CanLine!Damaged
<1> QED
  BY <1>1, <1>2, <1>3, <1>4, <1>5, <1>6, <1>7 DEF CanLine!Next, CanLine!Process, CanLine!Line

LEMMA AllCan == [AllNext]_allVars => [CanLine!Next]_canVars
BY DEF AllNext, allVars, InCan, cabVars, canVars

LEMMA Emptied ==
  CanType /\ StreamInv => (canFaults = 0 /\ in = out /\ rest = <<>> => due = <<>>)
<1> SUFFICES ASSUME CanType, Stream, in = out, rest = <<>> PROVE due = <<>>
  BY DEF StreamInv
<1>1. CanLine!Lag = 0 /\ Len(rest) = 0 /\ Len(packet) \in Nat /\ Len(due) \in Nat
  BY Lags, Lens, RingSize DEF CanType
<1>2. Len(due) = 0
  BY <1>1 DEF Stream
<1> QED
  BY <1>2 DEF CanType

LEMMA InTurn ==
  CanType /\ StreamInv =>
    (canFaults = 0 /\ CanLine!Deliver => due # <<>> /\ packet = CanLine!Covered(Head(due)))
<1> SUFFICES ASSUME CanType, Stream, CanLine!Deliver
             PROVE  due # <<>> /\ packet = CanLine!Covered(Head(due))
  BY DEF StreamInv
<1>1. in # out /\ CanLine!Stops
  BY DEF CanLine!Deliver, CanLine!Ends
<1>2. due # <<>> /\ packet = CanLine!Covered(due[1])
  BY <1>1, NextByte
<1> QED
  BY <1>2, FirstBytes

(* Until a byte is lost or changed, frames are delivered in the order they    *)
(* were sent, none is lost and none comes twice, for every size of the ring   *)
(* that a frame fits in and whatever bytes the data and the CRC are.          *)
THEOREM AlwaysTransparent == AllSpec => Transparent
<1> DEFINE Whole == CanType /\ StreamInv
<1>1. AllInit => Whole
  BY InitCan DEF AllInit
<1>2. Whole /\ [AllNext]_allVars => Whole'
  BY CanTypeStep, StreamStep, AllCan
<1>3. Whole => (canFaults = 0 /\ in = out /\ rest = <<>> => due = <<>>)
  BY Emptied
<1>4. Whole => [canFaults = 0 /\ CanLine!Deliver => due # <<>> /\ packet = CanLine!Covered(Head(due))]_(CanLine!vars)
  BY InTurn
<1> QED
  <2> HIDE DEF Whole
  <2> QED
    BY <1>1, <1>2, <1>3, <1>4, PTL DEF AllSpec, Transparent, CanLine!Transparent
=============================================================================
