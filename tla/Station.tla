------------------------------ MODULE Station ------------------------------
(* The life of the station's device: BackgroundService's start command       *)
(* builds a BssDevice on the main thread (bssInit, BssDevice::create) and     *)
(* puts it in g_bssDevice; the device's service thread and the loop thread    *)
(* of the application run on it and tell their events through g_bssEvents;    *)
(* other threads of the application call the API.  Every start command of     *)
(* one process is modelled: the application asks for another when a serial    *)
(* number was written (MainActivity.kt:118-136), and Android after a crash.   *)
EXTENDS Naturals, Sequences

CONSTANTS
  Callers,     \* threads that call the API: screens, MQTT, the report timer
  StartMax,    \* bound: start commands of one process
  EventMax     \* bound: events told in one process

ASSUME StationAssumption == StartMax \in Nat \ {0} /\ EventMax \in Nat

Starts == 1..StartMax
None == 0

VARIABLES
  main,        \* the main thread: its place in the start command, the device it builds
  starts,      \* start commands so far; a device is named by its own
  device,      \* g_bssDevice
  service,     \* by device: m_bpThread
  bus,         \* the device whose BpCoCom has the CAN interface (g_co_if, g_arg)
  loops,       \* by start command: the loop thread (ThreadProcessBss) it asked for
  got,         \* by loop thread: the event it is handing over
  events,      \* g_bssEvents
  told,        \* events told so far; an event is named by its number
  handed,      \* events given to callBackBssFromJNI, in this order
  caller,      \* by thread: its place in a call of the API
  crashed

vars == <<main, starts, device, service, bus, loops, got, events, told, handed,
          caller, crashed>>

Sane == ~crashed

TypeOK ==
  /\ main \in [pc : {"idle", "build", "run", "publish", "finish", "join"}, new : 0..StartMax]
  /\ starts \in 0..StartMax
  /\ device \in 0..StartMax /\ bus \in 0..StartMax
  /\ service \in [Starts -> {"none", "running", "ended"}]
  /\ loops \in [Starts -> {"none", "due", "check", "use", "peek", "pop", "call"}]
  /\ told \in 0..EventMax
  /\ got \in [Starts -> 0..EventMax]
  /\ events \in Seq(1..EventMax) /\ handed \in Seq(1..EventMax)
  /\ caller \in [Callers -> {"idle", "checked"}]
  /\ crashed \in BOOLEAN

Init ==
  /\ main = [pc |-> "idle", new |-> None]
  /\ starts = 0 /\ device = None /\ bus = None
  /\ service = [i \in Starts |-> "none"]
  /\ loops = [i \in Starts |-> "none"] /\ got = [i \in Starts |-> 0]
  /\ events = <<>> /\ told = 0 /\ handed = <<>>
  /\ caller = [c \in Callers |-> "idle"]
  /\ crashed = FALSE

----------------------------------------------------------------------------
(* The main thread: the start command.                                       *)

\* The screen shown by a start hides the others for a minute (SyncDataActivity
\* :27), longer than the loop thread's three seconds.
Start ==
  /\ Sane /\ main.pc = "idle" /\ starts < StartMax
  /\ \A i \in Starts : loops[i] # "due"
  /\ starts' = starts + 1
  /\ main' = [pc |-> "build", new |-> starts + 1]
  /\ UNCHANGED <<device, service, bus, loops, got, events, told, handed, caller, crashed>>

\* The search for the cabinets' adapter never fails: the port it names may.
Adapter == {"opens", "missing"}

\* BpCoCom::initialized: the interface and the dictionary are global, a new
\* device takes them over; its own managers follow.
Registered(i) == i

\* The port cannot be opened: no device.
Refused == main' = [pc |-> "publish", new |-> None] /\ UNCHANGED bus

BusTaken == main' = [main EXCEPT !.pc = "run"] /\ bus' = Registered(main.new)

Build ==
  /\ Sane /\ main.pc = "build"
  /\ \E port \in Adapter :
       \/ port = "missing" /\ Refused
       \/ port = "opens" /\ BusTaken
  /\ UNCHANGED <<starts, device, service, loops, got, events, told, handed, caller, crashed>>

RunService ==
  /\ Sane /\ main.pc = "run"
  /\ service' = [service EXCEPT ![main.new] = "running"]
  /\ main' = [main EXCEPT !.pc = "publish"]
  /\ UNCHANGED <<starts, device, bus, loops, got, events, told, handed, caller, crashed>>

\* The devices whose service has been asked to end (m_bpThreadShutdown): only
\* BssDevice::reboot() asks, and nothing calls it  (variant: the destructor asks).
AlwaysShutDown == Starts
ShutDown == {}

\* The assignment to g_bssDevice, and what it destroys: ~BssDevice joins the
\* service thread, then ~BpCoCom closes the interface (app_co_free).
Publish ==
  /\ Sane /\ main.pc = "publish"
  /\ device' = main.new
  /\ IF device # None /\ device \notin ShutDown
     THEN main' = [main EXCEPT !.pc = "join"] /\ UNCHANGED <<service, bus>>
     ELSE /\ main' = [main EXCEPT !.pc = "finish"]
          /\ bus' = IF device = None THEN bus ELSE None
          /\ service' = [i \in Starts |-> IF i = device THEN "ended" ELSE service[i]]
  /\ UNCHANGED <<starts, loops, got, events, told, handed, caller, crashed>>

\* The rest of onStartCommand: the loop thread is due in three seconds.
Finish ==
  /\ Sane /\ main.pc = "finish"
  /\ main' = [pc |-> "idle", new |-> None]
  /\ loops' = [loops EXCEPT ![starts] = "due"]
  /\ UNCHANGED <<starts, device, service, bus, got, events, told, handed, caller, crashed>>

\* The main thread's looper runs the posted start of the loop thread.
LoopStarts(i) ==
  /\ Sane /\ main.pc = "idle" /\ loops[i] = "due"
  /\ loops' = [loops EXCEPT ![i] = "check"]
  /\ UNCHANGED <<main, starts, device, service, bus, got, events, told, handed, caller, crashed>>

----------------------------------------------------------------------------
(* Events.                                                                   *)

\* BssStateMonitor and the callbacks of native-lib, under g_lock.
Tell ==
  /\ told < EventMax
  /\ told' = told + 1
  /\ events' = Append(events, told + 1)

\* What is left in the queue when its first event is taken
\* (variant: front() without pop()).
Unpopped == events
Rest == Tail(events)

\* A battery is connected, lost or written: the service thread tells it.
ServiceTells(i) ==
  /\ Sane /\ service[i] = "running"
  /\ Tell
  /\ UNCHANGED <<main, starts, device, service, bus, loops, got, handed, caller, crashed>>

----------------------------------------------------------------------------
(* The loop thread: processBssFromJNY, for ever.                             *)

Goes(i, pc) == loops' = [loops EXCEPT ![i] = pc]

\* if(!g_bssDevice) at the head of the API's functions  (variant: no test).
Untested == TRUE
Present == device # None

LoopChecks(i) ==
  /\ Sane /\ loops[i] = "check"
  /\ Goes(i, IF Present THEN "use" ELSE "peek")
  /\ UNCHANGED <<main, starts, device, service, bus, got, events, told, handed, caller, crashed>>

\* BssDevice::process: g_bssDevice is read again; a door may have changed.
LoopUses(i) ==
  /\ Sane /\ loops[i] = "use"
  /\ \/ /\ device = None
        /\ crashed' = TRUE /\ UNCHANGED <<loops, events, told>>
     \/ /\ device # None
        /\ Goes(i, "peek")
        /\ \/ Tell
           \/ UNCHANGED <<events, told>>
        /\ UNCHANGED crashed
  /\ UNCHANGED <<main, starts, device, service, bus, got, handed, caller>>

\* g_bssEvents.empty(), without the lock  (variant: more than one is waited for).
WaitsForTwo == Len(events) > 1
Waiting == events # <<>>

LoopPeeks(i) ==
  /\ Sane /\ loops[i] = "peek"
  /\ Goes(i, IF Waiting THEN "pop" ELSE "check")
  /\ UNCHANGED <<main, starts, device, service, bus, got, events, told, handed, caller, crashed>>

\* front() and pop() under the lock; of an empty queue they are undefined.
LoopPops(i) ==
  /\ Sane /\ loops[i] = "pop"
  /\ \/ /\ events = <<>>
        /\ crashed' = TRUE /\ UNCHANGED <<loops, got, events>>
     \/ /\ events # <<>>
        /\ got' = [got EXCEPT ![i] = Head(events)]
        /\ events' = Rest
        /\ Goes(i, "call")
        /\ UNCHANGED crashed
  /\ UNCHANGED <<main, starts, device, service, bus, told, handed, caller>>

\* CallVoidMethod(callBackBssFromJNI).
LoopCalls(i) ==
  /\ Sane /\ loops[i] = "call"
  /\ Len(handed) < EventMax
  /\ handed' = Append(handed, got[i])
  /\ got' = [got EXCEPT ![i] = 0]
  /\ Goes(i, "check")
  /\ UNCHANGED <<main, starts, device, service, bus, events, told, caller, crashed>>

Loop(i) == LoopChecks(i) \/ LoopUses(i) \/ LoopPeeks(i) \/ LoopPops(i) \/ LoopCalls(i)

----------------------------------------------------------------------------
(* The other threads of the application.                                     *)

\* A call of the cabinets', the batteries' or the chargers' API finds a device.
Checks(c) ==
  /\ Sane /\ caller[c] = "idle" /\ Present
  /\ caller' = [caller EXCEPT ![c] = "checked"]
  /\ UNCHANGED <<main, starts, device, service, bus, loops, got, events, told, handed, crashed>>

\* It reads g_bssDevice again for what it asks of it, and the reports of all
\* cabinets (bssSyncData, bpSyncData) again for each cabinet.
Thereafter == {"idle", "checked"}

Uses(c) ==
  /\ Sane /\ caller[c] = "checked"
  /\ \/ device = None /\ crashed' = TRUE /\ UNCHANGED caller
     \/ /\ device # None
        /\ \E pc \in Thereafter : caller' = [caller EXCEPT ![c] = pc]
        /\ UNCHANGED crashed
  /\ UNCHANGED <<main, starts, device, service, bus, loops, got, events, told, handed>>

\* The process is gone with its threads, its queue and its device; START_STICKY
\* has Android start the service again in a new one.
Reborn ==
  /\ crashed
  /\ main' = [pc |-> "idle", new |-> None]
  /\ starts' = 0 /\ device' = None /\ bus' = None
  /\ service' = [i \in Starts |-> "none"]
  /\ loops' = [i \in Starts |-> "none"] /\ got' = [i \in Starts |-> 0]
  /\ events' = <<>> /\ told' = 0 /\ handed' = <<>>
  /\ caller' = [c \in Callers |-> "idle"]
  /\ crashed' = FALSE

----------------------------------------------------------------------------
MainStep == Build \/ RunService \/ Publish \/ Finish \/ \E i \in Starts : LoopStarts(i)

Next ==
  \/ Start \/ MainStep \/ Reborn
  \/ \E i \in Starts : ServiceTells(i) \/ Loop(i)
  \/ \E c \in Callers : Checks(c) \/ Uses(c)

\* The main thread and the loop threads run; nothing is assumed of the others.
Fairness == WF_vars(MainStep) /\ \A i \in Starts : WF_vars(Loop(i))

Spec == Init /\ [][Next]_vars /\ Fairness

----------------------------------------------------------------------------
(* When a start command has returned, the service thread that runs is the     *)
(* one of the device that has the CAN interface, and it is alone: two drive   *)
(* one SDO client only while the main thread waits for the first of them.     *)
ServiceHasBus ==
  main.pc = "idle" => \A i \in Starts : service[i] = "running" => bus = i

(* Started once, the application does not crash: neither an API call that     *)
(* reads g_bssDevice twice while it is assigned, nor the test of the queue    *)
(* outside its lock.                                                          *)
OnceNeverCrashes == crashed => starts > 1

(* With one loop thread the application is told every event once, in the      *)
(* order in which they were told.                                             *)
OneLoop == \A i, j \in Starts : loops[i] # "none" /\ loops[j] # "none" => i = j

HandedInOrder ==
  OneLoop => \A k \in DOMAIN handed : handed[k] = k

(* Every event reaches the application, once no more are told and unless it   *)
(* crashes: also while the main thread hangs.                                 *)
EventsArrive == []<>(crashed \/ Len(handed) = told)

\* The same of a second start: violated, see OnceNeverCrashes and ServiceHasBus.
NeverCrashes == ~crashed
StartsReturn == main.pc # "idle" ~> main.pc = "idle"
InOrder == \A k \in DOMAIN handed : handed[k] = k
=============================================================================
