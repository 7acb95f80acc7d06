------------------------------ MODULE Cabinets ------------------------------
(* The cabinet manager and the mutexes it shares with the battery service:   *)
(* the station's thread polls one cabinet a round and assigns packs, a       *)
(* thread of the application asks for an assignment, the service's thread    *)
(* announces packs that have come and gone.  A thread that needs a mutex     *)
(* waits for it, its own included: std::mutex is not recursive.  Whose turn  *)
(* it is (m_currentCab, m_bpAssignIndex) is left open: any cabinet's.        *)
EXTENDS Integers, FiniteSets

CONSTANTS
  Cabs,        \* m_cabs
  CallMax,     \* calls of cabTryReadBp
  None

Threads == {"station", "service", "app"}
Locks == {"cab",    \* CabinetManager::m_lock
          "asg",    \* BpAssignModule::m_lock
          "bp"}     \* BpManager::m_lock

ASSUME CabinetsAssumption == CallMax \in Nat /\ None \notin Cabs \cup Threads \cup Locks

VARIABLES
  thread,      \* where each thread is, for which cabinet, and who called assign
  lock,        \* who holds each mutex
  wait,        \* m_waitBpAssigning
  force,       \* m_forceAssigning, m_cabAssigning, m_assigningCount
  cab,         \* m_data: m_isConnected, m_doorStt, and m_bpSn with m_bpSoc
  bp,          \* m_bps: m_assignStatus, and whether m_info.m_sn is there
  assigning,   \* m_assigningBp
  told,        \* cabinets the application believes to have a pack
  calls,
  crossed      \* cabinets whose pack was announced during its reset, or assigned twice (history)

vars == <<thread, lock, wait, force, cab, bp, assigning, told, calls, crossed>>

Labels == {"start", "force", "check1", "check2", "status", "connect", "add", "select",
           "deselect", "failed", "back", "poll", "reset", "gone",
           "blank", "call", "polled", "idle", "finish", "crashed"}
Callers == {"auto", "forced", "door", "app", "none"}

TypeOK ==
  /\ thread \in [Threads -> [at : Labels, cab : Cabs \cup {None}, by : Callers, then : Labels]]
  /\ lock \in [Locks -> Threads \cup {None}]
  /\ wait \in BOOLEAN
  /\ force \in [on : BOOLEAN, cab : Cabs \cup {None}, count : -1..1]
  /\ cab \in [Cabs -> [connected : BOOLEAN, closed : BOOLEAN, pack : {"none", "flat", "full"}]]
  /\ bp \in [Cabs -> [status : {"off", "assigning", "assigned"}, sn : BOOLEAN]]
  /\ assigning \in Cabs \cup {None} /\ told \subseteq Cabs /\ calls \in 0..CallMax
  /\ crossed \subseteq Cabs

Blank == [status |-> "off", sn |-> FALSE]
NoForce == [on |-> FALSE, cab |-> None, count |-> 0]

NewCab == [connected |-> FALSE, closed |-> TRUE, pack |-> "none"]

Fresh(label) == [at |-> label, cab |-> None, by |-> "none", then |-> "idle"]

Init ==
  /\ thread = [t \in Threads |-> Fresh(IF t = "station" THEN "start" ELSE "idle")]
  /\ lock = [l \in Locks |-> None]
  /\ wait = FALSE /\ force = NoForce
  /\ cab = [c \in Cabs |-> NewCab]
  /\ bp = [c \in Cabs |-> Blank]
  /\ assigning = None /\ told = {} /\ calls = 0 /\ crossed = {}

At(t, label) == thread[t].at = label
Goes(t, label) ==
  thread' = [thread EXCEPT ![t] = IF label \in {"start", "force", "poll", "idle"}
                                  THEN Fresh(label) ELSE [@ EXCEPT !.at = label]]
Puts(t, label, c, by, next) ==
  thread' = [thread EXCEPT ![t] = [at |-> label, cab |-> c, by |-> by, then |-> next]]
Free(l) == lock[l] = None
Takes(t, l) == Free(l) /\ lock' = [lock EXCEPT ![l] = t]

records == <<cab, bp, assigning, told, crossed>>
NoneAssigned == assigning' = None

----------------------------------------------------------------------------
(* What the battery service calls in the cabinet manager: each takes and      *)
(* releases m_lock.                                                           *)

\* m_assigningCount is signed: once below zero it stays there, -1 for all of that.
Less(count) == IF count < 0 THEN count ELSE count - 1
Counted == IF force.count # 0 THEN [force EXCEPT !.count = Less(@)] ELSE force

\* onBpAssignStatus
StatusChanged ==
  /\ Free("cab") /\ wait' = FALSE
  /\ force' = IF force.on THEN Counted ELSE force

\* The charge in the record: a frame of the pack may have set it, whatever its status.
Charge == {"flat", "full"}

(* onBpConnected: the serial number is read through a reference to the        *)
(* record's; the application is told if the charge is known already.          *)
Connected(c) ==
  /\ Free("cab") /\ wait' = FALSE
  /\ force' = IF force.on THEN NoForce ELSE force
  /\ \E pack \in IF bp[c].sn THEN Charge ELSE {"none"} :
       /\ cab' = [cab EXCEPT ![c].pack = pack]
       /\ told' = IF pack = "full" THEN told \cup {c} ELSE told

\* onBpDisconnected
Disconnected(c) ==
  /\ Free("cab") /\ wait' = FALSE
  /\ cab' = [cab EXCEPT ![c].pack = "none"]
  /\ told' = told \ {c}

----------------------------------------------------------------------------
(* BpManager::assign and BpCoCom::assign each announce a pack that is         *)
(* assigned, and go on all the same to BpAssignModule::addBp.                 *)

CheckAt(t, label, next) ==
  /\ At(t, label)
  /\ Puts(t, IF bp[thread[t].cab].status = "assigned" THEN "status" ELSE next,
          thread[t].cab, thread[t].by, next)
  /\ UNCHANGED <<lock, calls, wait, force, records>>

ManagerChecks(t) == CheckAt(t, "check1", "check2")
InterfaceChecks(t) == CheckAt(t, "check2", "add")

\* notifyAssigningState: the status, then the connection if there is a serial number.
Status(t) ==
  /\ At(t, "status") /\ StatusChanged
  /\ Goes(t, IF bp[thread[t].cab].sn THEN "connect" ELSE thread[t].then)
  /\ UNCHANGED <<lock, calls, records>>

BeingReset(c) == \E t \in Threads : thread[t].at = "blank" /\ thread[t].cab = c

Connect(t) ==
  /\ At(t, "connect") /\ Connected(thread[t].cab)
  /\ Goes(t, thread[t].then)
  /\ crossed' = IF BeingReset(thread[t].cab) THEN crossed \cup {thread[t].cab} ELSE crossed
  /\ UNCHANGED <<lock, calls, bp, assigning>>

(* addBp holds its lock over the node-id line of the cabinet.                 *)
Add(t) ==
  /\ At(t, "add")
  /\ LET c == thread[t].cab
     IN \/ /\ Free("asg") /\ assigning = c /\ bp[c].status # "off"
           /\ Goes(t, "back") /\ UNCHANGED <<lock, bp, assigning>>
        \/ /\ Takes(t, "asg") /\ ~(assigning = c /\ bp[c].status # "off")
           /\ bp' = [b \in Cabs |-> IF b = assigning THEN [bp[b] EXCEPT !.status = "off"]
                                    ELSE bp[b]]
           /\ assigning' = c /\ Goes(t, "select")
  /\ crossed' = IF bp[thread[t].cab].status = "assigned" THEN crossed \cup {thread[t].cab}
                ELSE crossed
  /\ UNCHANGED <<calls, wait, force, cab, told>>

Select(t) ==
  /\ At(t, "select")
  /\ \/ /\ Goes(t, "deselect")
        /\ bp' = [bp EXCEPT ![thread[t].cab].status = "assigning"]
     \/ Goes(t, "failed") /\ UNCHANGED bp
  /\ UNCHANGED <<lock, calls, wait, force, cab, assigning, told, crossed>>

Deselect(t) ==
  /\ At(t, "deselect")
  /\ \/ Goes(t, "back") /\ lock' = [lock EXCEPT !["asg"] = None]
     \/ Goes(t, "failed") /\ UNCHANGED lock
  /\ UNCHANGED <<calls, wait, force, records>>

\* The failure is notified and the pack and the module are reset.
Failed(t) ==
  /\ At(t, "failed") /\ StatusChanged
  /\ Goes(t, IF t = "service" THEN "idle" ELSE "back")
  /\ bp' = [bp EXCEPT ![thread[t].cab] = Blank]
  /\ NoneAssigned /\ lock' = [lock EXCEPT !["asg"] = None]
  /\ UNCHANGED <<calls, cab, told, crossed>>

----------------------------------------------------------------------------
(* BpManager::resetBp holds its lock while it tells the cabinet manager.      *)

\* Only a pack that is assigned has been announced  (variant: never told).
AnnouncedNever(c) == FALSE
Announced(c) == bp[c].status = "assigned"

Reset(t) ==
  /\ At(t, "reset") /\ Free("bp")
  /\ LET c == thread[t].cab
     IN \/ /\ Announced(c)
           /\ Takes(t, "bp") /\ Goes(t, "gone") /\ UNCHANGED bp
        \/ /\ ~Announced(c)
           /\ bp' = [bp EXCEPT ![c] = Blank]
           /\ Goes(t, thread[t].then) /\ UNCHANGED lock
  /\ UNCHANGED <<calls, wait, force, cab, assigning, told, crossed>>

Gone(t) ==
  /\ At(t, "gone") /\ Disconnected(thread[t].cab)
  /\ Goes(t, "blank") /\ crossed' = crossed \ {thread[t].cab}
  /\ UNCHANGED <<lock, calls, force, bp, assigning>>

\* m_lock.unlock()  (variant: missing).
UnlockedNot == lock
Unlocked == [lock EXCEPT !["bp"] = None]

BlankBp(t) ==
  /\ At(t, "blank")
  /\ bp' = [bp EXCEPT ![thread[t].cab] = Blank]
  /\ lock' = Unlocked
  /\ Goes(t, thread[t].then)
  /\ UNCHANGED <<calls, wait, force, cab, assigning, told, crossed>>

----------------------------------------------------------------------------
(* CabinetManager::assignBp, of a door that was closed and of the application *)

Assignable(c) == cab[c].connected /\ cab[c].closed /\ bp[c].status = "off"

\* The attempts after the first.
Attempts(count) == count - 1

AfterCall(t) == IF t = "station" THEN "polled" ELSE "idle"

AssignBp(t) ==
  /\ At(t, "call")
  /\ LET c == thread[t].cab
     IN \/ Free("cab") /\ Goes(t, AfterCall(t)) /\ UNCHANGED <<lock, force>>
        \/ /\ Takes(t, "cab") /\ Assignable(c)
           /\ force' = [on |-> TRUE, cab |-> c, count |-> Attempts(IF t = "station" THEN 2 ELSE 1)]
           /\ Puts(t, "check1", c, IF t = "station" THEN "door" ELSE "app", "idle")
  /\ UNCHANGED <<calls, wait, records>>

\* The lock guard of assignBp ends.
Back(t) ==
  /\ At(t, "back") /\ thread[t].by \in {"door", "app"}
  /\ lock' = [lock EXCEPT !["cab"] = None]
  /\ Goes(t, AfterCall(t))
  /\ UNCHANGED <<calls, wait, force, records>>

----------------------------------------------------------------------------
(* CabinetManager::process *)

\* Read without a lock.
Forced == force.on /\ force.cab # None /\ force.count # 0

ForceStart ==
  /\ At("station", "start") /\ ~wait /\ Forced
  /\ Goes("station", "force")
  /\ UNCHANGED <<lock, calls, wait, force, records>>

\* m_cabAssigning and m_assigningCount were checked before the lock was taken.
ForceGone ==
  /\ At("station", "force") /\ Free("cab") /\ force.cab = None
  /\ Goes("station", "crashed")
  /\ UNCHANGED <<lock, calls, wait, force, records>>

ForceAssigned ==
  /\ At("station", "force") /\ Free("cab") /\ force.cab # None
  /\ bp[force.cab].status = "assigned"
  /\ force' = NoForce /\ Goes("station", "poll")
  /\ UNCHANGED <<lock, calls, wait, records>>

ForceAgain ==
  /\ At("station", "force") /\ Takes("station", "cab") /\ force.cab # None
  /\ bp[force.cab].status # "assigned"
  /\ Puts("station", "check1", force.cab, "forced", "idle")
  /\ UNCHANGED <<calls, wait, force, records>>

ForceBack ==
  /\ At("station", "back") /\ thread["station"].by = "forced"
  /\ lock' = [lock EXCEPT !["cab"] = None]
  /\ force' = IF force.count = 1 THEN NoForce ELSE [force EXCEPT !.count = Less(@)]
  /\ wait' = TRUE /\ Goes("station", "poll")
  /\ UNCHANGED <<calls, records>>

\* A cabinet that is assignable, or none: an upgrade may forbid it.
Scan ==
  /\ At("station", "start") /\ ~wait /\ ~Forced
  /\ \/ Goes("station", "poll")
     \/ \E c \in Cabs : Assignable(c) /\ Puts("station", "check1", c, "auto", "idle")
  /\ UNCHANGED <<lock, calls, wait, force, records>>

\* m_waitBpAssigning is set after the call, whatever has been notified in it.
AutoBack ==
  /\ At("station", "back") /\ thread["station"].by = "auto"
  /\ Free("cab") /\ wait' = TRUE /\ Goes("station", "poll")
  /\ UNCHANGED <<lock, calls, force, records>>

Waiting ==
  /\ At("station", "start") /\ wait /\ Goes("station", "poll")
  /\ UNCHANGED <<lock, calls, wait, force, records>>

\* No answer, but not for the last time; or the cabinet's timer has not run out.
PollNothing ==
  /\ At("station", "poll") /\ Goes("station", "start")
  /\ UNCHANGED <<lock, calls, wait, force, records>>

ResetOf(c, next) == Puts("station", "reset", c, "none", next)

\* No answer for the last time: what the cabinet shows is cleared without the lock.
PollLost(c) ==
  /\ At("station", "poll") /\ ResetOf(c, "start")
  /\ cab' = [cab EXCEPT ![c].connected = FALSE, ![c].pack = "none"]
  /\ crossed' = crossed \ {c}
  /\ UNCHANGED <<lock, calls, wait, force, bp, assigning, told>>

\* The values of an answer; of those only the door is followed here.
DoorMoved(c) == [cab EXCEPT ![c].closed = ~@]

\* The door has moved: the pack is reset, and assigned if the door is closed now.
PollDoor(c) ==
  /\ At("station", "poll")
  /\ cab' = DoorMoved(c)
  /\ ResetOf(c, IF cab[c].closed THEN "polled" ELSE "call")
  /\ UNCHANGED <<lock, calls, wait, force, bp, assigning, told, crossed>>

(* A pack shown without charge is announced to the application once its       *)
(* charge is known  (variant: it is shown and nothing is said).               *)
ToldLaterNot(c, soc) == told
ToldLater(c, soc) == IF cab[c].pack = "flat" /\ soc = "full" THEN told \cup {c} ELSE told

\* The answer, or the rest of it after the door has moved.
Polled(c) ==
  /\ \/ At("station", "poll")
     \/ At("station", "polled") /\ thread["station"].cab = c
  /\ \E soc \in Charge :
       /\ cab' = [cab EXCEPT ![c].connected = TRUE,
                             ![c].pack = IF @ = "none" THEN "none" ELSE soc]
       /\ told' = ToldLater(c, soc)
  /\ Goes("station", "start")
  /\ UNCHANGED <<lock, calls, wait, force, bp, assigning, crossed>>

----------------------------------------------------------------------------
(* The service's thread, and the application's calls *)

\* The serial number of the pack is read, without a lock; or a step of it fails.
Progress ==
  /\ At("service", "idle") /\ assigning # None /\ bp[assigning].status = "assigning"
  /\ \/ bp' = [bp EXCEPT ![assigning].status = "assigned"]
     \/ Free("asg") /\ bp' = [bp EXCEPT ![assigning].status = "off"]
  /\ UNCHANGED <<thread, lock, calls, wait, force, cab, assigning, told, crossed>>

\* BpAssignModule::process finds it assigned, or failed.
Announce ==
  /\ At("service", "idle") /\ assigning # None /\ bp[assigning].status = "assigned"
  /\ Takes("service", "asg")
  /\ bp' = [bp EXCEPT ![assigning].sn = TRUE]
  /\ Puts("service", "status", assigning, "none", "finish")
  /\ UNCHANGED <<calls, wait, force, cab, assigning, told, crossed>>

Finish ==
  /\ At("service", "finish")
  /\ NoneAssigned /\ lock' = [lock EXCEPT !["asg"] = None] /\ Goes("service", "idle")
  /\ UNCHANGED <<calls, wait, force, cab, bp, told, crossed>>

GiveUp ==
  /\ At("service", "idle") /\ assigning # None /\ bp[assigning].status = "off"
  /\ Takes("service", "asg")
  /\ Puts("service", "failed", assigning, "none", "idle")
  /\ UNCHANGED <<calls, wait, force, records>>

\* BpManager::process has heard nothing of an assigned pack for too long.
Silent ==
  /\ At("service", "idle")
  /\ \E c \in Cabs :
       /\ bp[c].status = "assigned" /\ Takes("service", "bp")
       /\ Puts("service", "gone", c, "none", "idle")
  /\ UNCHANGED <<calls, wait, force, records>>

CallAssign ==
  /\ At("app", "idle") /\ calls < CallMax /\ calls' = calls + 1
  /\ \E c \in Cabs : Puts("app", "call", c, "none", "idle")
  /\ UNCHANGED <<lock, wait, force, records>>

Both(t) ==
  \/ ManagerChecks(t) \/ InterfaceChecks(t) \/ Status(t) \/ Connect(t) \/ Add(t) \/ Select(t) \/ Deselect(t) \/ Failed(t)
  \/ Reset(t) \/ Gone(t) \/ BlankBp(t) \/ AssignBp(t) \/ Back(t)

Station ==
  \/ ForceStart \/ ForceGone \/ ForceAssigned \/ ForceAgain \/ ForceBack
  \/ Scan \/ AutoBack \/ Waiting
  \/ PollNothing \/ \E c \in Cabs : PollLost(c) \/ PollDoor(c) \/ Polled(c)
Service == Progress \/ Announce \/ Finish \/ GiveUp \/ Silent

Next == Station \/ Service \/ CallAssign \/ \E t \in Threads : Both(t)
Spec == Init /\ [][Next]_vars

----------------------------------------------------------------------------
(* The mutex a thread has to wait for. *)
Needs(t) ==
  CASE thread[t].at \in {"status", "connect", "failed", "gone", "call", "force"} -> "cab"
    [] At(t, "back") /\ thread[t].by = "auto" -> "cab"
    [] thread[t].at = "add" -> "asg"
    [] thread[t].at = "reset" -> "bp"
    [] OTHER -> None

Deadlock(S) ==
  S # {} /\ \A t \in S : Needs(t) # None /\ lock[Needs(t)] \in S

(* Every deadlock has a thread in it that assigns a pack under the cabinets'  *)
(* lock; an automatic assignment, a reset or a lost pack alone makes none.    *)
DeadlockUnderAssign ==
  \A S \in SUBSET Threads :
    Deadlock(S) => \E t \in S : lock["cab"] = t /\ thread[t].by \in {"forced", "door", "app"}

AtWork(c) ==
  \/ assigning = c
  \/ \E t \in Threads : thread[t].cab = c /\ thread[t].at \in {"gone", "blank", "reset"}

(* A pack that is assigned, and neither being announced nor being reset, is   *)
(* shown by its cabinet, and the application knows it once its charge is.     *)
PackShown ==
  /\ \A c \in Cabs : bp[c].status = "assigned" /\ ~AtWork(c) => cab[c].pack # "none"
  /\ \A c \in Cabs : cab[c].pack = "full" => c \in told

(* A cabinet shows a pack that is not there only when it was announced in the *)
(* middle of its reset.                                                       *)
ShownIsThere ==
  \A c \in Cabs : cab[c].pack # "none" /\ ~AtWork(c) /\ c \notin crossed
                    => bp[c].status = "assigned"

(* The same, crossed or not.  (Violated.)  *)
NeverStale ==
  \A c \in Cabs : cab[c].pack # "none" /\ ~AtWork(c) => bp[c].status = "assigned"

(* No thread waits for ever.  (Violated.)  *)
NoDeadlock == \A S \in SUBSET Threads : ~Deadlock(S)

(* A wait for an assignment has one to wait for.  (Violated.)  *)
WaitHasCause == wait => assigning # None

(* A forced assignment is tried a bounded number of times.  (Violated.)  *)
AttemptsEnd == force.count >= 0

(* No pack is assigned behind an open door.  (Violated.)  *)
DoorIsClosed ==
  \A t \in Threads : At(t, "select") => cab[thread[t].cab].closed

(* The null pointer is never read.  (Violated.)  *)
NoCrash == ~At("station", "crashed")
=============================================================================
