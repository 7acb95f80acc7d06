------------------------------ MODULE Exchange ------------------------------
(* The exchange of batteries at the station's screen: the activities from the
   standby screen through the login to the result, their count-down timers, the
   calls to the backend, and what they see and do of the cabinets through the
   JNI (a door as last polled, a serial as last read, one queue of events).
   The backend and the person at the station are external.                   *)
EXTENDS Integers, Sequences, FiniteSets, SequencesExt
CONSTANTS Cabs, Packs,      \* the cabinets and the battery packs
          Home,             \* Home[c]: the pack that is in c at the start
          None,
          OddMax,           \* refusals, losses, jams, repeated clicks in a behaviour
          SwapMax,          \* transactions of a session
          EventMax, WriteMax, \* events not yet told, writes not yet answered
          Prompt            \* doors are polled and told before the backend or a person
                            \* acts, writes answered before a session or a result

ASSUME HomeAssumption == /\ Home \in [Cabs -> Packs \cup {None}]
                         /\ None \notin Packs \cup Cabs
ASSUME BoundsAssumption == /\ SwapMax \in Nat \ {0} /\ {OddMax, EventMax, WriteMax} \subseteq Nat
                           /\ Prompt \in BOOLEAN

VARIABLES stack,       \* the activities above the standby screen
          timers,      \* the count-down timers that run
          call,        \* the request of the top screen that is not answered yet
          swap,        \* the transaction as the screens know it
          backend,     \* the transaction as the backend knows it
          sync,        \* isNeedSyncData
          connected,   \* cabinet of resultBatteryConnected
          doorEvent,   \* cabinet of resultDoorChange when it tells of an opening
          door, pack, hand, owner,  \* the world: doors, packs, serial written in a pack
          seen, shown,              \* doors as polled, packs as read
          events, writes,           \* g_bssEvents; device writes not yet answered
          odd, cut, remote          \* what is left of OddMax; a confirm was cut off; a door was opened remotely

ui == <<stack, timers, call, swap, backend, sync, cut>>
app == <<connected, doorEvent>>
world == <<door, pack, hand, owner>>
station == <<seen, shown, events, writes>>
vars == <<ui, app, world, station, odd, remote>>

Top == IF stack = <<>> THEN "standby" ELSE Last(stack)
Exchange == {"empty", "validate", "error", "open", "result"}
NoSwap == [old |-> None, new |-> None, serial |-> None, fails |-> 0,
           tries |-> 0, asked |-> FALSE, go |-> FALSE, nr |-> 0]
Timers == {"noAction", "open10", "fill60", "read15", "valid60", "give5", "idle60",
           "open3", "leave5", "settle3", "result120"}
Event == [kind : {"door", "connected", "assigned"}, cab : Cabs, ok : BOOLEAN]

\* onStartCommand and the screens of a start: nothing is polled or read yet
Started == /\ stack' = <<>> /\ timers' = {} /\ call' = "none" /\ swap' = NoSwap
           /\ backend' = "none" /\ sync' = TRUE /\ cut' = FALSE
           /\ connected' = None /\ doorEvent' = None
           /\ shown' = [c \in Cabs |-> None] /\ seen' = door
           /\ events' = <<>> /\ writes' = <<>>
Init == /\ stack = <<>> /\ timers = {} /\ call = "none" /\ swap = NoSwap
        /\ backend = "none" /\ sync = TRUE /\ doorEvent = None /\ connected = None
        /\ pack = Home /\ shown = [c \in Cabs |-> None]
        /\ hand = Packs \ {Home[c] : c \in Cabs}
        /\ owner = [p \in Packs |-> IF p \in hand THEN "vehicle" ELSE "bss"]
        /\ door = [c \in Cabs |-> "closed"] /\ seen = door
        /\ events = <<>> /\ writes = <<>>
        /\ odd = OddMax /\ cut = FALSE /\ remote = FALSE

(* What the screens read, through the JNI. *)
DoorState(c) == seen[c]
BatteryRead(c) == shown[c]
\* getSerialBattery: nothing from an open door, nor after the event of its opening
Serial(c) == IF DoorState(c) = "closed" /\ doorEvent # c
             THEN BatteryRead(c) ELSE None
\* bssToBe: the cabinets reported closed and without a battery
ReportedEmpty == {c \in Cabs : DoorState(c) = "closed" /\ Serial(c) = None}
Polled == Prompt => seen = door /\ events = <<>>
Answered == Polled /\ (Prompt => writes = <<>>)
Odd == odd > 0 /\ odd' = odd - 1
Normal == UNCHANGED odd
Alone == odd = OddMax /\ odd > 0 /\ odd' = 0   \* nothing else is odd in the behaviour

(* What the screens do. *)
\* setDoorOpen, whose result no screen uses: the lock may jam; n: odd things before
OpenDoor(c, n) == \/ odd >= n /\ odd' = odd - n /\ door' = [door EXCEPT ![c] = "open"]
                  \/ odd > n /\ odd' = odd - n - 1 /\ door' = door
\* cabAssignedDevicesToBp: a pack that is not assigned fails at once
Assign(c, to, es) ==
  IF shown[c] = None
  THEN /\ Len(es) < EventMax
       /\ events' = Append(es, [kind |-> "assigned", cab |-> c, ok |-> FALSE])
       /\ UNCHANGED writes
  ELSE /\ Len(writes) < WriteMax
       /\ writes' = Append(writes, [cab |-> c, to |-> to]) /\ events' = es

\* finish(): ... (variant: the validation screen keeps its 60 s timer)
CancelledKeeps(s) == CASE s = "qr" -> {"noAction"}
                       [] s = "empty" -> {"open10", "fill60"}
                       [] s = "error" -> {"give5", "idle60"}
                       [] s = "result" -> {"result120"}
                       [] OTHER -> {}
\* finish(): the timers a screen cancels
Cancelled(s) == CASE s = "qr" -> {"noAction"}
                  [] s = "empty" -> {"open10", "fill60"}
                  [] s = "validate" -> {"valid60"}
                  [] s = "error" -> {"give5", "idle60"}
                  [] s = "result" -> {"result120"}
                  [] OTHER -> {}
Replace(s, ts) == /\ stack' = Append(Front(stack), s)
                  /\ timers' = (timers \ Cancelled(Top)) \cup ts /\ call' = "none"
Pop == stack' = Front(stack) /\ timers' = timers \ Cancelled(Top) /\ call' = "none"
\* logout() clears the activities down to the standby screen, which is resumed
Standby == /\ stack' = <<>> /\ call' = "none" /\ sync' = TRUE
         /\ swap' = NoSwap /\ backend' = "none" /\ cut' = FALSE
Logout == Standby /\ timers' = timers \ (Cancelled(Top) \cup {"noAction"})
Quiet == UNCHANGED <<door, odd, events, writes>>
Rest == UNCHANGED <<app, pack, hand, owner, seen, shown, remote>>

(* Standby, login and main screens. *)
NoActionOn == timers \cup {"noAction"}     \* startNoAction
NoActionOff == timers \ {"noAction"}      \* cancelTimer
Opens(s) == Append(stack, s)
BannerTap == /\ Top = "standby" /\ Answered /\ stack' = Opens("qr") /\ timers' = NoActionOn
             /\ Quiet /\ Rest /\ UNCHANGED <<call, swap, backend, sync, cut>>
StatusTaps == /\ Top = "standby" /\ Answered
              /\ stack' = Opens("account") /\ timers' = NoActionOn
              /\ Quiet /\ Rest /\ UNCHANGED <<call, swap, backend, sync, cut>>
OtherLogin == /\ Top = "qr" /\ Polled /\ stack' = Opens("account") /\ timers' = NoActionOn
              /\ Quiet /\ Rest /\ UNCHANGED <<call, swap, backend, sync, cut>>
LoginBack == /\ Top \in {"qr", "account"} /\ Polled /\ Pop
             /\ Quiet /\ Rest /\ UNCHANGED <<swap, backend, sync, cut>>
\* the login screens below the main screen are not shown again; a guarantor's main
\* screen runs without the no-action timer
MainOpens(guarantor) ==
  /\ stack' = <<"main">> /\ timers' = (IF guarantor THEN NoActionOff ELSE NoActionOn)
  /\ remote' = FALSE
  /\ UNCHANGED <<call, swap, backend, sync, cut, app, world, station, odd>>
QrConfirmed == /\ Top = "qr" /\ Polled /\ \E guarantor \in BOOLEAN : MainOpens(guarantor)
AccountLogin == /\ Top = "account" /\ Polled /\ \E guarantor \in BOOLEAN : MainOpens(guarantor)
NoAction == /\ "noAction" \in timers
            /\ Standby /\ timers' = NoActionOff /\ Quiet /\ Rest
\* the start button ... (variant: the no-action timer is not cancelled)
StartClickKeeps == /\ Top = "main" /\ call = "none" /\ Polled
                   /\ call' = "empty"
                   /\ Quiet /\ Rest /\ UNCHANGED <<stack, timers, swap, backend, sync, cut>>
StartClick == /\ Top = "main" /\ call = "none" /\ Polled
              /\ call' = "empty" /\ timers' = NoActionOff
              /\ Quiet /\ Rest /\ UNCHANGED <<stack, swap, backend, sync, cut>>
MainLogout == Top = "main" /\ Polled /\ Logout /\ Quiet /\ Rest
Began(c, nr) == swap' = [NoSwap EXCEPT !.old = c, !.nr = nr] /\ backend' = "open"
EmptyFound == /\ call = "empty" /\ Polled
              /\ \E c \in ReportedEmpty : /\ Began(c, 1) /\ OpenDoor(c, 0)
              /\ stack' = Opens("empty") /\ timers' = timers \cup {"open10"}
              /\ call' = "none" /\ sync' = FALSE /\ cut' = FALSE
              /\ Rest /\ UNCHANGED <<events, writes>>
EmptyRefused == /\ call = "empty" /\ (IF ReportedEmpty = {} THEN Normal ELSE Odd)
                /\ call' = "none" /\ timers' = NoActionOn
                /\ Rest /\ UNCHANGED <<stack, swap, backend, sync, cut, door, events, writes>>

(* The cabinet for the old pack: it opens (10 s), it is closed again (60 s). *)
WaitOpen == /\ "open10" \in timers
            /\ DoorState(swap.old) = "open" \/ Polled
            /\ timers' = (timers \ {"open10"}) \cup {"fill60"}
            /\ Quiet /\ Rest /\ UNCHANGED <<stack, call, swap, backend, sync, cut>>
ToValidate(c, nr) == /\ Replace("validate", {"valid60", "read15"})
                     /\ swap' = [NoSwap EXCEPT !.old = c, !.nr = nr]
FillTick == /\ "fill60" \in timers /\ DoorState(swap.old) = "closed"
            /\ ToValidate(swap.old, swap.nr)
            /\ Quiet /\ Rest /\ UNCHANGED <<backend, sync, cut>>
FillEnd == /\ "fill60" \in timers /\ Logout /\ Quiet /\ Rest

(* The old pack is read, a new cabinet asked for, the vehicle's serial written
   in its pack, the exchange confirmed. *)
GiveBack(n) == OpenDoor(swap.old, n)
\* (variant: without the 60 s timer of the error screen)
ToErrorSilent(n) ==
  LET read == Serial(swap.old) # None IN
  /\ stack' = Append(Front(stack), "error") /\ call' = "none"
  /\ timers' = (timers \ (Cancelled(Top) \cup {"read15"})) \cup (IF read THEN {"give5"} ELSE {})
  /\ swap' = [NoSwap EXCEPT !.old = swap.old, !.nr = swap.nr]
  /\ IF read THEN odd >= n /\ odd' = odd - n /\ UNCHANGED door ELSE GiveBack(n)
  /\ UNCHANGED <<events, writes>>
\* checkSOC: a pack that can be read is shown first, then the door is opened
ToError(n) ==
  LET read == Serial(swap.old) # None IN
  /\ stack' = Append(Front(stack), "error") /\ call' = "none"
  /\ timers' = (timers \ (Cancelled(Top) \cup {"read15"}))
               \cup {"idle60"} \cup (IF read THEN {"give5"} ELSE {})
  /\ swap' = [NoSwap EXCEPT !.old = swap.old, !.nr = swap.nr]
  /\ IF read THEN odd >= n /\ odd' = odd - n /\ UNCHANGED door ELSE GiveBack(n)
  /\ UNCHANGED <<events, writes>>
\* a confirm whose answer nobody waits for: the backend may have it or not
CutConfirm == IF call = "confirm"
              THEN cut' = TRUE /\ backend' \in {backend, "confirmed"}
              ELSE UNCHANGED <<cut, backend>>
ReadTick == LET s == Serial(swap.old) IN
            /\ "read15" \in timers /\ s # None /\ connected = swap.old
            /\ timers' = timers \ {"read15"} /\ call' = "new"
            /\ swap' = [swap EXCEPT !.serial = s]
            /\ Quiet /\ Rest /\ UNCHANGED <<stack, backend, sync, cut>>
ReadEnd == /\ "read15" \in timers /\ Polled /\ ToError(0)
           /\ Rest /\ UNCHANGED <<backend, sync, cut>>
ValidateEnd == /\ "valid60" \in timers /\ "read15" \notin timers
               /\ ToError(0) /\ CutConfirm /\ Rest /\ UNCHANGED sync
NewFound == /\ call = "new" /\ Polled
            /\ \E n \in {c \in Cabs : c # swap.old /\ pack[c] # None} :
                 /\ swap' = [swap EXCEPT !.new = n]
                 /\ Assign(n, "vehicle", events)
            /\ call' = "none"
            /\ Rest /\ UNCHANGED <<stack, timers, backend, sync, cut, door, odd>>
NewRefused == /\ call = "new" /\ ToError(1) /\ Rest
              /\ UNCHANGED <<backend, sync, cut>>
\* the confirm is answered (variant: the 60 s timer of the validation goes on)
ConfirmedKeeps == /\ call = "confirm" /\ Polled
                  /\ backend' = "confirmed" /\ stack' = Append(Front(stack), "open")
                  /\ timers' = timers \cup {"open3"} /\ call' = "none" /\ OpenDoor(swap.new, 0)
                  /\ Assign(swap.old, "bss", events)
                  /\ swap' = [swap EXCEPT !.serial = None, !.asked = FALSE]
                  /\ Rest /\ UNCHANGED <<sync, cut>>
Confirmed == /\ call = "confirm" /\ Polled
             /\ backend' = "confirmed"
             /\ Replace("open", {"open3"}) /\ OpenDoor(swap.new, 0)
             /\ Assign(swap.old, "bss", events)
             /\ swap' = [swap EXCEPT !.serial = None, !.asked = FALSE]
             /\ Rest /\ UNCHANGED <<sync, cut>>
NotConfirmed == /\ call = "confirm" /\ ToError(1)
                /\ CutConfirm \/ UNCHANGED <<cut, backend>>
                /\ Rest /\ UNCHANGED sync

(* The error screen: the old pack is given back, tried again or left. *)
GiveTick == /\ "give5" \in timers /\ timers' = timers \ {"give5"} /\ GiveBack(0)
            /\ Rest /\ UNCHANGED <<stack, call, swap, backend, sync, cut, events, writes>>
RetryClick == /\ Top = "error" /\ Polled /\ Odd /\ DoorState(swap.old) = "closed"
              /\ ToValidate(swap.old, swap.nr)
              /\ Rest /\ UNCHANGED <<backend, sync, cut, door, events, writes>>
OpenClick == /\ Top = "error" /\ Polled /\ GiveBack(1)
             /\ Rest /\ UNCHANGED <<stack, timers, call, swap, backend, sync, cut, events, writes>>
BackClick == /\ Top = "error" /\ Polled /\ GiveBack(0) /\ Pop
             /\ sync' = TRUE /\ swap' = NoSwap /\ backend' = "none" /\ cut' = FALSE
             /\ Rest /\ UNCHANGED <<events, writes>>
IdleEnd == /\ "idle60" \in timers /\ "give5" \notin timers /\ Logout /\ Quiet /\ Rest

(* The new cabinet is opened: three looks at its door, then the result. *)
OpenLook == /\ "open3" \in timers /\ Polled
            /\ IF DoorState(swap.new) = "closed" /\ swap.tries < 3
               THEN swap' = [swap EXCEPT !.tries = @ + 1] /\ UNCHANGED timers
               ELSE timers' = (timers \ {"open3"}) \cup {"leave5"} /\ UNCHANGED swap
            /\ Quiet /\ Rest /\ UNCHANGED <<stack, call, backend, sync, cut>>
ToResult == /\ "leave5" \in timers /\ Answered
            /\ stack' = Append(Front(stack), "result") /\ call' = "none"
            /\ timers' = (timers \ {"leave5"}) \cup {"settle3"}
            /\ swap' = [swap EXCEPT !.tries = 0]
            /\ Quiet /\ Rest /\ UNCHANGED <<backend, sync, cut>>

(* The result: another pack in the new cabinet starts the next transaction. *)
Settle == /\ "settle3" \in timers
          /\ timers' = (timers \ {"settle3"}) \cup {"result120"}
          /\ Quiet /\ Rest /\ UNCHANGED <<stack, call, swap, backend, sync, cut>>
AskNext(go) == /\ swap.nr < SwapMax /\ call' = "next"
               /\ timers' = timers \ {"result120"}
               /\ swap' = [swap EXCEPT !.go = go]
               /\ Rest /\ UNCHANGED <<stack, backend, sync, cut, door, events, writes>>
ResultTick == /\ "result120" \in timers /\ Serial(swap.new) # None
              /\ connected = swap.new /\ AskNext(FALSE) /\ Normal
ContinueClick == /\ "result120" \in timers /\ Polled /\ DoorState(swap.new) = "closed"
                 /\ AskNext(TRUE) /\ Odd
ResultEnd == /\ "result120" \in timers /\ Logout /\ Quiet /\ Rest
NextFound == /\ call = "next" /\ Polled
             /\ backend' = "open" /\ cut' = FALSE
             /\ IF swap.go /\ Serial(swap.new) = None
                THEN /\ swap' = [NoSwap EXCEPT !.old = swap.new, !.nr = swap.nr + 1]
                     /\ Replace("empty", {"open10"}) /\ OpenDoor(swap.new, 0)
                ELSE /\ ToValidate(swap.new, swap.nr + 1) /\ UNCHANGED door /\ Normal
             /\ Rest /\ UNCHANGED <<sync, events, writes>>
NextRefused == /\ call = "next" /\ OpenDoor(swap.new, 1)
               /\ call' = "none" /\ timers' = timers \cup {"result120"}
               /\ Rest /\ UNCHANGED <<stack, swap, backend, sync, cut, events, writes>>

(* The station: polls, packs read and lost, writes answered, one event at a time. *)
Notify(k, c, ok) == /\ Len(events) < EventMax
                    /\ events' = Append(events, [kind |-> k, cab |-> c, ok |-> ok])
\* a door that moved resets its pack (variant: the pack is not reset)
PollKeeps(c) == /\ seen[c] # door[c]
                /\ seen' = [seen EXCEPT ![c] = door[c]] /\ UNCHANGED shown
                /\ Notify("door", c, door[c] = "open")
                /\ UNCHANGED <<ui, app, world, writes, odd, remote>>
Poll(c) == /\ seen[c] # door[c]
           /\ seen' = [seen EXCEPT ![c] = door[c]] /\ shown' = [shown EXCEPT ![c] = None]
           /\ Notify("door", c, door[c] = "open")
           /\ UNCHANGED <<ui, app, world, writes, odd, remote>>
Connect(c) == /\ seen[c] = "closed" /\ shown[c] = None /\ pack[c] # None
              /\ shown' = [shown EXCEPT ![c] = pack[c]] /\ Notify("connected", c, TRUE)
              /\ UNCHANGED <<ui, app, world, seen, writes, odd, remote>>
Lose(c) == /\ shown[c] # None /\ Alone /\ shown' = [shown EXCEPT ![c] = None]
           /\ UNCHANGED <<ui, app, world, seen, events, writes, remote>>
Written == /\ writes # <<>>
           /\ LET w == Head(writes) IN
              \E ok \in {shown[w.cab] # None, FALSE} :
                /\ owner' = IF ok THEN [owner EXCEPT ![shown[w.cab]] = w.to] ELSE owner
                /\ Notify("assigned", w.cab, ok)
           /\ writes' = Tail(writes)
           /\ UNCHANGED <<ui, app, door, pack, hand, seen, shown, odd, remote>>
Confirm == call' = (IF swap.asked THEN call ELSE "confirm")   \* once only
\* (variant: a write that failed is not tried again)
AssignedOnce(e) ==
  IF Top # "validate" \/ swap.new # e.cab
  THEN UNCHANGED <<swap, call, writes>> /\ events' = Tail(events)
  ELSE /\ swap' = [swap EXCEPT !.asked = TRUE]
       /\ Confirm
       /\ UNCHANGED writes /\ events' = Tail(events)
\* onMessageEvent of the validation: write again up to three times, then go on
Assigned(e) ==
  IF Top # "validate" \/ swap.new # e.cab
  THEN UNCHANGED <<swap, call, writes>> /\ events' = Tail(events)
  ELSE IF ~e.ok /\ swap.fails < 3
  THEN /\ swap' = [swap EXCEPT !.fails = @ + 1] /\ UNCHANGED call
       /\ Assign(e.cab, "vehicle", Tail(events))
  ELSE /\ swap' = [swap EXCEPT !.fails = 0, !.asked = TRUE]
       /\ Confirm
       /\ UNCHANGED writes /\ events' = Tail(events)
\* callBackBssFromJNI, with the event that processBssFromJNY takes from the queue
Taken == Head(events)
Dispatch ==
  /\ events # <<>>
  /\ LET e == Taken IN
     /\ doorEvent' = IF e.kind # "door" THEN doorEvent ELSE IF e.ok THEN e.cab ELSE None
     /\ connected' = IF e.kind = "connected" THEN e.cab ELSE connected
     /\ IF e.kind = "assigned" THEN Assigned(e)
        ELSE UNCHANGED <<swap, call, writes>> /\ events' = Tail(events)
  /\ UNCHANGED <<stack, timers, backend, sync, cut, world, seen, shown, odd, remote>>

(* The world: a door opened by MQTT, and the person at the station. *)
RemoteOpen(c) == /\ Alone /\ door' = [door EXCEPT ![c] = "open"] /\ remote' = TRUE
                 /\ UNCHANGED <<ui, app, pack, hand, owner, station>>
\* A restart asked for by MQTT is refused but on the standby screen, unless it is forced;
\* the dashboard cannot force it; the station that reports no cabinet at all ten times
\* restarts itself, whenever it reports.
RestartAsked(forced) == forced \/ Top = "standby"
DashboardAsked == Top = "standby"
CabinetsLost == sync
Restart == /\ \/ \E forced \in BOOLEAN : RestartAsked(forced)
              \/ DashboardAsked
              \/ CabinetsLost
           /\ Alone /\ Started /\ UNCHANGED <<world, remote>>
PutIn(c) == /\ door[c] = "open" /\ Polled /\ pack[c] = None
            /\ \E p \in hand : /\ pack' = [pack EXCEPT ![c] = p] /\ hand' = hand \ {p}
            /\ UNCHANGED <<ui, app, door, owner, station, odd, remote>>
TakeOut(c) == /\ door[c] = "open" /\ Polled /\ pack[c] # None
              /\ pack' = [pack EXCEPT ![c] = None] /\ hand' = hand \cup {pack[c]}
              /\ UNCHANGED <<ui, app, door, owner, station, odd, remote>>
CloseDoor(c) == /\ door[c] = "open" /\ Polled
                /\ door' = [door EXCEPT ![c] = "closed"]
                /\ UNCHANGED <<ui, app, pack, hand, owner, station, odd, remote>>

Screens == \/ BannerTap \/ StatusTaps \/ OtherLogin \/ LoginBack \/ QrConfirmed \/ AccountLogin \/ NoAction \/ StartClick
           \/ MainLogout \/ RetryClick \/ OpenClick \/ BackClick \/ ContinueClick
TimerFires == \/ WaitOpen \/ FillTick \/ FillEnd \/ ReadTick \/ ReadEnd \/ ValidateEnd
              \/ GiveTick \/ IdleEnd \/ OpenLook \/ ToResult \/ Settle \/ ResultTick
              \/ ResultEnd
Answer == \/ EmptyFound \/ EmptyRefused \/ NewFound \/ NewRefused \/ Confirmed
          \/ NotConfirmed \/ NextFound \/ NextRefused
Polls == \E c \in Cabs : Poll(c)
Next == \/ Screens \/ TimerFires \/ Answer \/ Polls \/ Written \/ Dispatch \/ Restart
        \/ \E c \in Cabs : \/ Connect(c) \/ Lose(c) \/ RemoteOpen(c)
                           \/ PutIn(c) \/ TakeOut(c) \/ CloseDoor(c)
Spec == Init /\ [][Next]_vars
FairSpec == /\ Spec /\ WF_vars(TimerFires) /\ WF_vars(Answer) /\ WF_vars(Polls)
            /\ WF_vars(Written) /\ WF_vars(Dispatch)
-----------------------------------------------------------------------------
TypeOK == /\ stack \in Seq({"qr", "account", "main"} \cup Exchange) /\ Len(stack) <= 4
          /\ timers \subseteq Timers
          /\ call \in {"none", "empty", "new", "confirm", "next"}
          /\ swap \in [old : Cabs \cup {None}, new : Cabs \cup {None},
                       serial : Packs \cup {None}, fails : 0..3, tries : 0..3,
                       asked : BOOLEAN, go : BOOLEAN, nr : 0..SwapMax]
          /\ backend \in {"none", "open", "confirmed"}
          /\ connected \in Cabs \cup {None}
          /\ doorEvent \in Cabs \cup {None}
          /\ door \in [Cabs -> {"open", "closed"}] /\ seen \in [Cabs -> {"open", "closed"}]
          /\ pack \in [Cabs -> Packs \cup {None}] /\ shown \in [Cabs -> Packs \cup {None}]
          /\ hand \subseteq Packs /\ owner \in [Packs -> {"vehicle", "bss"}]
          /\ events \in Seq(Event) /\ Len(events) <= EventMax
          /\ writes \in Seq([cab : Cabs, to : {"vehicle", "bss"}]) /\ Len(writes) <= WriteMax
          /\ odd \in 0..OddMax /\ {cut, remote, sync} \subseteq BOOLEAN

\* A count-down timer runs only while its own screen is on top.
OwnTimers == timers \ {"noAction"} \subseteq
  CASE Top = "empty" -> {"open10", "fill60"} [] Top = "validate" -> {"read15", "valid60"}
    [] Top = "error" -> {"give5", "idle60"} [] Top = "open" -> {"open3", "leave5"}
    [] Top = "result" -> {"settle3", "result120"} [] OTHER -> {}

\* During an exchange the no-action time-out cannot end the session and the station
\* is not reported (nor, for having lost its cabinets, restarted).
QuietExchange == Top \in Exchange => "noAction" \notin timers /\ ~sync

\* The new cabinet is opened only while the pack whose serial the backend was told is
\* behind the closed door of the old one, unless a door was opened remotely.
OldPackHeld == [][Top = "validate" /\ Top' = "open"
                  => \/ remote
                     \/ door[swap.old] = "closed" /\ pack[swap.old] = swap.serial]_vars

\* The old pack of a confirmed exchange is given back only when the answer to the
\* confirm was cut off, by the time-out or by the network.
GivenBackOnlyCut == [][\A c \in Cabs : door[c] = "closed" /\ door'[c] = "open"
                         /\ c = swap.old /\ backend' = "confirmed"
                       => cut' \/ remote']_vars

\* An exchange is confirmed when the pack to be taken has the vehicle's serial, or
\* after four writes of it failed.
WrittenWhenConfirmed == [][call # "confirm" /\ call' = "confirm"
                           => \/ remote \/ swap.fails = 3
                              \/ pack[swap.new] # None /\ owner[pack[swap.new]] = "vehicle"]_vars

\* Every exchange ends at the main or the standby screen, whoever walks away.
ExchangeEnds == (Top \in Exchange) ~> (Top \notin Exchange)

\* Not so (README, section 6): back on the main screen a session that nobody uses is still
\* timed out. The start of the exchange cancelled the no-action timer, and "back" on
\* the error screen does not start it again.
SessionWatched == [][Top' = "main" /\ Top \in Exchange => "noAction" \in timers']_vars
=============================================================================
