---------------------------- MODULE UpgradeProofs ----------------------------
(***************************************************************************)
(* Proofs about Upgrade, for every set of requests and slots, every number *)
(* of segments, repetitions, announcements and disturbances.               *)
(***************************************************************************)
EXTENDS Upgrade, TLAPS

BootRecord ==
  [state : SlaveStates, index : Nat, seg : Nat, waiting : BOOLEAN, repeat : Nat, due : BOOLEAN,
   out : {"idle", "request", "info", "seg"}, step : Nat,
   status : {"idle", "busy", "success", "abort"},
   what : Kinds \cup {None}, sent : Nat, got : BOOLEAN, cmd : BOOLEAN]

UpgradeTyped ==
  /\ queue \in Seq(Requests) /\ item \in [Requests -> ItemStates]
  /\ cur \in Requests \cup {None} /\ boot \in BootRecord

(* The inductive invariant.  An output that is left to send something would   *)
(* bring a slave back that has been freed.                                    *)
Silenced == boot.state = "none" => boot.out = "idle"

UpgradeInv == UpgradeTyped /\ Silenced /\ WhileUpgrading

-----------------------------------------------------------------------------
(* What the slave's and the output's operators make of a slave: its record    *)
(* stays one, and none of them frees it.                                      *)
Kept(b, c) == c \in BootRecord /\ (b.state # "none" => c.state # "none")

LEMMA KeptTwice ==
  ASSUME NEW b, NEW c, NEW d, Kept(b, c), Kept(c, d)
  PROVE  Kept(b, d)
BY DEF Kept

LEMMA StartsKept ==
  ASSUME NEW b \in BootRecord, NEW what \in Kinds
  PROVE  Kept(b, Starts(b, what)) /\ Starts(b, what).step = b.step
BY DEF Starts, BootRecord, Kept

LEMMA StepKept ==
  ASSUME NEW b \in BootRecord, NEW what \in Kinds
  PROVE  Kept(b, [Starts(b, what) EXCEPT !.step = @ + 1])
<1> DEFINE s == Starts(b, what)
<1>1. Kept(b, s)
  BY StartsKept
<1> HIDE DEF s
<1>2. Kept(s, [s EXCEPT !.step = @ + 1])
  BY <1>1 DEF Kept, BootRecord
<1> QED BY <1>1, <1>2 DEF Kept, s

LEMMA OutputSendsKept ==
  ASSUME NEW b \in BootRecord, NEW again \in BOOLEAN
  PROVE  Kept(b, OutputSends(b, again))
<1>1. b.step \in Nat /\ Kept(b, b) /\ "request" \in Kinds
  BY DEF BootRecord, Kept, Kinds
<1>2. Kept(b, SendRequest(b))
  BY <1>1, StartsKept DEF SendRequest
<1>3. ASSUME b.step < 3
      PROVE  FwKinds[b.step + 1] \in Kinds /\ SegKinds[b.step + 1] \in Kinds
  <2>1. b.step + 1 \in {1, 2, 3}
    BY <1>1, <1>3
  <2> QED BY <2>1 DEF FwKinds, SegKinds, Kinds
<1>4. CASE b.out = "request" /\ again
  BY <1>2, <1>4 DEF OutputSends
<1>5. CASE ~(b.out = "request" /\ again) /\ b.out = "info" /\ b.step < 3 /\ b.status \in {"success", "idle"}
  <2>1. OutputSends(b, again) = [Starts(b, FwKinds[b.step + 1]) EXCEPT !.step = @ + 1]
    BY <1>5 DEF OutputSends
  <2> QED BY <1>3, <1>5, <2>1, StepKept
<1>6. CASE ~(b.out = "request" /\ again) /\ b.out = "seg" /\ b.step < 3 /\ b.status = "idle"
  <2>1. OutputSends(b, again) = [Starts(b, SegKinds[b.step + 1]) EXCEPT !.step = @ + 1]
    BY <1>6 DEF OutputSends
  <2> QED BY <1>3, <1>6, <2>1, StepKept
<1>7. CASE /\ ~(b.out = "request" /\ again)
           /\ ~(b.out = "info" /\ b.step < 3 /\ b.status \in {"success", "idle"})
           /\ ~(b.out = "seg" /\ b.step < 3 /\ b.status = "idle")
  <2>1. OutputSends(b, again) = b
    BY <1>7 DEF OutputSends
  <2> QED BY <1>1, <2>1
<1> QED BY <1>4, <1>5, <1>6, <1>7

LEMMA ConfirmKept ==
  ASSUME NEW b \in BootRecord, NEW ok \in BOOLEAN
  PROVE  Kept(b, ConfirmInfo(b, ok)) /\ Kept(b, RefuseSeg(b)) /\ Kept(b, b)
<1>1. Kept(b, [b EXCEPT !.state = "finish"]) /\ Kept(b, [b EXCEPT !.due = TRUE])
  BY DEF BootRecord, SlaveStates, Kept
<1>2. Kept(b, [b EXCEPT !.waiting = FALSE]) /\ Kept(b, b)
  BY DEF BootRecord, Kept
<1> QED BY <1>1, <1>2 DEF ConfirmInfo, RefuseSeg

LEMMA RestKept ==
  ASSUME NEW b \in BootRecord
  PROVE  /\ Kept(b, [b EXCEPT !.step = 0, !.status = "idle"])
         /\ Kept(b, [b EXCEPT !.status = "idle"])
BY DEF BootRecord, Kept

LEMMA OutputAnswersKept ==
  ASSUME NEW b \in BootRecord, NEW old
  PROVE  Kept(b, OutputAnswers(b, old))
<1> DEFINE c == CASE b.out = "seg" -> RefuseSeg(b) [] b.out = "info" -> ConfirmInfo(b, FALSE) [] OTHER -> b
           i == ConfirmInfo(b, TRUE)
<1>1. Kept(b, c) /\ Kept(b, i) /\ Kept(b, b) /\ c \in BootRecord /\ i \in BootRecord
  <2>1. c \in {RefuseSeg(b), ConfirmInfo(b, FALSE), b}
    OBVIOUS
  <2> QED BY <2>1, ConfirmKept DEF Kept
<1>2. OutputAnswers(b, old) \in
        {[c EXCEPT !.step = 0, !.status = "idle"], [i EXCEPT !.step = 0, !.status = "idle"],
         [b EXCEPT !.status = "idle"], b}
  BY DEF OutputAnswers
<1> HIDE DEF c, i
<1>3. /\ Kept(c, [c EXCEPT !.step = 0, !.status = "idle"])
      /\ Kept(i, [i EXCEPT !.step = 0, !.status = "idle"])
      /\ Kept(b, [b EXCEPT !.status = "idle"])
  BY <1>1, RestKept
<1> QED BY <1>1, <1>2, <1>3, KeptTwice

LEMMA ProcessedKept ==
  ASSUME UpgradeTyped, NEW again \in BOOLEAN
  PROVE  Kept(boot, Processed(again))
<1>1. boot \in BootRecord
  BY DEF UpgradeTyped
<1>2. Kept(boot, OutputSends(boot, again))
  BY <1>1, OutputSendsKept
<1>3. Kept(OutputSends(boot, again), Processed(again))
  BY <1>2, OutputAnswersKept DEF Processed, Output, Kept
<1> QED BY <1>2, <1>3, KeptTwice

LEMMA RepeatedKept ==
  ASSUME NEW b \in BootRecord
  PROVE  Kept(b, Repeated(b))
<1>1. b.repeat + 1 \in Nat
  BY DEF BootRecord
<1>2. Kept(b, [b EXCEPT !.repeat = b.repeat + 1, !.state = "abort"])
  BY <1>1 DEF BootRecord, SlaveStates, Kept
<1>3. Kept(b, [b EXCEPT !.repeat = b.repeat + 1, !.state = b.state])
  BY <1>1 DEF BootRecord, Kept
<1> QED BY <1>2, <1>3 DEF Repeated

LEMMA TimedOutKept ==
  ASSUME NEW b \in BootRecord
  PROVE  Kept(b, TimedOut(b))
<1>1. Kept(b, [b EXCEPT !.state = "abort", !.due = FALSE]) /\ Kept(b, b)
  BY DEF BootRecord, SlaveStates, Kept
<1> QED BY <1>1 DEF TimedOut

LEMMA SetsKept ==
  ASSUME NEW b \in BootRecord
  PROVE  /\ Kept(b, RequestUpgrade(b)) /\ Kept(b, SetFwInfo(b)) /\ Kept(b, SetSegFw(b))
         /\ Kept(b, [b EXCEPT !.due = FALSE])
<1>1. Kept(b, [b EXCEPT !.out = "request"]) /\ Kept(b, [b EXCEPT !.due = FALSE])
  BY DEF BootRecord, Kept
<1>2. Kept(b, [b EXCEPT !.out = "info", !.step = 0, !.status = "idle"])
  BY DEF BootRecord, Kept
<1>3. Kept(b, [b EXCEPT !.out = "seg", !.step = 0, !.status = "idle"])
  BY DEF BootRecord, Kept
<1> QED BY <1>1, <1>2, <1>3 DEF RequestUpgrade, SetFwInfo, SetSegFw

LEMMA SlaveSwitchKept ==
  ASSUME NEW b \in BootRecord
  PROVE  Kept(b, SlaveSwitch(b))
<1> DEFINE r == Repeated(b)
           u == [r EXCEPT !.due = FALSE]
           n == [r EXCEPT !.seg = b.index + 1, !.waiting = TRUE]
<1>1. Kept(b, r) /\ r \in BootRecord /\ Kept(b, b) /\ b.index + 1 \in Nat
  BY RepeatedKept DEF Kept, BootRecord
<1>2. Kept(b, [b EXCEPT !.state = "request", !.repeat = 0]) /\ Kept(b, TimedOut(b))
  <2>1. Kept(b, [b EXCEPT !.state = "request", !.repeat = 0])
    BY DEF BootRecord, SlaveStates, Kept
  <2> QED BY <2>1, TimedOutKept
<1> HIDE DEF r
<1>3. Kept(r, u) /\ u \in BootRecord
  BY <1>1, SetsKept DEF Kept
<1>4. Kept(r, n) /\ n \in BootRecord
  BY <1>1 DEF Kept, BootRecord
<1> HIDE DEF u, n
<1>5. Kept(b, RequestUpgrade(u)) /\ Kept(b, SetFwInfo(u))
  BY <1>1, <1>3, SetsKept, KeptTwice
<1>6. Kept(b, TimedOut(SetSegFw(n)))
  <2>1. Kept(n, SetSegFw(n))
    BY <1>4, SetsKept
  <2>2. Kept(SetSegFw(n), TimedOut(SetSegFw(n)))
    BY <2>1, TimedOutKept DEF Kept
  <2> QED BY <1>1, <1>4, <2>1, <2>2, KeptTwice
<1>7. SlaveSwitch(b) \in {[b EXCEPT !.state = "request", !.repeat = 0], RequestUpgrade(u), SetFwInfo(u),
                          TimedOut(SetSegFw(n)), b, TimedOut(b)}
  BY DEF SlaveSwitch, r, u, n
<1> QED BY <1>1, <1>2, <1>5, <1>6, <1>7

LEMMA AnnouncedKept ==
  ASSUME NEW b \in BootRecord, NEW note
  PROVE  Kept(b, Announced(b, note)) /\ (b.out = "idle" => Announced(b, note) = b)
<1>1. Kept(b, ConfirmReady(b))
  BY DEF ConfirmReady, BootRecord, SlaveStates, Kept
<1>2. Kept(b, Confirmed(b))
  <2> DEFINE all == LastSegment(b.index + 1)
             state == IF all THEN "info" ELSE b.state
  <2>1. b.index + 1 \in Nat /\ state \in SlaveStates /\ (b.state # "none" => state # "none") /\ all \in BOOLEAN
    BY DEF BootRecord, SlaveStates, LastSegment
  <2>2. Confirmed(b) = [b EXCEPT !.index = b.index + 1, !.state = state, !.due = all,
                                 !.repeat = 0, !.waiting = FALSE, !.step = 0]
    BY DEF Confirmed
  <2> HIDE DEF all, state
  <2> DEFINE c == [b EXCEPT !.index = b.index + 1, !.state = state, !.due = all]
  <2>3. c \in BootRecord /\ c.state = state
    BY <2>1 DEF BootRecord
  <2> DEFINE d == [c EXCEPT !.repeat = 0, !.waiting = FALSE]
  <2>4. Confirmed(b) = [d EXCEPT !.step = 0]
    BY <2>2
  <2> HIDE DEF c
  <2>5. d \in BootRecord /\ d.state = state
    BY <2>3 DEF BootRecord
  <2> HIDE DEF d
  <2>6. [d EXCEPT !.step = 0] \in BootRecord /\ [d EXCEPT !.step = 0].state = state
    BY <2>5 DEF BootRecord
  <2> QED BY <2>1, <2>4, <2>6 DEF Kept
<1>3. Announced(b, note) \in {Confirmed(b), ConfirmReady(b), b} /\ (b.out = "idle" => Announced(b, note) = b)
  BY DEF Announced
<1>4. Kept(b, b)
  BY DEF Kept
<1> QED BY <1>1, <1>2, <1>3, <1>4

-----------------------------------------------------------------------------
(* The steps.  Nothing leads out of "dead". *)
LEMMA PartsDiffer ==
  \A part \in {"server", "client", "manager", "ota"} : Goes(part) => pc # "dead" /\ pc' # "dead"
<1> SUFFICES ASSUME NEW part \in {"server", "client", "manager", "ota"}, Goes(part)
             PROVE  pc # "dead" /\ pc' # "dead"
  OBVIOUS
<1>1. After(part) \in {"server", "client", "manager", "ota"}
  BY DEF After
<1> QED BY <1>1 DEF Goes

(* A step that only works on the slave, the output or a transfer.             *)
LEMMA BootStep ==
  ASSUME UpgradeInv, UNCHANGED <<queue, item, cur, flagged, sync>>, pc # "dead", boot' \in BootRecord,
         boot.state # "none" => boot'.state # "none",
         boot.state = "none" => boot'.state = "none" /\ boot'.out = "idle"
  PROVE  UpgradeInv'
<1> USE DEF UpgradeInv
<1>1. UpgradeTyped' /\ Silenced'
  BY DEF UpgradeTyped, Silenced
<1>2. Upgrading' <=> Upgrading
  BY DEF Upgrading
<1>3. WhileUpgrading'
  BY <1>2 DEF WhileUpgrading
<1> QED BY <1>1, <1>3

(* A field of the slave's record that is neither its state nor its output.    *)
LEMMA QuietBoot ==
  ASSUME UpgradeInv, NEW b \in BootRecord, b.state = boot.state, b.out = boot.out, boot' = b,
         UNCHANGED <<queue, item, cur, flagged, sync>>, pc # "dead"
  PROVE  UpgradeInv'
BY BootStep DEF UpgradeInv, Silenced

LEMMA ResetStep ==
  ASSUME UpgradeInv, NEW error, ResetUpgrading(error), pc # "dead"
  PROVE  UpgradeInv'
<1> USE DEF UpgradeInv
<1>1. CASE cur = None
  BY <1>1 DEF ResetUpgrading, UpgradeTyped, Silenced, WhileUpgrading
<1>2. CASE cur # None
  <2>1. /\ flagged' = flagged \ {Slot[cur]} /\ sync' = TRUE /\ boot' = NoBoot /\ cur' = None
        /\ item' = [r \in Requests |->
                      IF r = cur THEN "done"
                      ELSE IF queue # <<>> /\ r = Head(queue) THEN "online" ELSE item[r]]
        /\ queue' = queue
    BY <1>2 DEF ResetUpgrading, Unflagged, RemoveSlave
  <2>2. flagged' = {}
    BY <1>2, <2>1 DEF WhileUpgrading
  <2>3. NoBoot \in BootRecord /\ NoBoot.state = "none" /\ NoBoot.out = "idle"
    BY DEF NoBoot, BootRecord, SlaveStates
  <2>4. item' \in [Requests -> ItemStates]
    BY <2>1 DEF UpgradeTyped, ItemStates
  <2>5. UpgradeTyped' /\ Silenced'
    BY <2>1, <2>3, <2>4 DEF UpgradeTyped, Silenced
  <2>6. WhileUpgrading'
    BY <2>1, <2>2, <2>3 DEF WhileUpgrading, Upgrading
  <2> QED BY <2>5, <2>6
<1> QED BY <1>1, <1>2

LEMMA RequestStep ==
  ASSUME UpgradeInv, NEW r \in Requests, Request(r)
  PROVE  UpgradeInv'
<1> USE DEF UpgradeInv
<1>1. /\ pc # "dead" /\ item[r] = "new" /\ queue' = Append(queue, r)
      /\ item' = [item EXCEPT ![r] = "idle"] /\ UNCHANGED <<cur, flagged, sync, boot>>
  BY DEF Request
<1>2. UpgradeTyped' /\ Silenced'
  BY <1>1 DEF UpgradeTyped, ItemStates, Silenced
<1>3. Upgrading' <=> Upgrading
  <2>1. item' \in [Requests -> ItemStates] /\ item'[r] = "idle" /\ \A q \in Requests : q # r => item'[q] = item[q]
    BY <1>1, <1>2 DEF UpgradeTyped
  <2>2. CASE cur = r
    BY <1>1, <2>1, <2>2 DEF Upgrading
  <2>3. CASE cur # r
    BY <1>1, <2>1, <2>3 DEF Upgrading, UpgradeTyped
  <2> QED BY <2>2, <2>3
<1>4. WhileUpgrading'
  BY <1>1, <1>3 DEF WhileUpgrading
<1> QED BY <1>2, <1>4

LEMMA HeadTimeoutStep ==
  ASSUME UpgradeInv, HeadTimeout
  PROVE  UpgradeInv'
<1> USE DEF UpgradeInv
<1>1. /\ pc # "dead" /\ cur = None /\ queue # <<>> /\ queue' = Tail(queue)
      /\ item' = [item EXCEPT ![Head(queue)] = "done"] /\ UNCHANGED <<cur, flagged, sync, boot>>
  BY PartsDiffer DEF HeadTimeout, HeadWaits
<1>2. Head(queue) \in Requests /\ Tail(queue) \in Seq(Requests)
  BY <1>1 DEF UpgradeTyped
<1>3. UpgradeTyped' /\ Silenced'
  BY <1>1, <1>2 DEF UpgradeTyped, ItemStates, Silenced
<1>4. WhileUpgrading'
  BY <1>1 DEF WhileUpgrading, Upgrading
<1> QED BY <1>3, <1>4

LEMMA HeadStartsStep ==
  ASSUME UpgradeInv, HeadStarts
  PROVE  UpgradeInv'
<1> USE DEF UpgradeInv
<1> DEFINE h == Head(queue)
<1>1. /\ pc # "dead" /\ cur = None /\ queue # <<>> /\ queue' = Tail(queue) /\ cur' = h
      /\ item' = [item EXCEPT ![h] = "reboot"] /\ flagged' = flagged \cup {Slot[h]}
      /\ UNCHANGED <<sync, boot>>
  BY PartsDiffer DEF HeadStarts, HeadWaits
<1>2. h \in Requests /\ Tail(queue) \in Seq(Requests)
  BY <1>1 DEF UpgradeTyped
<1> HIDE DEF h
<1>3. h # None
  BY <1>2, UpgradeAssumption
<1>4. UpgradeTyped' /\ Silenced'
  BY <1>1, <1>2 DEF UpgradeTyped, ItemStates, Silenced
<1>5. item'[h] = "reboot"
  BY <1>1, <1>2 DEF UpgradeTyped
<1>6. WhileUpgrading'
  BY <1>1, <1>3, <1>5 DEF WhileUpgrading, Upgrading
<1> QED BY <1>4, <1>6

LEMMA RebootSucceedsStep ==
  ASSUME UpgradeInv, RebootSucceeds
  PROVE  UpgradeInv'
<1> USE DEF UpgradeInv
<1>1. CASE cur = None
  BY <1>1 DEF RebootSucceeds, UpgradeTyped, Silenced, WhileUpgrading
<1>2. CASE cur # None
  <2> DEFINE b == AddSlave(boot)
  <2>1. /\ pc # "dead" /\ item' = [item EXCEPT ![cur] = "upgrading"] /\ sync' = FALSE /\ boot' = b
        /\ UNCHANGED <<queue, cur, flagged>>
    BY <1>2 DEF RebootSucceeds, StartUpgrading
  <2>2. b \in BootRecord /\ b.state # "none"
    <3>1. \A c \in BootRecord : NewOutput(c) \in BootRecord /\ NewOutput(c).state = c.state
      BY DEF NewOutput, BootRecord
    <3>2. [NoBoot EXCEPT !.state = "idle"] \in BootRecord /\ [NoBoot EXCEPT !.state = "idle"].state = "idle"
      BY DEF NoBoot, BootRecord, SlaveStates
    <3>3. boot \in BootRecord
      BY DEF UpgradeTyped
    <3> QED BY <3>1, <3>2, <3>3 DEF AddSlave
  <2> HIDE DEF b
  <2>3. cur \in Requests
    BY <1>2 DEF UpgradeTyped
  <2>4. item'[cur] = "upgrading"
    BY <2>1, <2>3 DEF UpgradeTyped
  <2>5. UpgradeTyped' /\ Silenced'
    BY <2>1, <2>2 DEF UpgradeTyped, ItemStates, Silenced
  <2>6. WhileUpgrading'
    BY <1>2, <2>1, <2>2, <2>4 DEF WhileUpgrading, Upgrading
  <2> QED BY <2>5, <2>6
<1> QED BY <1>1, <1>2

LEMMA ManagerStep ==
  ASSUME UpgradeInv, ManagerDispatches \/ ManagerTimeout
  PROVE  UpgradeInv'
<1> USE DEF UpgradeInv
<1>1. pc # "dead" /\ UNCHANGED <<queue, item, cur, flagged, sync>> /\ boot \in BootRecord
  BY PartsDiffer DEF ManagerDispatches, ManagerTimeout, ota, UpgradeTyped
<1>2. CASE ManagerDispatches
  <2> DEFINE b == Starts(boot, "cmd")
  <2>1. b \in BootRecord /\ b.state = boot.state /\ b.out = boot.out
    BY <1>1 DEF Starts, BootRecord, Kinds
  <2> HIDE DEF b
  <2>2. boot' = [b EXCEPT !.cmd = TRUE]
    BY <1>2 DEF ManagerDispatches, b
  <2>3. boot' \in BootRecord /\ boot'.state = boot.state /\ boot'.out = boot.out
    BY <2>1, <2>2 DEF BootRecord
  <2> QED BY <1>1, <2>3, QuietBoot
<1>3. CASE ManagerTimeout
  <2>1. boot' = [boot EXCEPT !.cmd = FALSE, !.status = "idle"]
    BY <1>3 DEF ManagerTimeout
  <2>2. boot' \in BootRecord /\ boot'.state = boot.state /\ boot'.out = boot.out
    BY <1>1, <2>1 DEF BootRecord
  <2> QED BY <1>1, <2>2, QuietBoot
<1> QED BY <1>2, <1>3

LEMMA SlaveProcessStep ==
  ASSUME UpgradeInv, SlaveProcess
  PROVE  UpgradeInv'
<1> USE DEF UpgradeInv
<1>1. PICK again \in BOOLEAN : boot' = Composed(SlaveSwitch(Processed(again)))
  BY DEF SlaveProcess
<1>2. /\ pc # "dead" /\ UNCHANGED <<queue, item, cur, flagged, sync>> /\ boot.state # "none"
  BY PartsDiffer DEF SlaveProcess, SlaveRuns, ota
<1> DEFINE p == Processed(again)
           s == SlaveSwitch(p)
<1>3. Kept(boot, p)
  BY ProcessedKept
<1> HIDE DEF p
<1>4. Kept(p, s)
  BY <1>3, SlaveSwitchKept DEF Kept
<1> HIDE DEF s
<1>5. Kept(s, Composed(s))
  <2>1. s \in BootRecord /\ s.seg \in Nat
    BY <1>4 DEF Kept, BootRecord
  <2> QED BY <2>1 DEF Composed, Kept, BootRecord
<1>6. boot' = Composed(s)
  BY <1>1 DEF s, p
<1> QED BY <1>2, <1>3, <1>4, <1>5, <1>6, BootStep DEF Kept

LEMMA TransferStep ==
  ASSUME UpgradeInv, TimerExpires \/ ServerTakes \/ ClientEnds \/ PackTakes
  PROVE  UpgradeInv'
<1> USE DEF UpgradeInv
<1>1. pc # "dead" /\ UNCHANGED <<queue, item, cur, flagged, sync>> /\ boot \in BootRecord
  BY PartsDiffer DEF TimerExpires, ServerTakes, ClientEnds, PackTakes, ota, UpgradeTyped
<1>2. CASE TimerExpires
  <2>1. boot' \in BootRecord /\ boot'.state = boot.state /\ boot'.out = boot.out
    BY <1>1, <1>2 DEF TimerExpires, BootRecord
  <2> QED BY <1>1, <2>1, QuietBoot
<1>3. CASE ServerTakes
  <2>1. boot' = Announced(boot, Head(notes))
    BY <1>3 DEF ServerTakes
  <2>2. boot' \in BootRecord /\ (boot.state # "none" => boot'.state # "none")
    BY <1>1, <2>1, AnnouncedKept DEF Kept
  <2>3. boot.state = "none" => boot' = boot /\ boot.out = "idle"
    BY <1>1, <2>1, AnnouncedKept DEF Silenced
  <2> QED BY <1>1, <2>2, <2>3, BootStep
<1>4. CASE ClientEnds
  <2>1. PICK status \in {"success", "abort"} :
          boot' = [boot EXCEPT !.status = status, !.what = None, !.got = FALSE]
    BY <1>4 DEF ClientEnds
  <2>2. boot' \in BootRecord /\ boot'.state = boot.state /\ boot'.out = boot.out
    BY <1>1, <2>1 DEF BootRecord
  <2> QED BY <1>1, <2>2, QuietBoot
<1>5. CASE PackTakes
  <2>1. boot' \in BootRecord /\ boot'.state = boot.state /\ boot'.out = boot.out
    BY <1>1, <1>5 DEF PackTakes, BootRecord
  <2> QED BY <1>1, <2>1, QuietBoot
<1> QED BY <1>2, <1>3, <1>4, <1>5

LEMMA RestsStep ==
  ASSUME UpgradeInv, OtaRests \/ ManagerRests \/ ServerRests \/ ClientRests
  PROVE  UpgradeInv'
<1>1. pc # "dead" /\ boot' = boot /\ UNCHANGED <<queue, item, cur, flagged, sync>> /\ boot \in BootRecord
  BY PartsDiffer DEF OtaRests, ManagerRests, ServerRests, ClientRests, ota, UpgradeInv, UpgradeTyped
<1> QED BY <1>1, QuietBoot

-----------------------------------------------------------------------------
LEMMA UpgradeInit == Init => UpgradeInv
<1> SUFFICES ASSUME Init PROVE UpgradeInv
  OBVIOUS
<1>1. boot \in BootRecord /\ boot.state = "none" /\ boot.out = "idle"
  BY DEF Init, NoBoot, BootRecord, SlaveStates
<1>2. UpgradeTyped
  BY <1>1 DEF Init, UpgradeTyped, ItemStates
<1> QED BY <1>1, <1>2 DEF Init, UpgradeInv, Silenced, WhileUpgrading, Upgrading

LEMMA UpgradeNext == UpgradeInv /\ [Next]_vars => UpgradeInv'
<1> SUFFICES ASSUME UpgradeInv, [Next]_vars PROVE UpgradeInv'
  OBVIOUS
<1>1. CASE \E r \in Requests : Request(r)
  BY <1>1, RequestStep
<1>2. CASE HeadTimeout \/ HeadStarts \/ RebootSucceeds
  BY <1>2, HeadTimeoutStep, HeadStartsStep, RebootSucceedsStep
<1>3. CASE RebootTimeout \/ RebootFails \/ SlaveFinishes \/ SlaveAborts
  BY <1>3, ResetStep DEF RebootTimeout, RebootFails, SlaveFinishes, SlaveAborts
<1>4. CASE ManagerDispatches \/ ManagerTimeout \/ SlaveProcess
  BY <1>4, ManagerStep, SlaveProcessStep
<1>5. CASE TimerExpires \/ ServerTakes \/ ClientEnds \/ PackTakes
  BY <1>5, TransferStep
<1>6. CASE OtaRests \/ ManagerRests \/ ServerRests \/ ClientRests
  BY <1>6, RestsStep
<1>7. CASE UNCHANGED vars
  BY <1>7 DEF vars, ota, UpgradeInv, UpgradeTyped, Silenced, WhileUpgrading, Upgrading
<1> QED BY <1>1, <1>2, <1>3, <1>4, <1>5, <1>6, <1>7 DEF Next

(* However many requests there are, whichever of the four ways leads out of   *)
(* an upgrade and whatever is lost or repeated: the cabinet manager spares    *)
(* the slot being upgraded and no other, SYNC is off exactly while firmware   *)
(* is sent, and a boot slave lives as long.                                   *)
THEOREM AlwaysWhileUpgrading == Spec => []WhileUpgrading
<1>1. UpgradeInv => WhileUpgrading
  BY DEF UpgradeInv
<1> QED BY <1>1, UpgradeInit, UpgradeNext, PTL DEF Spec

-----------------------------------------------------------------------------
(* A success and what the pack has stored.  The inductive invariant says how  *)
(* far an undisturbed upgrade is: what the slave, the client, the pack and an *)
(* announcement under way hold of the one segment being sent.                 *)

(* What is under way with the index-th segment, while nothing has disturbed   *)
(* the upgrade.  The slave first has the pack made ready ...                  *)
Asking(b) ==
  /\ b.out \in {"idle", "request"} /\ b.state \in {"idle", "request", "seg", "abort"}
  /\ b.index = 0 /\ b.what \in {None, "request"}

(* ... then sends segments, of which the one after the index is loaded ...    *)
Sending(b) ==
  /\ b.out = "seg" /\ b.state \in {"seg", "abort"} /\ b.index < Segments /\ b.step <= 3
  /\ IF b.waiting THEN b.seg = b.index + 1 ELSE b.step = 0

(* ... and then the firmware's information, at once.                          *)
Telling(b) ==
  /\ b.index = Segments
  /\ \/ b.out = "seg" /\ b.state = "info" /\ b.due /\ ~b.waiting /\ b.step = 0
     \/ b.out = "info" /\ b.state \in {"info", "abort"}

(* A CRC on its way to the pack is that of the segment loaded ...             *)
CrcSent(b) == b.what = "crc" /\ ~b.got
CrcOfSegment(b) ==
  CrcSent(b) => Sending(b) /\ b.waiting /\ b.step = 3 /\ b.sent = b.index + 1 /\ b.status = "busy"

(* ... and so is the one announcement that may be on its way back: the pack   *)
(* has stored it, and nothing will be sent before it arrives.                 *)
Loading(ns) == {i \in 1..Len(ns) : ns[i] = "loading"}
Once(ns) == \A i, j \in Loading(ns) : i = j
Announces(b, ns, stored) ==
  Loading(ns) # {} =>
    /\ Sending(b) /\ b.waiting /\ b.step = 3 /\ b.index + 1 \in stored
    /\ b.what \in {None, "crc"} /\ ~CrcSent(b) /\ b.status # "abort" /\ Once(ns)

Segment(b, ns, stored) ==
  /\ Asking(b) \/ Sending(b) \/ Telling(b)
  /\ ~b.cmd /\ b.what # "cmd"
  /\ CrcOfSegment(b) /\ Announces(b, ns, stored)
  /\ 1..b.index \subseteq stored /\ stored \subseteq 1..Segments
  /\ b.out = "seg" => FileRead

Undisturbed == dups = 0 /\ lost = 0 /\ cmds = 0

StoreInv ==
  /\ dups \in Nat /\ lost \in Nat /\ cmds \in Nat /\ notes \in Seq({"ready", "loading"})
  /\ Upgrading => ~reboot /\ (Undisturbed => Segment(boot, notes, pack.stored))

-----------------------------------------------------------------------------
(* What the fields of the slave become. *)
Beside(b, c) == c.index = b.index /\ c.seg = b.seg /\ c.out = b.out /\ c.cmd = b.cmd
Carried(b, c) == c.what = b.what /\ c.sent = b.sent /\ c.got = b.got
Slaved(b, c) == c.state = b.state /\ c.waiting = b.waiting /\ c.due = b.due

LEMMA StartsFields ==
  ASSUME NEW b \in BootRecord, NEW what, NEW s, s = Starts(b, what)
  PROVE  /\ Beside(b, s) /\ Slaved(b, s) /\ s.step = b.step
         /\ s.what = what /\ s.sent = 0 /\ ~s.got /\ s.status = "busy"
BY DEF Starts, BootRecord, Beside, Slaved

SentNext(b, what, t) ==
  /\ Beside(b, t) /\ Slaved(b, t) /\ t.step = b.step + 1
  /\ t.what = what /\ t.sent = 0 /\ ~t.got /\ t.status = "busy"

LEMMA StepFields ==
  ASSUME NEW b \in BootRecord, NEW what \in Kinds
  PROVE  SentNext(b, what, [Starts(b, what) EXCEPT !.step = @ + 1])
<1> PICK t : t = [Starts(b, what) EXCEPT !.step = @ + 1]
  OBVIOUS
<1> SUFFICES SentNext(b, what, t)
  OBVIOUS
<1> PICK s : s = Starts(b, what)
  OBVIOUS
<1>1. s \in BootRecord
  BY StartsKept DEF Kept
<1>2. /\ Beside(b, s) /\ Slaved(b, s) /\ s.step = b.step
      /\ s.what = what /\ s.sent = 0 /\ ~s.got /\ s.status = "busy"
  BY StartsFields
<1>3. t = [s EXCEPT !.step = s.step + 1]
  OBVIOUS
<1>4. Beside(s, t) /\ Slaved(s, t) /\ t.step = s.step + 1 /\ Carried(s, t) /\ t.status = s.status
  BY <1>1, <1>3 DEF BootRecord, Beside, Slaved, Carried
<1> QED BY <1>2, <1>4 DEF SentNext, Beside, Slaved, Carried

(* What an output sends next, if it sends. *)
Sends(b, s) ==
  /\ s \in BootRecord /\ Beside(b, s) /\ Slaved(b, s)
  /\ \/ s = b
     \/ b.out = "request" /\ s.what = "request"
     \/ b.out = "info" /\ s.what \in InfoKinds
     \/ /\ b.out = "seg" /\ b.status = "idle" /\ b.step < 3 /\ s.step = b.step + 1
        /\ s.what = SegKinds[b.step + 1] /\ s.sent = 0 /\ ~s.got /\ s.status = "busy"

LEMMA SendsFields ==
  ASSUME NEW b \in BootRecord, NEW again \in BOOLEAN
  PROVE  Sends(b, OutputSends(b, again))
<1> PICK s : s = OutputSends(b, again)
  OBVIOUS
<1> SUFFICES Sends(b, s)
  OBVIOUS
<1>1. s \in BootRecord /\ b.step \in Nat
  BY OutputSendsKept DEF Kept, BootRecord
<1>2. ASSUME b.step < 3
      PROVE  FwKinds[b.step + 1] \in InfoKinds \cap Kinds /\ SegKinds[b.step + 1] \in Kinds
  <2>1. b.step + 1 \in {1, 2, 3}
    BY <1>1, <1>2
  <2> QED BY <2>1 DEF FwKinds, SegKinds, Kinds, InfoKinds
<1>3. CASE b.out = "request" /\ again
  <2>1. s = b \/ s = Starts(b, "request")
    BY <1>3 DEF OutputSends, SendRequest
  <2>2. CASE s = b
    BY <1>1, <2>2 DEF Sends, Beside, Slaved
  <2>3. CASE s = Starts(b, "request")
    <3>1. Beside(b, s) /\ Slaved(b, s) /\ s.what = "request"
      BY <2>3, StartsFields
    <3> QED BY <1>1, <1>3, <3>1 DEF Sends
  <2> QED BY <2>1, <2>2, <2>3
<1>4. CASE ~(b.out = "request" /\ again) /\ b.out = "info" /\ b.step < 3 /\ b.status \in {"success", "idle"}
  <2>2. PICK w \in Kinds : w = FwKinds[b.step + 1]
    BY <1>2, <1>4
  <2>1. s = [Starts(b, w) EXCEPT !.step = @ + 1]
    BY <1>4, <2>2 DEF OutputSends
  <2>3. SentNext(b, w, s)
    BY <2>1, <2>2, StepFields
  <2> QED BY <1>1, <1>2, <1>4, <2>2, <2>3 DEF Sends, SentNext
<1>5. CASE ~(b.out = "request" /\ again) /\ b.out = "seg" /\ b.step < 3 /\ b.status = "idle"
  <2>2. PICK w \in Kinds : w = SegKinds[b.step + 1]
    BY <1>2, <1>5
  <2>1. s = [Starts(b, w) EXCEPT !.step = @ + 1]
    BY <1>5, <2>2 DEF OutputSends
  <2>3. SentNext(b, w, s)
    BY <2>1, <2>2, StepFields
  <2> QED BY <1>1, <1>2, <1>5, <2>2, <2>3 DEF Sends, SentNext
<1>6. CASE /\ ~(b.out = "request" /\ again)
           /\ ~(b.out = "info" /\ b.step < 3 /\ b.status \in {"success", "idle"})
           /\ ~(b.out = "seg" /\ b.step < 3 /\ b.status = "idle")
  <2>1. s = b
    BY <1>6 DEF OutputSends
  <2> QED BY <1>1, <2>1 DEF Sends, Beside, Slaved
<1> QED BY <1>3, <1>4, <1>5, <1>6

(* What the status it read first makes of a slave and its output. *)
Answered(s, old, a) ==
  /\ a \in BootRecord /\ Beside(s, a) /\ Carried(s, a)
  /\ \/ old \notin {"abort", "success"} /\ a = s
     \/ /\ old = "abort" /\ a.step = 0 /\ a.status = "idle" /\ a.state = s.state
        /\ a.waiting = (IF s.out = "seg" THEN FALSE ELSE s.waiting) /\ (s.out # "info" => a.due = s.due)
     \/ old = "success" /\ a.step = s.step /\ a.status = "idle" /\ Slaved(s, a)
     \/ old = "success" /\ s.out = "info" /\ a.state = "finish"

LEMMA RestFields ==
  ASSUME NEW b \in BootRecord
  PROVE  LET z == [b EXCEPT !.step = 0, !.status = "idle"]
             i == [b EXCEPT !.status = "idle"]
         IN  /\ Beside(b, z) /\ Carried(b, z) /\ Slaved(b, z) /\ z.step = 0 /\ z.status = "idle"
             /\ Beside(b, i) /\ Carried(b, i) /\ Slaved(b, i) /\ i.step = b.step /\ i.status = "idle"
BY DEF BootRecord, Beside, Carried, Slaved

LEMMA AnswersFields ==
  ASSUME NEW s \in BootRecord, NEW old
  PROVE  Answered(s, old, OutputAnswers(s, old))
<1> PICK a : a = OutputAnswers(s, old)
  OBVIOUS
<1> SUFFICES Answered(s, old, a)
  OBVIOUS
<1>1. a \in BootRecord
  BY OutputAnswersKept DEF Kept
<1>2. CASE old = "abort"
  <2> PICK c : c = CASE s.out = "seg" -> RefuseSeg(s) [] s.out = "info" -> ConfirmInfo(s, FALSE) [] OTHER -> s
    OBVIOUS
  <2>1. a = [c EXCEPT !.step = 0, !.status = "idle"]
    BY <1>2 DEF OutputAnswers
  <2>2. c \in BootRecord
    BY ConfirmKept DEF Kept
  <2>3. /\ Beside(s, c) /\ Carried(s, c) /\ c.state = s.state
        /\ c.waiting = (IF s.out = "seg" THEN FALSE ELSE s.waiting) /\ (s.out # "info" => c.due = s.due)
    BY DEF RefuseSeg, ConfirmInfo, BootRecord, Beside, Carried
  <2>4. Beside(c, a) /\ Carried(c, a) /\ Slaved(c, a) /\ a.step = 0 /\ a.status = "idle"
    BY <2>1, <2>2, RestFields
  <2> QED BY <1>1, <1>2, <2>3, <2>4 DEF Answered, Beside, Carried, Slaved
<1>3. CASE old = "success" /\ s.out = "info" /\ s.step = 3
  <2> PICK c : c = [s EXCEPT !.state = "finish"]
    OBVIOUS
  <2>1. a = [c EXCEPT !.step = 0, !.status = "idle"]
    BY <1>3 DEF OutputAnswers, ConfirmInfo
  <2>2. c \in BootRecord /\ Beside(s, c) /\ Carried(s, c) /\ c.state = "finish"
    BY DEF BootRecord, SlaveStates, Beside, Carried
  <2>3. Beside(c, a) /\ Carried(c, a) /\ Slaved(c, a)
    BY <2>1, <2>2, RestFields
  <2> QED BY <1>1, <1>3, <2>2, <2>3 DEF Answered, Beside, Carried, Slaved
<1>4. CASE old = "success" /\ ~(s.out = "info" /\ s.step = 3)
  <2>1. a = [s EXCEPT !.status = "idle"]
    BY <1>4 DEF OutputAnswers
  <2> QED BY <1>1, <1>4, <2>1, RestFields DEF Answered
<1>5. CASE old \notin {"abort", "success"}
  <2>1. a = s
    BY <1>5 DEF OutputAnswers
  <2> QED BY <1>1, <1>5, <2>1 DEF Answered, Beside, Carried
<1> QED BY <1>2, <1>3, <1>4, <1>5

(* What the switch makes of a slave that goes on.  *)
Switched(p, c) ==
  /\ c \in BootRecord /\ Carried(p, c) /\ c.index = p.index /\ c.cmd = p.cmd
  /\ \/ /\ p.state \in {"idle", "request"} /\ c.state \in {"idle", "request", "abort"}
        /\ c.out \in {p.out, "request"}
     \/ p.state = "info" /\ p.due /\ c.out = "info" /\ c.state \in {"info", "abort"}
     \/ p.state = "info" /\ ~p.due /\ c = p
     \/ /\ p.state = "seg" /\ ~p.waiting /\ FileRead
        /\ c.out = "seg" /\ c.state \in {"seg", "abort"} /\ c.step = 0 /\ c.status = "idle"
        /\ c.waiting /\ c.seg = p.index + 1
     \/ p.state = "seg" /\ ~p.waiting /\ ~FileRead /\ c = p
     \/ /\ p.state = "seg" /\ p.waiting /\ c.state \in {"seg", "abort"}
        /\ c.out = p.out /\ c.step = p.step /\ c.status = p.status /\ c.waiting /\ c.seg = p.seg

LEMMA TimedOutFields ==
  ASSUME NEW b \in BootRecord
  PROVE  LET c == TimedOut(b)
         IN  /\ c \in BootRecord /\ Beside(b, c) /\ Carried(b, c) /\ c.step = b.step /\ c.status = b.status
             /\ c.waiting = b.waiting /\ c.state \in {b.state, "abort"}
<1> PICK c : c = TimedOut(b)
  OBVIOUS
<1>1. c = b \/ c = [b EXCEPT !.state = "abort", !.due = FALSE]
  BY DEF TimedOut
<1>2. c \in BootRecord
  BY TimedOutKept DEF Kept
<1>3. /\ Beside(b, c) /\ Carried(b, c) /\ c.step = b.step /\ c.status = b.status
      /\ c.waiting = b.waiting /\ c.state \in {b.state, "abort"}
  BY <1>1 DEF BootRecord, Beside, Carried
<1> QED BY <1>2, <1>3

LEMMA RepeatedFields ==
  ASSUME NEW b \in BootRecord
  PROVE  LET c == Repeated(b)
         IN  /\ c \in BootRecord /\ Beside(b, c) /\ Carried(b, c)
             /\ c.state \in {b.state, "abort"}
<1> PICK c : c = Repeated(b)
  OBVIOUS
<1>1. c \in BootRecord
  BY RepeatedKept DEF Kept
<1>2. Beside(b, c) /\ Carried(b, c) /\ c.state \in {b.state, "abort"}
  BY DEF Repeated, BootRecord, Beside, Carried
<1> QED BY <1>1, <1>2

LEMMA SwitchFields ==
  ASSUME NEW p \in BootRecord, p.state \in {"idle", "request", "info", "seg"}
  PROVE  Switched(p, SlaveSwitch(p))
<1> PICK c : c = SlaveSwitch(p)
  OBVIOUS
<1> SUFFICES Switched(p, c)
  OBVIOUS
<1> PICK r : r = Repeated(p)
  OBVIOUS
<1>1. c \in BootRecord /\ p.index + 1 \in Nat
  BY SlaveSwitchKept DEF Kept, BootRecord
<1>2. r \in BootRecord /\ Beside(p, r) /\ Carried(p, r) /\ r.state \in {p.state, "abort"}
  BY RepeatedFields
<1> PICK u : u = [r EXCEPT !.due = FALSE]
  OBVIOUS
<1>3. u \in BootRecord /\ Beside(r, u) /\ Carried(r, u) /\ u.state = r.state
  BY <1>2 DEF BootRecord, Beside, Carried
<1>4. CASE p.state = "idle"
  <2>1. c = p \/ c = [p EXCEPT !.state = "request", !.repeat = 0]
    BY <1>4 DEF SlaveSwitch
  <2>2. Beside(p, c) /\ Carried(p, c) /\ c.state \in {"idle", "request"}
    BY <1>4, <2>1 DEF BootRecord, Beside, Carried
  <2> QED BY <1>1, <1>4, <2>2 DEF Switched, Beside
<1>5. CASE p.state = "request"
  <2>1. c = p \/ c = [u EXCEPT !.out = "request"]
    BY <1>5 DEF SlaveSwitch, RequestUpgrade
  <2>2. CASE c = p
    BY <1>1, <1>5, <2>2 DEF Switched, Carried
  <2>3. CASE c = [u EXCEPT !.out = "request"]
    <3>1. c.index = u.index /\ c.cmd = u.cmd /\ Carried(u, c) /\ c.state = u.state /\ c.out = "request"
      BY <1>3, <2>3 DEF BootRecord, Carried
    <3> QED BY <1>1, <1>2, <1>3, <1>5, <3>1 DEF Switched, Beside, Carried
  <2> QED BY <2>1, <2>2, <2>3
<1>6. CASE p.state = "info"
  <2>1. CASE p.due
    <3>1. c = [u EXCEPT !.out = "info", !.step = 0, !.status = "idle"]
      BY <1>6, <2>1 DEF SlaveSwitch, SetFwInfo
    <3>2. c.index = u.index /\ c.cmd = u.cmd /\ Carried(u, c) /\ c.state = u.state /\ c.out = "info"
      BY <1>3, <3>1 DEF BootRecord, Carried
    <3> QED BY <1>1, <1>2, <1>3, <1>6, <2>1, <3>2 DEF Switched, Beside, Carried
  <2>2. CASE ~p.due
    <3>1. c = p
      BY <1>6, <2>2 DEF SlaveSwitch
    <3> QED BY <1>1, <1>6, <2>2, <3>1 DEF Switched, Carried
  <2> QED BY <2>1, <2>2
<1>7. CASE p.state = "seg" /\ ~p.waiting
  <2>1. CASE FileRead
    <3> PICK n : n = [r EXCEPT !.seg = p.index + 1, !.waiting = TRUE]
      OBVIOUS
    <3> PICK f : f = [n EXCEPT !.out = "seg", !.step = 0, !.status = "idle"]
      OBVIOUS
    <3>1. c = TimedOut(f)
      <4>1. c = IF FileRead THEN TimedOut(SetSegFw(n)) ELSE p
        BY <1>7 DEF SlaveSwitch
      <4> QED BY <2>1, <4>1 DEF SetSegFw
    <3>2. /\ n \in BootRecord /\ n.index = r.index /\ n.cmd = r.cmd /\ Carried(r, n) /\ n.state = r.state
          /\ n.waiting /\ n.seg = p.index + 1
      BY <1>1, <1>2 DEF BootRecord, Carried
    <3>3. /\ f \in BootRecord /\ f.index = n.index /\ f.cmd = n.cmd /\ Carried(n, f) /\ f.state = n.state
          /\ f.waiting = n.waiting /\ f.seg = n.seg /\ f.out = "seg" /\ f.step = 0 /\ f.status = "idle"
      <4>1. n \in BootRecord
        BY <3>2
      <4>2. f \in BootRecord
        BY <4>1, SetsKept DEF SetSegFw, Kept
      <4>3. f.index = n.index /\ f.cmd = n.cmd /\ Carried(n, f) /\ f.state = n.state
        BY <4>1 DEF BootRecord, Carried
      <4>4. f.waiting = n.waiting /\ f.seg = n.seg /\ f.out = "seg" /\ f.step = 0 /\ f.status = "idle"
        BY <4>1 DEF BootRecord
      <4> QED BY <4>2, <4>3, <4>4
    <3>4. /\ Beside(f, c) /\ Carried(f, c) /\ c.step = 0 /\ c.status = "idle"
          /\ c.waiting = f.waiting /\ c.state \in {f.state, "abort"}
      BY <3>1, <3>3, TimedOutFields
    <3>5. c.state \in {"seg", "abort"} /\ c.index = p.index /\ c.cmd = p.cmd /\ Carried(p, c)
      BY <1>2, <1>7, <3>2, <3>3, <3>4 DEF Beside, Carried
    <3>6. c.out = "seg" /\ c.waiting /\ c.seg = p.index + 1
      BY <3>2, <3>3, <3>4 DEF Beside
    <3> QED BY <1>1, <1>7, <2>1, <3>4, <3>5, <3>6 DEF Switched
  <2>2. CASE ~FileRead
    <3>1. c = IF FileRead THEN TimedOut(SetSegFw([r EXCEPT !.seg = p.index + 1, !.waiting = TRUE])) ELSE p
      BY <1>7 DEF SlaveSwitch
    <3>2. c = p
      BY <2>2, <3>1
    <3> QED BY <1>1, <1>7, <2>2, <3>2 DEF Switched, Carried
  <2> QED BY <2>1, <2>2
<1>8. CASE p.state = "seg" /\ p.waiting
  <2>1. c = TimedOut(p)
    BY <1>8 DEF SlaveSwitch
  <2>2. /\ Beside(p, c) /\ Carried(p, c) /\ c.step = p.step /\ c.status = p.status
        /\ c.waiting = p.waiting /\ c.state \in {p.state, "abort"}
    BY <2>1, TimedOutFields
  <2> QED BY <1>1, <1>8, <2>2 DEF Switched, Beside
<1> QED BY <1>4, <1>5, <1>6, <1>7, <1>8

(* The frame is composed from the segment then loaded. *)
Framed(w, c) ==
  /\ Beside(w, c) /\ Slaved(w, c) /\ c.what = w.what /\ c.got = w.got
  /\ c.step = w.step /\ c.status = w.status /\ c.sent = IF w.sent = 0 THEN w.seg ELSE w.sent

LEMMA ComposedFields ==
  ASSUME NEW w \in BootRecord
  PROVE  Framed(w, Composed(w))
BY DEF Composed, BootRecord, Framed, Beside, Slaved

-----------------------------------------------------------------------------
(* One run of the slave takes each of the three to itself or to the next.     *)
Runs(b, s, p, w, c) ==
  Sends(b, s) /\ Answered(s, b.status, p) /\ Switched(p, w) /\ Framed(w, c)

LEMMA AskingRuns ==
  ASSUME NEW b \in BootRecord, NEW s, NEW p, NEW w, NEW c, Runs(b, s, p, w, c),
         NEW ns, NEW stored, Segment(b, ns, stored), Asking(b)
  PROVE  Segment(c, ns, stored)
<1> USE DEF Runs
<1>1. b.out \in {"idle", "request"} /\ b.index = 0 /\ b.what \in {None, "request"} /\ ~b.cmd
      /\ b.state \in {"idle", "request", "seg", "abort"}
  BY DEF Segment, Asking
<1>2. Loading(ns) = {}
  BY <1>1 DEF Segment, Announces, Sending
<1>3. /\ s.index = 0 /\ s.what \in {None, "request"} /\ s.cmd = b.cmd /\ s.out = b.out /\ s.state = b.state
  BY <1>1 DEF Sends, Beside, Slaved
<1>4. /\ p.index = 0 /\ p.what \in {None, "request"} /\ p.cmd = b.cmd /\ p.out = b.out /\ p.state = b.state
  BY <1>1, <1>3 DEF Answered, Beside, Carried, Slaved
<1>5. /\ w.index = 0 /\ w.what \in {None, "request"} /\ w.cmd = b.cmd
      /\ \/ w.out \in {"idle", "request"} /\ w.state \in {"idle", "request", "seg", "abort"}
         \/ FileRead /\ w.out = "seg" /\ w.state \in {"seg", "abort"} /\ w.step = 0 /\ w.waiting /\ w.seg = 1
  BY <1>1, <1>4 DEF Switched, Carried
<1>6. /\ c.index = 0 /\ c.what \in {None, "request"} /\ c.cmd = b.cmd
      /\ \/ c.out \in {"idle", "request"} /\ c.state \in {"idle", "request", "seg", "abort"}
         \/ FileRead /\ c.out = "seg" /\ c.state \in {"seg", "abort"} /\ c.step = 0 /\ c.waiting /\ c.seg = 1
  BY <1>5 DEF Framed, Beside, Slaved
<1>7. Asking(c) \/ Sending(c)
  BY <1>6, UpgradeAssumption DEF Asking, Sending
<1>8. ~CrcSent(c) /\ c.what # "cmd"
  BY <1>6, KindAssumption DEF CrcSent, Kinds
<1> QED BY <1>1, <1>2, <1>6, <1>7, <1>8 DEF Segment, CrcOfSegment, Announces

(* A segment that is loaded anew: nothing that counts is under way.           *)
LEMMA SegmentLoaded ==
  ASSUME NEW b, NEW p, NEW w, NEW c, NEW ns, NEW stored, Segment(b, ns, stored), Sending(b),
         Switched(p, w), Framed(w, c), p.state = "seg", ~p.waiting, p.index = b.index, p.cmd = b.cmd,
         p.what # "cmd", ~CrcSent(p), Loading(ns) = {}
  PROVE  Segment(c, ns, stored)
<1>1. FileRead
  BY DEF Segment, Sending
<1>2. /\ w.index = b.index /\ w.cmd = b.cmd /\ w.what = p.what /\ w.got = p.got
      /\ w.out = "seg" /\ w.state \in {"seg", "abort"} /\ w.step = 0 /\ w.waiting /\ w.seg = b.index + 1
  BY <1>1 DEF Switched, Carried
<1>3. /\ c.index = b.index /\ c.cmd = b.cmd /\ c.what = p.what /\ c.got = p.got
      /\ c.out = "seg" /\ c.state \in {"seg", "abort"} /\ c.step = 0 /\ c.waiting /\ c.seg = b.index + 1
  BY <1>2 DEF Framed, Beside, Slaved
<1>4. Sending(c) /\ ~CrcSent(c)
  BY <1>3 DEF Sending, CrcSent
<1> QED BY <1>1, <1>3, <1>4 DEF Segment, CrcOfSegment, Announces

(* ... and one that is waited for stays loaded.                               *)
LEMMA SegmentAwaited ==
  ASSUME NEW b \in BootRecord, NEW p, NEW w, NEW c, NEW ns, NEW stored, Segment(b, ns, stored), Sending(b),
         Switched(p, w), Framed(w, c), p.state = "seg", p.waiting, p.index = b.index, p.cmd = b.cmd,
         p.out = "seg", p.seg = b.index + 1, p.step <= 3, p.what # "cmd",
         CrcSent(p) => p.step = 3 /\ p.sent \in {0, b.index + 1} /\ p.status = "busy",
         Announces(b, ns, stored),
         Loading(ns) # {} => p.step = 3 /\ p.what = b.what /\ p.got = b.got /\ p.status # "abort"
  PROVE  Segment(c, ns, stored)
<1>1. /\ w.index = b.index /\ w.cmd = b.cmd /\ w.what = p.what /\ w.got = p.got /\ w.sent = p.sent
      /\ w.out = "seg" /\ w.state \in {"seg", "abort"} /\ w.step = p.step /\ w.status = p.status
      /\ w.waiting /\ w.seg = b.index + 1
  BY DEF Switched, Carried
<1>2. /\ c.index = b.index /\ c.cmd = b.cmd /\ c.what = p.what /\ c.got = p.got
      /\ c.sent = (IF p.sent = 0 THEN b.index + 1 ELSE p.sent)
      /\ c.out = "seg" /\ c.state \in {"seg", "abort"} /\ c.step = p.step /\ c.status = p.status
      /\ c.waiting /\ c.seg = b.index + 1
  BY <1>1 DEF Framed, Beside, Slaved
<1>3. Sending(c)
  BY <1>2 DEF Sending
<1>4. CrcOfSegment(c)
  BY <1>2, <1>3 DEF CrcOfSegment, CrcSent
<1>5. Announces(c, ns, stored)
  BY <1>2, <1>3 DEF Announces, CrcSent
<1> QED BY <1>2, <1>3, <1>4, <1>5 DEF Segment, Sending

LEMMA SendingRuns ==
  ASSUME NEW b \in BootRecord, NEW s, NEW p, NEW w, NEW c, Runs(b, s, p, w, c), p.state \notin {"finish", "abort"},
         NEW ns, NEW stored, Segment(b, ns, stored), Sending(b)
  PROVE  Segment(c, ns, stored)
<1> USE DEF Runs
<1>1. /\ b.out = "seg" /\ b.state \in {"seg", "abort"} /\ b.index < Segments /\ b.step <= 3 /\ b.step \in Nat
      /\ IF b.waiting THEN b.seg = b.index + 1 ELSE b.step = 0
  BY DEF Sending, BootRecord
<1>2. /\ b.what # "cmd" /\ (b.what = "crc" /\ ~b.got => b.waiting /\ b.step = 3 /\ b.sent = b.index + 1 /\ b.status = "busy")
      /\ Announces(b, ns, stored)
      /\ Loading(ns) # {} => b.waiting /\ b.step = 3 /\ b.status # "abort"
  BY DEF Segment, CrcOfSegment, CrcSent, Announces
<1>3. s.index = b.index /\ s.cmd = b.cmd /\ s.seg = b.seg /\ s.out = "seg" /\ s.state = b.state /\ s.waiting = b.waiting
  BY <1>1 DEF Sends, Beside, Slaved
<1>4. /\ p.index = b.index /\ p.cmd = b.cmd /\ p.seg = b.seg /\ p.out = "seg" /\ p.state = "seg"
      /\ p.what = s.what /\ p.got = s.got /\ p.sent = s.sent
  BY <1>1, <1>3 DEF Answered, Beside, Carried, Slaved
<1>5. CASE s = b /\ b.status = "abort"
  <2>1. ~p.waiting
    BY <1>3, <1>5 DEF Answered
  <2>2. ~CrcSent(p) /\ Loading(ns) = {}
    BY <1>2, <1>4, <1>5 DEF CrcSent
  <2> QED BY <1>2, <1>4, <1>5, <2>1, <2>2, SegmentLoaded
<1>6. CASE s = b /\ b.status # "abort"
  <2>1. p.waiting = b.waiting /\ p.step = b.step /\ p.status \in {b.status, "idle"}
      /\ (b.status = "busy" => p.status = "busy")
    BY <1>3, <1>6 DEF Answered, Slaved
  <2>2. CASE ~b.waiting
    <3>1. ~CrcSent(p) /\ Loading(ns) = {}
      BY <1>2, <1>4, <1>6, <2>2 DEF CrcSent
    <3> QED BY <1>2, <1>4, <1>6, <2>1, <2>2, <3>1, SegmentLoaded
  <2>3. CASE b.waiting
    <3>1. CrcSent(p) => p.step = 3 /\ p.sent \in {0, b.index + 1} /\ p.status = "busy"
      BY <1>2, <1>4, <1>6, <2>1 DEF CrcSent
    <3>2. Loading(ns) # {} => p.step = 3 /\ p.what = b.what /\ p.got = b.got /\ p.status # "abort"
      BY <1>2, <1>4, <1>6, <2>1
    <3> QED BY <1>1, <1>2, <1>4, <1>6, <2>1, <2>3, <3>1, <3>2, SegmentAwaited
  <2> QED BY <2>2, <2>3
<1>7. CASE /\ b.status = "idle" /\ b.step < 3 /\ s.step = b.step + 1
           /\ s.what = SegKinds[b.step + 1] /\ s.sent = 0 /\ ~s.got /\ s.status = "busy"
  <2>1. p = s
    BY <1>7 DEF Answered
  <2>2. s.what # "cmd" /\ (s.what = "crc" => b.step = 2) /\ Loading(ns) = {}
    <3>1. b.step \in {0, 1, 2} 
      BY <1>1, <1>7
    <3>2. s.what \in {"addr", "data", "crc"} /\ (s.what = "crc" => b.step = 2)
      BY <1>7, <3>1 DEF SegKinds
    <3> QED BY <1>2, <1>7, <3>1, <3>2
  <2>3. CASE ~b.waiting
    <3>1. ~CrcSent(p)
      BY <1>1, <2>1, <2>2, <2>3 DEF CrcSent
    <3> QED BY <1>3, <1>4, <2>1, <2>2, <2>3, <3>1, SegmentLoaded
  <2>4. CASE b.waiting
    <3>1. CrcSent(p) => p.step = 3 /\ p.sent \in {0, b.index + 1} /\ p.status = "busy"
      BY <1>7, <2>1, <2>2 DEF CrcSent
    <3>2. p.step <= 3 /\ p.seg = b.index + 1
      BY <1>1, <1>4, <1>7, <2>1, <2>4
    <3> QED BY <1>2, <1>3, <1>4, <2>1, <2>2, <2>4, <3>1, <3>2, SegmentAwaited
  <2> QED BY <2>3, <2>4
<1> QED BY <1>1, <1>5, <1>6, <1>7 DEF Sends

LEMMA TellingRuns ==
  ASSUME NEW b \in BootRecord, NEW s, NEW p, NEW w, NEW c, Runs(b, s, p, w, c), p.state \notin {"finish", "abort"},
         NEW ns, NEW stored, Segment(b, ns, stored), Telling(b)
  PROVE  Segment(c, ns, stored)
<1> USE DEF Runs
<1>1. /\ b.index = Segments /\ b.what # "cmd"
      /\ \/ b.out = "seg" /\ b.state = "info" /\ b.due /\ ~b.waiting /\ b.step = 0
         \/ b.out = "info" /\ b.state \in {"info", "abort"}
  BY DEF Telling, Segment
<1>2. ~Sending(b)
  BY <1>1, UpgradeAssumption DEF Sending
<1>3. Loading(ns) = {} /\ ~CrcSent(b)
  BY <1>2 DEF Segment, Announces, CrcOfSegment
<1>4. /\ s.index = Segments /\ s.cmd = b.cmd /\ s.out = b.out /\ s.state = b.state /\ s.due = b.due
      /\ s.what # "cmd" /\ ~CrcSent(s)
  <2>1. s.index = Segments /\ s.cmd = b.cmd /\ s.out = b.out /\ s.state = b.state /\ s.due = b.due
    BY <1>1 DEF Sends, Beside, Slaved
  <2>2. CASE s = b
    BY <1>1, <1>3, <2>1, <2>2
  <2>3. CASE b.out = "info" /\ s.what \in InfoKinds
    BY <2>1, <2>3 DEF InfoKinds, CrcSent
  <2>4. CASE b.out = "seg" /\ b.step < 3 /\ s.what = SegKinds[b.step + 1]
    <3>1. s.what = "addr"
      BY <1>1, <2>4 DEF SegKinds
    <3> QED BY <2>1, <3>1 DEF CrcSent
  <2> QED BY <1>1, <2>2, <2>3, <2>4 DEF Sends
<1>5. /\ p.index = Segments /\ p.cmd = b.cmd /\ p.out = b.out /\ p.state = "info"
      /\ p.out = "seg" => p.due
      /\ p.what # "cmd" /\ ~CrcSent(p)
  BY <1>1, <1>4 DEF Answered, Beside, Carried, Slaved, CrcSent
<1>6. /\ w.index = Segments /\ w.cmd = b.cmd /\ w.out = "info" /\ w.state \in {"info", "abort"}
      /\ w.what # "cmd" /\ ~CrcSent(w)
  BY <1>1, <1>5 DEF Switched, Carried, CrcSent
<1>7. /\ c.index = Segments /\ c.cmd = b.cmd /\ c.out = "info" /\ c.state \in {"info", "abort"}
      /\ c.what # "cmd" /\ ~CrcSent(c)
  BY <1>6 DEF Framed, Beside, Slaved, CrcSent
<1>8. Telling(c)
  BY <1>7 DEF Telling
<1> QED BY <1>1, <1>3, <1>7, <1>8 DEF Segment, CrcOfSegment, Announces

-----------------------------------------------------------------------------
(* The announcements under way. *)
LEMMA NotesAppended ==
  ASSUME NEW ns \in Seq({"ready", "loading"}), NEW note \in {"ready", "loading"}
  PROVE  /\ Append(ns, note) \in Seq({"ready", "loading"})
         /\ note = "ready" => Loading(Append(ns, note)) = Loading(ns)
         /\ Loading(ns) = {} => Once(Append(ns, note))
<1> PICK m : m = Append(ns, note)
  OBVIOUS
<1> PICK n \in Nat : n = Len(ns)
  OBVIOUS
<1>1. m \in Seq({"ready", "loading"}) /\ Len(m) = n + 1 /\ m[n + 1] = note /\ \A i \in 1..n : m[i] = ns[i]
  OBVIOUS
<1>2. ASSUME note = "ready" PROVE Loading(m) = Loading(ns)
  <2>1. \A i \in 1..(n + 1) : i \in 1..n \/ i = n + 1
    OBVIOUS
  <2>2. \A i \in 1..n : i \in 1..(n + 1)
    OBVIOUS
  <2> QED BY <1>1, <1>2, <2>1, <2>2 DEF Loading
<1>3. ASSUME Loading(ns) = {} PROVE Once(m)
  <2>1. \A i \in 1..(n + 1) : i \in 1..n \/ i = n + 1
    OBVIOUS
  <2>2. \A i \in 1..n : ns[i] # "loading"
    BY <1>3 DEF Loading
  <2> QED BY <1>1, <2>1, <2>2 DEF Loading, Once
<1> QED BY <1>1, <1>2, <1>3

LEMMA NotesTaken ==
  ASSUME NEW ns \in Seq({"ready", "loading"}), ns # <<>>
  PROVE  /\ Tail(ns) \in Seq({"ready", "loading"}) /\ Head(ns) \in {"ready", "loading"}
         /\ Loading(ns) = {} => Head(ns) = "ready" /\ Loading(Tail(ns)) = {}
         /\ Once(ns) => Once(Tail(ns)) /\ (Head(ns) = "loading" => Loading(Tail(ns)) = {})
<1> PICK m : m = Tail(ns)
  OBVIOUS
<1> PICK n \in Nat : n = Len(m)
  OBVIOUS
<1>1. /\ m \in Seq({"ready", "loading"}) /\ Head(ns) \in {"ready", "loading"} /\ Len(ns) = n + 1
      /\ Head(ns) = ns[1] /\ \A i \in 1..n : m[i] = ns[i + 1]
  OBVIOUS
<1>2. /\ 1 \in 1..(n + 1)
      /\ \A i \in 1..n : i + 1 \in 1..(n + 1) /\ i + 1 # 1
      /\ \A i, j \in 1..n : i + 1 = j + 1 => i = j
  OBVIOUS
<1>3. \A i \in Loading(m) : i \in 1..n /\ i + 1 \in Loading(ns)
  BY <1>1, <1>2 DEF Loading
<1>4. Head(ns) = "loading" <=> 1 \in Loading(ns)
  BY <1>1, <1>2 DEF Loading
<1>5. Loading(ns) = {} => Head(ns) = "ready" /\ Loading(m) = {}
  BY <1>1, <1>3, <1>4
<1>6. ASSUME Once(ns) PROVE Once(m) /\ (Head(ns) = "loading" => Loading(m) = {})
  BY <1>2, <1>3, <1>4, <1>6 DEF Once
<1> QED BY <1>1, <1>5, <1>6

(* The announcement of the segment confirms it; one that the pack is ready    *)
(* matters only to a slave that asked.                                        *)
ConfirmedAs(b, c) ==
  /\ c.index = b.index + 1 /\ c.out = b.out /\ c.cmd = b.cmd /\ c.what = b.what /\ c.got = b.got
  /\ ~c.waiting /\ c.step = 0
  /\ IF b.index + 1 >= Segments THEN c.state = "info" /\ c.due ELSE c.state = b.state

LEMMA ConfirmedFields ==
  ASSUME NEW b \in BootRecord
  PROVE  ConfirmedAs(b, Confirmed(b))
<1> DEFINE all == LastSegment(b.index + 1)
           state == IF all THEN "info" ELSE b.state
<1>1. /\ Confirmed(b) = [b EXCEPT !.index = b.index + 1, !.state = state, !.due = all,
                                  !.repeat = 0, !.waiting = FALSE, !.step = 0]
      /\ all \in BOOLEAN /\ state \in SlaveStates /\ b.index + 1 \in Nat
      /\ all <=> b.index + 1 >= Segments
  BY DEF Confirmed, LastSegment, BootRecord, SlaveStates
<1>2. IF b.index + 1 >= Segments THEN state = "info" /\ all ELSE state = b.state
  BY <1>1
<1> HIDE DEF all, state
<1> DEFINE c == [b EXCEPT !.index = b.index + 1, !.state = state, !.due = all]
<1>3. /\ c \in BootRecord /\ c.index = b.index + 1 /\ c.state = state /\ (c.due <=> all)
      /\ c.out = b.out /\ c.cmd = b.cmd /\ c.what = b.what /\ c.got = b.got
  BY <1>1 DEF BootRecord
<1> DEFINE d == [c EXCEPT !.repeat = 0, !.waiting = FALSE]
<1>4. Confirmed(b) = [d EXCEPT !.step = 0]
  BY <1>1
<1> HIDE DEF c
<1>5. /\ d \in BootRecord /\ d.index = c.index /\ d.state = c.state /\ (d.due <=> c.due)
      /\ d.out = c.out /\ d.cmd = c.cmd /\ d.what = c.what /\ d.got = c.got /\ ~d.waiting
  BY <1>3 DEF BootRecord
<1> HIDE DEF d
<1> PICK e : e = [d EXCEPT !.step = 0]
  OBVIOUS
<1>6. /\ e.index = d.index /\ e.state = d.state /\ (e.due <=> d.due)
      /\ e.out = d.out /\ e.cmd = d.cmd /\ e.what = d.what /\ e.got = d.got
      /\ (e.waiting <=> d.waiting) /\ e.step = 0
  BY <1>5 DEF BootRecord
<1>7. ConfirmedAs(b, e)
  BY <1>2, <1>3, <1>5, <1>6 DEF ConfirmedAs
<1> QED BY <1>4, <1>7

LEMMA ReadyFields ==
  ASSUME NEW b \in BootRecord
  PROVE  LET c == ConfirmReady(b)
         IN  c.state = "seg" /\ c.index = b.index /\ c.out = b.out /\ c.cmd = b.cmd /\ c.what = b.what
BY DEF ConfirmReady, BootRecord

LEMMA AnnouncementTaken ==
  ASSUME NEW b \in BootRecord, NEW ns \in Seq({"ready", "loading"}), ns # <<>>, NEW stored,
         Segment(b, ns, stored)
  PROVE  Segment(Announced(b, Head(ns)), Tail(ns), stored)
<1> PICK c : c = Announced(b, Head(ns))
  OBVIOUS
<1> PICK m : m = Tail(ns)
  OBVIOUS
<1> SUFFICES Segment(c, m, stored)
  OBVIOUS
<1>1. /\ Loading(ns) = {} => Head(ns) = "ready" /\ Loading(m) = {}
      /\ Once(ns) => Once(m) /\ (Head(ns) = "loading" => Loading(m) = {})
  BY NotesTaken
<1>2. Segment(b, m, stored)
  <2>1. Announces(b, m, stored)
    BY <1>1 DEF Segment, Announces
  <2> QED BY <2>1 DEF Segment
<1>3. CASE b.out = "seg" /\ Head(ns) = "loading" /\ b.step >= 3
  <2>1. c = Confirmed(b)
    BY <1>3 DEF Announced
  <2>2. ConfirmedAs(b, c)
    BY <2>1, ConfirmedFields
  <2>3. /\ Loading(m) = {} /\ Sending(b) /\ b.index + 1 \in stored /\ ~CrcSent(b)
        /\ b.state \in {"seg", "abort"}
    BY <1>1, <1>3 DEF Segment, Announces, Sending
  <2>4. b.index \in Nat /\ b.index + 1 \in Nat /\ b.index < Segments /\ Segments \in Nat
    BY <2>3, UpgradeAssumption DEF BootRecord, Sending
  <2>5. c.index = b.index + 1 /\ c.out = "seg" /\ ~c.waiting /\ c.step = 0 /\ ~CrcSent(c) /\ ~c.cmd /\ c.what # "cmd"
    BY <1>3, <2>2, <2>3 DEF ConfirmedAs, CrcSent, Segment
  <2>6. Sending(c) \/ Telling(c)
    <3>1. CASE b.index + 1 >= Segments
      <4>1. c.index = Segments /\ c.state = "info" /\ c.due
        BY <2>2, <2>4, <2>5, <3>1 DEF ConfirmedAs
      <4> QED BY <2>5, <4>1 DEF Telling
    <3>2. CASE b.index + 1 < Segments
      <4>1. c.state = b.state
        BY <2>2, <2>4, <3>2 DEF ConfirmedAs
      <4> QED BY <2>3, <2>5, <3>2, <4>1 DEF Sending
    <3> QED BY <2>4, <3>1, <3>2
  <2>7. 1..c.index \subseteq stored
    <3>1. \A i \in 1..(b.index + 1) : i \in 1..b.index \/ i = b.index + 1
      BY <2>4
    <3> QED BY <2>3, <2>5, <3>1 DEF Segment
  <2> QED BY <1>2, <1>3, <2>3, <2>5, <2>6, <2>7 DEF Segment, CrcOfSegment, Announces
<1>4. CASE b.out = "request" /\ ~(b.out = "seg" /\ Head(ns) = "loading" /\ b.step >= 3)
  <2>1. c = ConfirmReady(b)
    BY <1>4 DEF Announced
  <2>2. c.state = "seg" /\ c.index = b.index /\ c.out = b.out /\ c.cmd = b.cmd /\ c.what = b.what
    BY <2>1, ReadyFields
  <2>3. Asking(b) /\ Loading(m) = {}
    BY <1>2, <1>4 DEF Segment, Announces, Sending, Telling
  <2>4. Asking(c) /\ ~CrcSent(c)
    BY <2>2, <2>3, KindAssumption DEF Asking, CrcSent, Kinds
  <2> QED BY <1>2, <1>4, <2>2, <2>3, <2>4 DEF Segment, CrcOfSegment, Announces
<1>5. CASE b.out # "request" /\ ~(b.out = "seg" /\ Head(ns) = "loading" /\ b.step >= 3)
  BY <1>2, <1>5 DEF Announced
<1> QED BY <1>3, <1>4, <1>5

(* The transfers: what the client reports, and what reaches the pack.         *)
LEMMA TransferEnded ==
  ASSUME NEW b \in BootRecord, NEW status \in {"success", "abort"}, status = "abort" => ~b.got,
         b.what # None, NEW ns, NEW stored, Segment(b, ns, stored)
  PROVE  Segment([b EXCEPT !.status = status, !.what = None, !.got = FALSE], ns, stored)
<1> PICK c : c = [b EXCEPT !.status = status, !.what = None, !.got = FALSE]
  OBVIOUS
<1> SUFFICES Segment(c, ns, stored)
  OBVIOUS
<1>1. Beside(b, c) /\ Slaved(b, c) /\ c.step = b.step /\ c.status = status /\ c.what = None
  BY DEF BootRecord, Beside, Slaved
<1>2. /\ Asking(b) => Asking(c)
      /\ Sending(b) => Sending(c)
      /\ Telling(b) => Telling(c)
  BY <1>1 DEF Asking, Sending, Telling, Beside, Slaved
<1>3. ~CrcSent(c) /\ c.what # "cmd"
  BY <1>1, KindAssumption DEF CrcSent, Kinds
<1>4. Announces(c, ns, stored)
  BY <1>1, <1>2, <1>3 DEF Segment, Announces, CrcSent, Beside, Slaved
<1> QED BY <1>1, <1>2, <1>3, <1>4 DEF Segment, CrcOfSegment, Beside

LEMMA TransferArrives ==
  ASSUME NEW b \in BootRecord, b.what # None, ~b.got, NEW ns \in Seq({"ready", "loading"}),
         NEW stored, Segment(b, ns, stored),
         NEW whole \in BOOLEAN, whole => b.what = "crc",
         NEW ms, IF whole THEN ms \in {ns, Append(ns, "loading")} ELSE ms \in {ns, Append(ns, "ready")}
  PROVE  Segment([b EXCEPT !.got = TRUE], ms, stored \cup (IF whole THEN {b.sent} ELSE {}))
<1> PICK c : c = [b EXCEPT !.got = TRUE]
  OBVIOUS
<1> PICK st : st = stored \cup (IF whole THEN {b.sent} ELSE {})
  OBVIOUS
<1> SUFFICES Segment(c, ms, st)
  OBVIOUS
<1>1. Beside(b, c) /\ Slaved(b, c) /\ c.step = b.step /\ c.status = b.status /\ c.what = b.what /\ c.got
  BY DEF BootRecord, Beside, Slaved
<1>2. /\ Asking(b) => Asking(c)
      /\ Sending(b) => Sending(c)
      /\ Telling(b) => Telling(c)
  BY <1>1 DEF Asking, Sending, Telling, Beside, Slaved
<1>3. ~CrcSent(c)
  BY <1>1 DEF CrcSent
<1>4. Loading(ns) = {}
  BY DEF Segment, Announces, CrcSent
<1>5. CASE whole
  <2>1. Sending(b) /\ b.waiting /\ b.step = 3 /\ b.sent = b.index + 1 /\ b.status = "busy" /\ b.what = "crc"
    BY <1>5 DEF Segment, CrcOfSegment, CrcSent
  <2>2. st = stored \cup {b.index + 1} /\ Once(ms)
    <3>1. Once(ns) /\ Once(Append(ns, "loading"))
      BY <1>4, NotesAppended DEF Once
    <3> QED BY <1>5, <2>1, <3>1
  <2>3. b.index + 1 \in 1..Segments
    BY <2>1, UpgradeAssumption DEF Sending, BootRecord
  <2>4. 1..c.index \subseteq st /\ st \subseteq 1..Segments
    BY <1>1, <2>2, <2>3 DEF Segment, Beside
  <2>5. Announces(c, ms, st)
    BY <1>1, <1>2, <1>3, <2>1, <2>2 DEF Announces, Beside, Slaved
  <2> QED BY <1>1, <1>2, <1>3, <2>4, <2>5 DEF Segment, CrcOfSegment, Beside
<1>6. CASE ~whole
  <2>1. st = stored /\ Loading(ms) = {}
    BY <1>4, <1>6, NotesAppended
  <2> QED BY <1>1, <1>2, <1>3, <2>1 DEF Segment, CrcOfSegment, Announces, Beside
<1> QED BY <1>5, <1>6

LEMMA TimerOver ==
  ASSUME NEW b \in BootRecord, NEW ns, NEW stored, Segment(b, ns, stored)
  PROVE  Segment([b EXCEPT !.due = TRUE], ns, stored)
<1> PICK c : c = [b EXCEPT !.due = TRUE]
  OBVIOUS
<1>1. /\ Beside(b, c) /\ Carried(b, c) /\ c.state = b.state /\ c.waiting = b.waiting
      /\ c.step = b.step /\ c.status = b.status /\ c.due
  BY DEF BootRecord, Beside, Carried
<1>2. /\ Asking(b) => Asking(c)
      /\ Sending(b) => Sending(c)
      /\ Telling(b) => Telling(c)
      /\ CrcSent(b) <=> CrcSent(c)
  BY <1>1 DEF Asking, Sending, Telling, CrcSent, Beside, Carried
<1>3. CrcOfSegment(c) /\ Announces(c, ns, stored)
  BY <1>1, <1>2 DEF Segment, CrcOfSegment, Announces, Beside, Carried
<1> QED BY <1>1, <1>2, <1>3 DEF Segment, Beside, Carried

-----------------------------------------------------------------------------
(* The steps. *)
LEMMA StoreNotUpgrading ==
  ASSUME StoreInv, ~Upgrading', UNCHANGED <<notes, dups, lost, cmds>>
  PROVE  StoreInv'
BY DEF StoreInv

LEMMA StoreReset ==
  ASSUME StoreInv, NEW error, ResetUpgrading(error), UNCHANGED <<notes, dups, lost, cmds>>
  PROVE  StoreInv'
<1>1. cur' = None
  BY DEF ResetUpgrading
<1> QED BY <1>1, StoreNotUpgrading DEF Upgrading

LEMMA StoreReboots ==
  ASSUME UpgradeInv, StoreInv, RebootSucceeds
  PROVE  StoreInv'
<1>1. pc = "manager" /\ reboot /\ reboot' = FALSE /\ UNCHANGED <<cur, dups, lost, cmds>> /\ ~Upgrading
  BY DEF RebootSucceeds, StoreInv
<1>2. CASE cur = None
  BY <1>1, <1>2, StoreNotUpgrading DEF RebootSucceeds, Upgrading
<1>3. CASE cur # None
  <2>1. boot.state = "none"
    BY <1>1 DEF UpgradeInv, WhileUpgrading
  <2> PICK n : n = [NoBoot EXCEPT !.state = "idle"]
    OBVIOUS
  <2>2. boot' = [n EXCEPT !.out = "idle", !.step = 0] /\ pack' = NewPack /\ notes' = <<>>
    BY <1>3, <2>1 DEF RebootSucceeds, StartUpgrading, AddSlave, NewOutput
  <2>3. n \in BootRecord /\ n.state = "idle" /\ n.index = 0 /\ n.what = None /\ ~n.cmd
    BY DEF NoBoot, BootRecord, SlaveStates
  <2>4. boot'.out = "idle" /\ boot'.state = "idle" /\ boot'.index = 0 /\ boot'.what = None /\ ~boot'.cmd
    BY <2>2, <2>3 DEF BootRecord
  <2>5. Asking(boot') /\ ~CrcSent(boot') /\ boot'.what # "cmd"
    BY <2>4, KindAssumption DEF Asking, CrcSent, Kinds
  <2>6. pack'.stored = {} /\ notes' = <<>> /\ Loading(notes') = {} /\ 1..boot'.index = {}
    BY <2>2, <2>4 DEF NewPack, Loading
  <2>7. Segment(boot, notes, pack.stored)'
    BY <2>4, <2>5, <2>6 DEF Segment, CrcOfSegment, Announces
  <2> QED BY <1>1, <2>6, <2>7 DEF StoreInv
<1> QED BY <1>2, <1>3

(* A step during an upgrade that goes on.                                     *)
LEMMA StoreGoesOn ==
  ASSUME StoreInv, UNCHANGED <<item, cur, reboot>>,
         dups' \in Nat, lost' \in Nat, cmds' \in Nat, notes' \in Seq({"ready", "loading"}),
         Undisturbed' => Undisturbed,
         NEW b, b = boot', NEW ns, ns = notes', NEW stored, stored = pack'.stored,
         Undisturbed' /\ Segment(boot, notes, pack.stored) => Segment(b, ns, stored)
  PROVE  StoreInv'
<1>1. Upgrading' <=> Upgrading
  BY DEF Upgrading
<1>2. Segment(b, ns, stored) => Segment(boot, notes, pack.stored)'
  BY DEF Segment, FileRead
<1> QED BY <1>1, <1>2 DEF StoreInv

LEMMA StoreRequest ==
  ASSUME UpgradeInv, StoreInv, NEW r \in Requests, Request(r)
  PROVE  StoreInv'
<1>1. /\ item' = [item EXCEPT ![r] = "idle"] /\ item \in [Requests -> ItemStates]
      /\ UNCHANGED <<cur, reboot, boot, pack, notes, dups, lost, cmds>>
  BY DEF Request, UpgradeInv, UpgradeTyped
<1>2. Upgrading' => Upgrading
  <2>1. CASE cur = r
    BY <1>1, <2>1 DEF Upgrading
  <2>2. CASE cur # r
    BY <1>1, <2>2 DEF Upgrading
  <2> QED BY <2>1, <2>2
<1>3. (Segment(boot, notes, pack.stored) => Segment(boot, notes, pack.stored)') /\ (Undisturbed' <=> Undisturbed)
  BY <1>1 DEF Segment, FileRead, Undisturbed
<1> QED BY <1>1, <1>2, <1>3 DEF StoreInv

LEMMA StoreManager ==
  ASSUME UpgradeInv, StoreInv, ManagerDispatches \/ ManagerTimeout
  PROVE  StoreInv'
<1>1. CASE ManagerDispatches
  <2>1. UNCHANGED <<item, cur, reboot, notes, dups, lost, pack>> /\ cmds' = cmds + 1
    BY <1>1 DEF ManagerDispatches, ota
  <2>2. cmds' \in Nat /\ ~Undisturbed'
    BY <2>1 DEF StoreInv, Undisturbed
  <2> QED BY <2>1, <2>2, StoreGoesOn DEF StoreInv
<1>2. CASE ManagerTimeout
  <2>1. UNCHANGED <<item, cur, reboot, notes, dups, lost, pack, cmds>> /\ boot.cmd
    BY <1>2 DEF ManagerTimeout, ota
  <2>2. ~Segment(boot, notes, pack.stored) /\ (Undisturbed' => Undisturbed)
    BY <2>1 DEF Segment, Undisturbed
  <2> QED BY <2>1, <2>2, StoreGoesOn DEF StoreInv
<1> QED BY <1>1, <1>2

LEMMA StoreSlave ==
  ASSUME UpgradeInv, StoreInv, SlaveProcess
  PROVE  StoreInv'
<1>1. PICK again \in BOOLEAN : /\ Processed(again).state \notin {"finish", "abort"}
                              /\ boot' = Composed(SlaveSwitch(Processed(again)))
  BY DEF SlaveProcess
<1>2. UNCHANGED <<item, cur, reboot, notes, dups, lost, pack, cmds>> /\ boot.state # "none" /\ boot \in BootRecord
  BY DEF SlaveProcess, SlaveRuns, ota, UpgradeInv, UpgradeTyped
<1> PICK s : s = OutputSends(boot, again)
  OBVIOUS
<1> PICK p : p = Processed(again)
  OBVIOUS
<1> PICK w : w = SlaveSwitch(p)
  OBVIOUS
<1> PICK c : c = Composed(w)
  OBVIOUS
<1>3. Sends(boot, s) /\ s \in BootRecord
  BY <1>2, SendsFields DEF Sends
<1>4. Answered(s, boot.status, p)
  BY <1>3, AnswersFields DEF Processed, Output
<1>5. p \in BootRecord /\ p.state \in {"idle", "request", "info", "seg"}
  <2>1. Kept(boot, p)
    BY ProcessedKept DEF UpgradeInv
  <2> QED BY <1>1, <1>2, <2>1 DEF Kept, BootRecord, SlaveStates
<1>6. Switched(p, w) /\ w \in BootRecord
  BY <1>5, SwitchFields DEF Switched
<1>7. Framed(w, c)
  BY <1>6, ComposedFields
<1>8. ASSUME Segment(boot, notes, pack.stored) PROVE Segment(c, notes, pack.stored)
  <2>1. Runs(boot, s, p, w, c)
    BY <1>3, <1>4, <1>6, <1>7 DEF Runs
  <2>2. p.state \notin {"finish", "abort"}
    BY <1>5
  <2> QED BY <1>2, <1>8, <2>1, <2>2, AskingRuns, SendingRuns, TellingRuns DEF Segment
<1>9. Undisturbed' <=> Undisturbed
  BY <1>2 DEF Undisturbed
<1>10. c = boot'
  BY <1>1
<1> QED BY <1>2, <1>8, <1>9, <1>10, StoreGoesOn DEF StoreInv

LEMMA StoreTakes ==
  ASSUME UpgradeInv, StoreInv, ServerTakes
  PROVE  StoreInv'
<1>1. /\ UNCHANGED <<item, cur, reboot, lost, pack, cmds>> /\ notes # <<>> /\ boot \in BootRecord
      /\ boot' = Announced(boot, Head(notes))
      /\ \/ notes' = Tail(notes) /\ dups' = dups
         \/ dups' = dups + 1 /\ notes' = notes
  BY DEF ServerTakes, ota, UpgradeInv, UpgradeTyped
<1>2. notes \in Seq({"ready", "loading"}) /\ Tail(notes) \in Seq({"ready", "loading"})
  BY <1>1, NotesTaken DEF StoreInv
<1>3. CASE notes' = Tail(notes) /\ dups' = dups
  <2>1. Undisturbed' <=> Undisturbed
    BY <1>1, <1>3 DEF Undisturbed
  <2>2. Segment(boot, notes, pack.stored) => Segment(Announced(boot, Head(notes)), Tail(notes), pack.stored)
    BY <1>1, <1>2, AnnouncementTaken
  <2> QED BY <1>1, <1>2, <1>3, <2>1, <2>2, StoreGoesOn DEF StoreInv
<1>4. CASE dups' = dups + 1 /\ notes' = notes
  <2>1. dups' \in Nat /\ ~Undisturbed'
    BY <1>4 DEF StoreInv, Undisturbed
  <2> QED BY <1>1, <1>4, <2>1, StoreGoesOn DEF StoreInv
<1> QED BY <1>1, <1>3, <1>4

LEMMA StoreEnds ==
  ASSUME UpgradeInv, StoreInv, ClientEnds
  PROVE  StoreInv'
<1>1. /\ UNCHANGED <<item, cur, reboot, notes, dups, pack, cmds>> /\ boot.what # None /\ boot \in BootRecord
  BY DEF ClientEnds, ota, UpgradeInv, UpgradeTyped
<1>2. PICK status \in {"success", "abort"} :
        /\ boot' = [boot EXCEPT !.status = status, !.what = None, !.got = FALSE]
        /\ lost' = lost + (IF status = "abort" /\ boot.got THEN 1 ELSE 0)
  BY DEF ClientEnds, StoreInv
<1>3. lost' \in Nat /\ (Undisturbed' => Undisturbed /\ ~(status = "abort" /\ boot.got))
  BY <1>1, <1>2 DEF StoreInv, Undisturbed
<1>4. Undisturbed' /\ Segment(boot, notes, pack.stored)
        => Segment([boot EXCEPT !.status = status, !.what = None, !.got = FALSE], notes, pack.stored)
  BY <1>1, <1>3, TransferEnded
<1> QED BY <1>1, <1>2, <1>3, <1>4, StoreGoesOn DEF StoreInv

LEMMA StoreArrives ==
  ASSUME UpgradeInv, StoreInv, PackTakes
  PROVE  StoreInv'
<1> PICK whole \in BOOLEAN : whole <=> /\ boot.what = "crc" /\ boot.sent # 0
                                      /\ pack.addr = boot.sent /\ pack.data = boot.sent
  OBVIOUS
<1>1. /\ UNCHANGED <<item, cur, reboot, dups, lost, cmds>> /\ boot.what \notin {None, "cmd"} /\ ~boot.got
      /\ boot' = [boot EXCEPT !.got = TRUE] /\ boot \in BootRecord
      /\ pack'.stored = pack.stored \cup (IF whole THEN {boot.sent} ELSE {})
  BY DEF PackTakes, ota, UpgradeInv, UpgradeTyped
<1>2. IF whole THEN notes' \in {notes, Append(notes, "loading")} ELSE notes' \in {notes, Append(notes, "ready")}
  BY DEF PackTakes, Notes
<1>3. notes \in Seq({"ready", "loading"}) /\ notes' \in Seq({"ready", "loading"})
  BY <1>2, NotesAppended DEF StoreInv
<1>4. Segment(boot, notes, pack.stored)
        => Segment([boot EXCEPT !.got = TRUE], notes', pack.stored \cup (IF whole THEN {boot.sent} ELSE {}))
  BY <1>1, <1>2, <1>3, TransferArrives
<1>5. Undisturbed' <=> Undisturbed
  BY <1>1 DEF Undisturbed
<1> QED BY <1>1, <1>3, <1>4, <1>5, StoreGoesOn DEF StoreInv

LEMMA StoreTimer ==
  ASSUME UpgradeInv, StoreInv, TimerExpires
  PROVE  StoreInv'
<1>1. /\ UNCHANGED <<item, cur, reboot, notes, pack, dups, lost, cmds>>
      /\ boot' = [boot EXCEPT !.due = TRUE] /\ boot \in BootRecord
  BY DEF TimerExpires, ota, UpgradeInv, UpgradeTyped
<1>2. Segment(boot, notes, pack.stored) => Segment([boot EXCEPT !.due = TRUE], notes, pack.stored)
  BY <1>1, TimerOver
<1>3. Undisturbed' <=> Undisturbed
  BY <1>1 DEF Undisturbed
<1> QED BY <1>1, <1>2, <1>3, StoreGoesOn DEF StoreInv

LEMMA StoreRests ==
  ASSUME UpgradeInv, StoreInv, OtaRests \/ ManagerRests \/ ServerRests \/ ClientRests \/ UNCHANGED vars
  PROVE  StoreInv'
<1>1. UNCHANGED <<item, cur, reboot, boot, notes, pack, dups, lost, cmds>>
  BY DEF OtaRests, ManagerRests, ServerRests, ClientRests, ota, vars
<1>2. Undisturbed' <=> Undisturbed
  BY <1>1 DEF Undisturbed
<1> QED BY <1>1, <1>2, StoreGoesOn DEF StoreInv

LEMMA StoreHead ==
  ASSUME UpgradeInv, StoreInv, HeadTimeout \/ HeadStarts
  PROVE  StoreInv'
<1>1. UNCHANGED <<notes, dups, lost, cmds>>
  BY DEF HeadTimeout, HeadStarts
<1>2. CASE HeadTimeout
  BY <1>1, <1>2, StoreNotUpgrading DEF HeadTimeout, HeadWaits, Upgrading
<1>3. CASE HeadStarts
  <2>1. cur' = Head(queue) /\ item' = [item EXCEPT ![Head(queue)] = "reboot"] /\ Head(queue) \in Requests
        /\ item \in [Requests -> ItemStates]
    BY <1>3 DEF HeadStarts, HeadWaits, UpgradeInv, UpgradeTyped
  <2>2. item'[cur'] = "reboot"
    BY <2>1
  <2> QED BY <1>1, <2>2, StoreNotUpgrading DEF Upgrading
<1> QED BY <1>2, <1>3

LEMMA StoreNext == UpgradeInv /\ StoreInv /\ [Next]_vars => StoreInv'
<1> SUFFICES ASSUME UpgradeInv, StoreInv, [Next]_vars PROVE StoreInv'
  OBVIOUS
<1>1. CASE \E r \in Requests : Request(r)
  BY <1>1, StoreRequest
<1>2. CASE HeadTimeout \/ HeadStarts \/ RebootSucceeds
  BY <1>2, StoreHead, StoreReboots
<1>3. CASE RebootTimeout \/ RebootFails \/ SlaveFinishes \/ SlaveAborts
  BY <1>3, StoreReset DEF RebootTimeout, RebootFails, SlaveFinishes, SlaveAborts
<1>4. CASE ManagerDispatches \/ ManagerTimeout \/ SlaveProcess
  BY <1>4, StoreManager, StoreSlave
<1>5. CASE TimerExpires \/ ServerTakes \/ ClientEnds \/ PackTakes
  BY <1>5, StoreTimer, StoreTakes, StoreEnds, StoreArrives
<1>6. CASE OtaRests \/ ManagerRests \/ ServerRests \/ ClientRests \/ UNCHANGED vars
  BY <1>6, StoreRests
<1> QED BY <1>1, <1>2, <1>3, <1>4, <1>5, <1>6 DEF Next

-----------------------------------------------------------------------------
(* Only a slave whose firmware has been told succeeds. *)
LEMMA FinishedIsStored ==
  ASSUME UpgradeInv, Segment(boot, notes, pack.stored), Processed(TRUE).state = "finish"
  PROVE  Stored
<1> PICK s : s = OutputSends(boot, TRUE)
  OBVIOUS
<1> PICK p : p = Processed(TRUE)
  OBVIOUS
<1>1. boot \in BootRecord
  BY DEF UpgradeInv, UpgradeTyped
<1>2. Sends(boot, s)
  BY <1>1, SendsFields
<1>3. Answered(s, boot.status, p)
  BY <1>2, AnswersFields DEF Processed, Output, Sends
<1>4. boot.state # "finish"
  BY DEF Segment, Asking, Sending, Telling
<1>5. boot.out = "info"
  BY <1>2, <1>3, <1>4 DEF Sends, Answered, Beside, Slaved
<1>6. boot.index = Segments
  BY <1>5 DEF Segment, Asking, Sending, Telling
<1> QED BY <1>6 DEF Segment, Stored

ReportTyped == report \in [Requests -> Seq(Reports)]

LEMMA Reported ==
  ASSUME ReportTyped, NEW q \in Requests, NEW error \in Reports,
         report' = [report EXCEPT ![q] = Append(@, error)]
  PROVE  ReportTyped' /\ (error # "ok" => ~Succeeds)
<1>1. \A m \in Seq(Reports) : /\ Append(m, error) \in Seq(Reports)
                              /\ m = <<>> => Append(m, error)[1] = error
  OBVIOUS
<1>2. ReportTyped'
  BY <1>1 DEF ReportTyped
<1>3. ASSUME error # "ok", NEW r \in Requests, report'[r] = <<"ok">>, report[r] = <<>>
      PROVE  FALSE
  <2>1. CASE r = q
    <3>1. report'[r] = Append(report[r], error)
      BY <2>1 DEF ReportTyped
    <3>2. report'[r][1] = error
      BY <1>1, <1>3, <3>1 DEF ReportTyped
    <3>3. <<"ok">>[1] = "ok"
      OBVIOUS
    <3> QED BY <1>3, <3>2, <3>3
  <2>2. CASE r # q
    BY <1>3, <2>2 DEF ReportTyped
  <2> QED BY <2>1, <2>2
<1> QED BY <1>2, <1>3 DEF Succeeds

LEMMA NothingReported == UNCHANGED report => ~Succeeds
<1>1. <<"ok">> # <<>>
  <2>1. Len(<<"ok">>) = 1 /\ Len(<<>>) = 0
    OBVIOUS
  <2> QED BY <2>1
<1> QED BY <1>1 DEF Succeeds

LEMMA ResetReports ==
  ASSUME UpgradeInv, ReportTyped, NEW error \in Reports, ResetUpgrading(error)
  PROVE  ReportTyped' /\ (Succeeds => cur # None /\ error = "ok")
<1>1. CASE cur = None
  <2>1. UNCHANGED report
    BY <1>1 DEF ResetUpgrading
  <2> QED BY <2>1, NothingReported DEF ReportTyped
<1>2. CASE cur # None
  <2>1. cur \in Requests /\ report' = [report EXCEPT ![cur] = Append(@, error)]
    BY <1>2 DEF ResetUpgrading, UpgradeInv, UpgradeTyped
  <2> QED BY <1>2, <2>1, Reported
<1> QED BY <1>1, <1>2

LEMMA ReportNext ==
  ASSUME UpgradeInv, StoreInv, ReportTyped, [Next]_vars
  PROVE  ReportTyped' /\ (Succeeds /\ dups + lost + cmds = 0 => Stored)
<1>1. CASE HeadTimeout
  <2>1. Head(queue) \in Requests /\ report' = [report EXCEPT ![Head(queue)] = Append(@, "timeout")]
    BY <1>1 DEF HeadTimeout, HeadWaits, UpgradeInv, UpgradeTyped
  <2>2. "timeout" \in Reports /\ "timeout" # "ok"
    BY DEF Reports
  <2> QED BY <2>1, <2>2, Reported
<1>2. CASE RebootTimeout \/ RebootFails \/ SlaveAborts
  <2>1. PICK error \in {"timeout", "reboot", "download"} : ResetUpgrading(error)
    BY <1>2 DEF RebootTimeout, RebootFails, SlaveAborts
  <2> QED BY <2>1, ResetReports DEF Reports
<1>3. CASE SlaveFinishes
  <2>1. ResetUpgrading("ok") /\ Upgrading /\ Processed(TRUE).state = "finish"
    BY <1>3 DEF SlaveFinishes, SlaveRuns
  <2>2. dups + lost + cmds = 0 => Undisturbed
    BY DEF StoreInv, Undisturbed
  <2>3. Undisturbed => Stored
    BY <2>1, FinishedIsStored DEF StoreInv
  <2> QED BY <2>1, <2>2, <2>3, ResetReports DEF Reports
<1>4. CASE UNCHANGED report
  BY <1>4, NothingReported DEF ReportTyped
<1>5. HeadTimeout \/ RebootTimeout \/ RebootFails \/ SlaveAborts \/ SlaveFinishes \/ UNCHANGED report
  BY DEF Next, Request, HeadStarts, OtaRests, RebootSucceeds, ManagerDispatches, ManagerTimeout,
         ManagerRests, SlaveProcess, TimerExpires, ServerTakes, ServerRests, ClientEnds, ClientRests,
         PackTakes, ota, vars
<1> QED BY <1>1, <1>2, <1>3, <1>4, <1>5

LEMMA StoreInit == Init => StoreInv /\ ReportTyped
<1> SUFFICES ASSUME Init PROVE StoreInv /\ ReportTyped
  OBVIOUS
<1>1. ReportTyped
  BY DEF Init, ReportTyped
<1> QED BY <1>1 DEF Init, StoreInv, Upgrading

(* Whatever else comes while a pack is upgraded: if every announcement came   *)
(* once, no answer was lost and the manager sent nothing of its own, then an  *)
(* upgrade that is reported to have succeeded has stored every segment.       *)
THEOREM StoredWhenSucceeded == Spec => SuccessIsStored
<1>1. Init => UpgradeInv /\ StoreInv /\ ReportTyped
  BY UpgradeInit, StoreInit
<1>2. UpgradeInv /\ StoreInv /\ ReportTyped /\ [Next]_vars
        => /\ UpgradeInv' /\ StoreInv' /\ ReportTyped'
           /\ [Succeeds /\ dups + lost + cmds = 0 => Stored]_vars
  BY UpgradeNext, StoreNext, ReportNext
<1> QED BY <1>1, <1>2, PTL DEF Spec, SuccessIsStored
===========================================================================
