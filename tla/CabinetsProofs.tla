--------------------------- MODULE CabinetsProofs ---------------------------
(***************************************************************************)
(* Proofs about Cabinets, for every set of cabinets.                       *)
(***************************************************************************)
EXTENDS Cabinets, TLAPS

ThreadRecord == [at : Labels, cab : Cabs \cup {None}, by : Callers, then : Labels]
Fresher == {"start", "force", "poll", "idle"}

(* The inductive invariant.  A thread at work has a cabinet, the service does *)
(* a few things only, and where a thread goes on depends on who called.       *)
Well(t, r) ==
  /\ r.at \notin Fresher \cup {"crashed"} => r.cab \in Cabs
  /\ t = "service" =>
       r.at \in {"idle", "status", "connect", "finish", "failed", "gone", "blank"}
  /\ r.at \in {"status", "connect"} =>
       r.then \in (IF t = "service" THEN {"finish"} ELSE {"check2", "add"})
  /\ r.at \in {"reset", "gone", "blank"} =>
       r.then \in (IF t = "service" THEN {"idle"} ELSE {"start", "polled", "call"})

(* Where the holder of a mutex is. *)
HasCab(t, r) ==
  /\ r.at \in {"check1", "check2", "status", "connect", "add", "select", "deselect", "failed", "back"}
  /\ r.by \in {"forced", "door", "app"} /\ t # "service"
HasAsg(t, r) ==
  \/ r.at \in {"select", "deselect", "failed"}
  \/ t = "service" /\ r.at \in {"status", "connect", "finish"}
HasBp(r) == r.at \in {"gone", "blank"}

ThreadInv == \A t \in Threads : Well(t, thread[t])
CabLock == \A t \in Threads : lock["cab"] = t => HasCab(t, thread[t])
AsgLock == \A t \in Threads : /\ lock["asg"] = t <=> HasAsg(t, thread[t])
                              /\ lock["asg"] = t => thread[t].cab = assigning
BpLock  == \A t \in Threads : lock["bp"] = t => HasBp(thread[t])

(* Only the pack being assigned is without a serial number; and one that its  *)
(* cabinet does not show is being assigned or reset.                          *)
HasSn ==
  \A c \in Cabs : bp[c].status = "assigned" /\ ~bp[c].sn =>
    assigning = c /\ thread["service"].at \notin {"status", "connect", "finish"}

Resetting(r) == r.at \in {"gone", "blank", "reset"}
Resets(c) == \E t \in Threads : Resetting(thread[t]) /\ thread[t].cab = c

Shown ==
  \A c \in Cabs : bp[c].status = "assigned" /\ cab[c].pack = "none" =>
    (assigning = c /\ thread["service"].at # "finish") \/ Resets(c)

Told == \A c \in Cabs : cab[c].pack = "full" => c \in told

CabinetsInv ==
  /\ TypeOK /\ ThreadInv
  /\ CabLock /\ AsgLock /\ BpLock
  /\ HasSn /\ Shown /\ Told

-----------------------------------------------------------------------------
(* What a step does to the record of the thread that takes it, and only to it. *)
Moves(t, r) == thread' = [thread EXCEPT ![t] = r]

Record(l, c, b, k) == [at |-> l, cab |-> c, by |-> b, then |-> k]
Still(t, l) == Record(l, thread[t].cab, thread[t].by, thread[t].then)

LEMMA RecordFields ==
  ASSUME NEW l \in Labels, NEW c \in Cabs \cup {None}, NEW b \in Callers, NEW k \in Labels
  PROVE  /\ Record(l, c, b, k) \in ThreadRecord
         /\ Record(l, c, b, k).at = l /\ Record(l, c, b, k).cab = c
         /\ Record(l, c, b, k).by = b /\ Record(l, c, b, k).then = k
BY DEF ThreadRecord, Record

LEMMA Fields ==
  ASSUME TypeOK
  PROVE  /\ thread \in [Threads -> ThreadRecord]
         /\ \A t \in Threads : /\ thread[t] \in ThreadRecord
                               /\ thread[t].at \in Labels /\ thread[t].cab \in Cabs \cup {None}
                               /\ thread[t].by \in Callers /\ thread[t].then \in Labels
BY DEF TypeOK, ThreadRecord

LEMMA StillFields ==
  ASSUME TypeOK, NEW t \in Threads, NEW l \in Labels
  PROVE  /\ Still(t, l) \in ThreadRecord
         /\ Still(t, l).at = l /\ Still(t, l).cab = thread[t].cab
         /\ Still(t, l).by = thread[t].by /\ Still(t, l).then = thread[t].then
BY Fields, RecordFields DEF Still

LEMMA FreshFields ==
  ASSUME NEW l \in Labels
  PROVE  Fresh(l) \in ThreadRecord /\ Fresh(l).at = l /\ Fresh(l).cab = None
BY DEF ThreadRecord, Fresh, Callers, Labels

LEMMA GoesStill ==
  ASSUME TypeOK, NEW t \in Threads, NEW l \in Labels \ Fresher, Goes(t, l)
  PROVE  Moves(t, Still(t, l))
<1>1. thread \in [Threads -> ThreadRecord] /\ thread[t] \in ThreadRecord
  BY Fields
<1> DEFINE r == Still(t, l)
<1>2. r = [thread[t] EXCEPT !.at = l]
  BY <1>1 DEF ThreadRecord, Still, Record
<1>3. thread' = [thread EXCEPT ![t] = [thread[t] EXCEPT !.at = l]]
  BY <1>1 DEF Goes, Fresher
<1> QED BY <1>2, <1>3 DEF Moves

LEMMA GoesFresh ==
  ASSUME NEW t \in Threads, NEW l \in Fresher, Goes(t, l)
  PROVE  Moves(t, Fresh(l))
BY DEF Goes, Fresher, Moves

LEMMA PutsMoves ==
  ASSUME NEW t, NEW l, NEW c, NEW b, NEW k, Puts(t, l, c, b, k)
  PROVE  Moves(t, Record(l, c, b, k))
BY DEF Puts, Moves, Record

LEMMA Moved ==
  ASSUME TypeOK, NEW t \in Threads, NEW r \in ThreadRecord, Moves(t, r)
  PROVE  /\ thread' \in [Threads -> ThreadRecord] /\ thread'[t] = r
         /\ \A u \in Threads : u # t => thread'[u] = thread[u]
BY Fields DEF Moves

(* What a step has to show of the thread that takes it. *)
LEMMA ThreadStep ==
  ASSUME TypeOK, ThreadInv, NEW t \in Threads, NEW r \in ThreadRecord, Moves(t, r), Well(t, r)
  PROVE  ThreadInv'
<1>1. SUFFICES ASSUME NEW u \in Threads PROVE Well(u, thread'[u])
  BY DEF ThreadInv
<1> QED BY Moved DEF ThreadInv

LEMMA CabStep ==
  ASSUME TypeOK, CabLock, NEW t \in Threads, NEW r \in ThreadRecord, Moves(t, r),
         lock'["cab"] \in {lock["cab"], t, None}, lock'["cab"] = t => HasCab(t, r)
  PROVE  CabLock'
<1>1. \A u \in Threads : lock'["cab"] = u => HasCab(u, thread'[u])
  BY Moved, CabinetsAssumption DEF CabLock
<1> QED BY <1>1 DEF CabLock

LEMMA BpStep ==
  ASSUME TypeOK, BpLock, NEW t \in Threads, NEW r \in ThreadRecord, Moves(t, r),
         lock'["bp"] \in {lock["bp"], t, None}, lock'["bp"] = t => HasBp(r)
  PROVE  BpLock'
<1>1. \A u \in Threads : lock'["bp"] = u => HasBp(thread'[u])
  BY Moved, CabinetsAssumption DEF BpLock
<1> QED BY <1>1 DEF BpLock

LEMMA AsgKept ==
  ASSUME TypeOK, AsgLock, NEW t \in Threads, NEW r \in ThreadRecord, Moves(t, r),
         lock'["asg"] = lock["asg"], assigning' = assigning,
         HasAsg(t, r) <=> HasAsg(t, thread[t]), HasAsg(t, r) => r.cab = thread[t].cab
  PROVE  AsgLock'
<1>1. \A u \in Threads : /\ lock'["asg"] = u <=> HasAsg(u, thread'[u])
                         /\ lock'["asg"] = u => thread'[u].cab = assigning'
  BY Moved DEF AsgLock
<1> QED BY <1>1 DEF AsgLock

LEMMA AsgTaken ==
  ASSUME TypeOK, AsgLock, NEW t \in Threads, NEW r \in ThreadRecord, Moves(t, r),
         lock["asg"] = None, lock'["asg"] = t, HasAsg(t, r), r.cab = assigning'
  PROVE  AsgLock'
<1>1. \A u \in Threads : /\ lock'["asg"] = u <=> HasAsg(u, thread'[u])
                         /\ lock'["asg"] = u => thread'[u].cab = assigning'
  BY Moved, CabinetsAssumption DEF AsgLock
<1> QED BY <1>1 DEF AsgLock

LEMMA AsgGiven ==
  ASSUME TypeOK, AsgLock, NEW t \in Threads, NEW r \in ThreadRecord, Moves(t, r),
         lock["asg"] = t, lock'["asg"] = None, ~HasAsg(t, r)
  PROVE  AsgLock'
<1>1. \A u \in Threads : /\ lock'["asg"] = u <=> HasAsg(u, thread'[u])
                         /\ lock'["asg"] = u => thread'[u].cab = assigning'
  BY Moved, CabinetsAssumption DEF AsgLock
<1> QED BY <1>1 DEF AsgLock

(* A reset goes on unless its own thread leaves it. *)
LEMMA ResetsElse ==
  ASSUME TypeOK, NEW t \in Threads, NEW r \in ThreadRecord, Moves(t, r),
         NEW c \in Cabs, Resets(c), thread[t].cab # c
  PROVE  Resets(c)'
<1>1. PICK u \in Threads : Resetting(thread[u]) /\ thread[u].cab = c
  BY DEF Resets
<1>2. thread'[u] = thread[u]
  BY <1>1, Moved
<1> QED BY <1>1, <1>2 DEF Resets

LEMMA ResetsKept ==
  ASSUME TypeOK, NEW t \in Threads, NEW r \in ThreadRecord, Moves(t, r),
         NEW c \in Cabs, Resets(c),
         Resetting(thread[t]) => Resetting(r) /\ r.cab = thread[t].cab
  PROVE  Resets(c)'
<1>1. PICK u \in Threads : Resetting(thread[u]) /\ thread[u].cab = c
  BY DEF Resets
<1>2. Resetting(thread'[u]) /\ thread'[u].cab = c
  BY <1>1, Moved
<1> QED BY <1>2 DEF Resets

-----------------------------------------------------------------------------
Forces == [on : BOOLEAN, cab : Cabs \cup {None}, count : -1..1]

LEMMA ForceFields ==
  ASSUME TypeOK
  PROVE  /\ NoForce \in Forces /\ force \in Forces
         /\ [force EXCEPT !.count = Less(@)] \in Forces
<1>1. force \in Forces /\ force.count \in -1..1 /\ NoForce \in Forces
  BY DEF TypeOK, Forces, NoForce
<1>2. Less(force.count) \in -1..1
  BY <1>1 DEF Less
<1> QED BY <1>1, <1>2 DEF Forces

LEMMA ForceTyped ==
  ASSUME TypeOK, StatusChanged
  PROVE  wait' \in BOOLEAN /\ force' \in Forces
BY ForceFields DEF StatusChanged, Counted

(* A step of a thread, not the service's, that leaves packs and cabinets alone. *)
LEMMA QuietStep ==
  ASSUME CabinetsInv, NEW t \in Threads, t # "service", NEW r \in ThreadRecord, Moves(t, r), Well(t, r),
         lock' \in [Locks -> Threads \cup {None}], wait' \in BOOLEAN, force' \in Forces,
         calls' \in 0..CallMax, UNCHANGED records,
         lock'["cab"] \in {lock["cab"], t, None}, lock'["cab"] = t => HasCab(t, r),
         lock'["asg"] = lock["asg"], lock'["bp"] = lock["bp"],
         HasAsg(t, r) <=> HasAsg(t, thread[t]), HasAsg(t, r) => r.cab = thread[t].cab,
         ~Resetting(thread[t])
  PROVE  CabinetsInv'
<1> USE DEF CabinetsInv
<1>1. TypeOK'
  BY Moved DEF TypeOK, Forces, records, ThreadRecord
<1>2. ThreadInv' /\ CabLock'
  BY ThreadStep, CabStep
<1>3. AsgLock'
  BY AsgKept DEF records
<1>4. BpLock'
  BY BpStep DEF BpLock, HasBp, Resetting
<1>5. HasSn' /\ Told'
  BY Moved DEF HasSn, Told, records, Threads
<1>6. Shown'
  <2>1. SUFFICES ASSUME NEW c \in Cabs, bp[c].status = "assigned", cab[c].pack = "none", ~Resets(c)
                 PROVE  assigning = c /\ thread'["service"].at # "finish"
    BY ResetsKept DEF Shown, records
  <2> QED BY <2>1, Moved DEF Shown, Threads
<1> QED BY <1>1, <1>2, <1>3, <1>4, <1>5, <1>6

LEMMA StatusStep ==
  ASSUME CabinetsInv, NEW t \in Threads, Status(t)
  PROVE  CabinetsInv'
<1> USE DEF CabinetsInv
<1> DEFINE next == IF bp[thread[t].cab].sn THEN "connect" ELSE thread[t].then
           r == Still(t, next)
<1>1. /\ thread[t].at = "status" /\ thread[t].cab \in Cabs
      /\ thread[t].then \in (IF t = "service" THEN {"finish"} ELSE {"check2", "add"})
      /\ next \in {"connect", thread[t].then} /\ (~bp[thread[t].cab].sn => next = thread[t].then)
      /\ (next # "connect" => ~bp[thread[t].cab].sn)
  BY DEF Status, At, ThreadInv, Well, Fresher
<1>2. Goes(t, next) /\ UNCHANGED <<lock, calls, records>> /\ Free("cab")
  BY DEF Status, StatusChanged
<1> HIDE DEF next
<1>3. next \in Labels \ Fresher
  BY <1>1 DEF Labels, Fresher
<1>4. /\ r \in ThreadRecord /\ Moves(t, r) /\ r.at = next /\ r.cab = thread[t].cab
      /\ r.by = thread[t].by /\ r.then = thread[t].then
  BY <1>2, <1>3, StillFields, GoesStill
<1> HIDE DEF r
<1>5. TypeOK'
  BY <1>2, <1>4, Moved, ForceTyped DEF TypeOK, Forces, Status, records, ThreadRecord
<1>6. ThreadInv'
  BY <1>1, <1>4, ThreadStep DEF Well, Fresher
<1>7. CabLock' /\ AsgLock' /\ BpLock'
  <2>1. lock' = lock /\ assigning' = assigning
    BY <1>2 DEF records
  <2>2. HasAsg(t, r) <=> HasAsg(t, thread[t])
    BY <1>1, <1>4 DEF HasAsg
  <2>3. lock["cab"] # t
    BY <1>2, CabinetsAssumption DEF Free
  <2>4. lock["bp"] # t
    BY <1>1 DEF BpLock, HasBp
  <2> QED BY <1>4, <2>1, <2>2, <2>3, <2>4, CabStep, AsgKept, BpStep
<1>8. HasSn'
  BY <1>1, <1>2, <1>4, Moved DEF HasSn, records, Threads
<1>9. Shown'
  <2>1. SUFFICES ASSUME NEW c \in Cabs, bp[c].status = "assigned", cab[c].pack = "none", ~Resets(c)
                 PROVE  assigning = c /\ thread'["service"].at # "finish"
    BY <1>1, <1>2, <1>4, ResetsKept DEF Shown, records, Resetting
  <2> QED BY <2>1, <1>1, <1>4, Moved DEF Shown, HasSn, AsgLock, HasAsg, Threads
<1>10. Told'
  BY <1>2 DEF Told, records
<1> QED BY <1>5, <1>6, <1>7, <1>8, <1>9, <1>10

LEMMA CheckStep ==
  ASSUME CabinetsInv, NEW t \in Threads, NEW label \in {"check1", "check2"}, NEW next \in {"check2", "add"},
         CheckAt(t, label, next)
  PROVE  CabinetsInv'
<1> USE DEF CabinetsInv
<1> DEFINE to == IF bp[thread[t].cab].status = "assigned" THEN "status" ELSE next
           r == Record(to, thread[t].cab, thread[t].by, next)
<1>1. /\ thread[t].at = label /\ thread[t].cab \in Cabs /\ t # "service"
      /\ UNCHANGED <<lock, calls, wait, force, records>> /\ to \in {"status", next}
  BY DEF CheckAt, At, ThreadInv, Well, Fresher
<1>2. Puts(t, to, thread[t].cab, thread[t].by, next)
  BY DEF CheckAt
<1> HIDE DEF to
<1>3. /\ r \in ThreadRecord /\ r.at = to /\ r.cab = thread[t].cab /\ r.by = thread[t].by /\ r.then = next
  <2>1. to \in Labels /\ next \in Labels
    BY <1>1 DEF Labels
  <2>2. thread[t].cab \in Cabs \cup {None} /\ thread[t].by \in Callers
    BY Fields
  <2> QED BY <2>1, <2>2, RecordFields
<1>4. Moves(t, r)
  BY <1>2, PutsMoves
<1> HIDE DEF r
<1>5. Well(t, r)
  BY <1>1, <1>3 DEF Well, Fresher
<1>6. lock["cab"] = t => HasCab(t, r)
  BY <1>1, <1>3 DEF CabLock, HasCab
<1>7. ~HasAsg(t, r) /\ ~HasAsg(t, thread[t]) /\ ~Resetting(thread[t])
  BY <1>1, <1>3 DEF HasAsg, Resetting
<1> QED BY <1>1, <1>3, <1>4, <1>5, <1>6, <1>7, QuietStep, ForceFields DEF TypeOK

LEMMA DeselectStep ==
  ASSUME CabinetsInv, NEW t \in Threads, Deselect(t)
  PROVE  CabinetsInv'
<1> USE DEF CabinetsInv
<1>1. /\ thread[t].at = "deselect" /\ t # "service" /\ lock["asg"] = t /\ thread[t].cab \in Cabs
      /\ UNCHANGED <<calls, wait, force, records>>
  BY DEF Deselect, At, ThreadInv, Well, AsgLock, HasAsg, Fresher
<1>2. ASSUME NEW l \in {"back", "failed"}, Goes(t, l)
      PROVE  /\ Still(t, l) \in ThreadRecord /\ Moves(t, Still(t, l))
             /\ Still(t, l).at = l /\ Still(t, l).cab = thread[t].cab
             /\ Well(t, Still(t, l)) /\ (lock["cab"] = t => HasCab(t, Still(t, l)))
  <2>1. l \in Labels \ Fresher
    BY DEF Labels, Fresher
  <2>2. /\ Still(t, l) \in ThreadRecord /\ Moves(t, Still(t, l)) /\ Still(t, l).at = l
        /\ Still(t, l).cab = thread[t].cab /\ Still(t, l).by = thread[t].by
    BY <2>1, <1>2, StillFields, GoesStill
  <2> QED BY <2>2, <1>1 DEF Well, CabLock, HasCab, Fresher
<1>3. CASE Goes(t, "failed") /\ UNCHANGED lock
  <2>1. HasAsg(t, Still(t, "failed")) /\ HasAsg(t, thread[t]) /\ ~Resetting(thread[t])
    BY <1>1, <1>2, <1>3 DEF HasAsg, Resetting
  <2> QED BY <1>1, <1>2, <1>3, <2>1, QuietStep, ForceFields DEF TypeOK
<1>4. CASE Goes(t, "back") /\ lock' = [lock EXCEPT !["asg"] = None]
  <2> DEFINE r == Still(t, "back")
  <2>1. /\ r \in ThreadRecord /\ Moves(t, r) /\ r.at = "back" /\ Well(t, r) /\ (lock["cab"] = t => HasCab(t, r))
    BY <1>2, <1>4
  <2> HIDE DEF r
  <2>2. /\ lock' \in [Locks -> Threads \cup {None}]
        /\ lock'["asg"] = None /\ lock'["cab"] = lock["cab"] /\ lock'["bp"] = lock["bp"]
    BY <1>4 DEF TypeOK, Locks
  <2>3. TypeOK'
    BY <1>1, <2>1, <2>2, Moved DEF TypeOK, records, ThreadRecord
  <2>4. ThreadInv' /\ CabLock'
    BY <2>1, <2>2, ThreadStep, CabStep
  <2>5. AsgLock'
    BY <1>1, <2>1, <2>2, AsgGiven DEF HasAsg
  <2>6. BpLock'
    BY <1>1, <2>1, <2>2, BpStep DEF BpLock, HasBp
  <2>7. HasSn' /\ Told' /\ thread'["service"] = thread["service"]
    BY <1>1, <2>1, Moved DEF HasSn, Told, records, Threads
  <2>8. Shown'
    <3>1. \A c \in Cabs : Resets(c) => Resets(c)'
      BY <1>1, <2>1, ResetsKept DEF Resetting
    <3> QED BY <1>1, <2>7, <3>1 DEF Shown, records
  <2> QED BY <2>3, <2>4, <2>5, <2>6, <2>7, <2>8
<1> QED BY <1>3, <1>4 DEF Deselect

LEMMA AssignBpStep ==
  ASSUME CabinetsInv, NEW t \in Threads, AssignBp(t)
  PROVE  CabinetsInv'
<1> USE DEF CabinetsInv
<1>1. /\ thread[t].at = "call" /\ t # "service" /\ thread[t].cab \in Cabs /\ Free("cab")
      /\ UNCHANGED <<calls, wait, records>>
      /\ ~HasAsg(t, thread[t]) /\ ~Resetting(thread[t])
  BY DEF AssignBp, At, Takes, ThreadInv, Well, HasAsg, Resetting, Fresher
<1>2. CASE Goes(t, AfterCall(t)) /\ UNCHANGED <<lock, force>>
  <2>1. CASE t = "station"
    <3>1. "polled" \in Labels \ Fresher /\ Goes(t, "polled")
      BY <1>2, <2>1 DEF Labels, Fresher, AfterCall
    <3> DEFINE r == Still(t, "polled")
    <3>2. r \in ThreadRecord /\ Moves(t, r) /\ r.at = "polled" /\ r.cab = thread[t].cab
      BY <3>1, StillFields, GoesStill
    <3> HIDE DEF r
    <3>3. Well(t, r) /\ ~HasAsg(t, r) /\ lock["cab"] # t
      BY <1>1, <3>2, CabinetsAssumption DEF Well, HasAsg, Free
    <3> QED BY <1>1, <1>2, <3>2, <3>3, QuietStep, ForceFields DEF TypeOK
  <2>2. CASE t # "station"
    <3>1. "idle" \in Labels /\ "idle" \in Fresher /\ Goes(t, "idle")
      BY <1>2, <2>2 DEF Labels, Fresher, AfterCall
    <3> DEFINE r == Fresh("idle")
    <3>2. r \in ThreadRecord /\ Moves(t, r) /\ r.at = "idle"
      BY <3>1, FreshFields, GoesFresh
    <3> HIDE DEF r
    <3>3. Well(t, r) /\ ~HasAsg(t, r) /\ lock["cab"] # t
      BY <1>1, <3>2, CabinetsAssumption DEF Well, HasAsg, Free, Fresher
    <3> QED BY <1>1, <1>2, <3>2, <3>3, QuietStep, ForceFields DEF TypeOK
  <2> QED BY <2>1, <2>2
<1>3. CASE /\ Takes(t, "cab")
           /\ force' = [on |-> TRUE, cab |-> thread[t].cab, count |-> Attempts(IF t = "station" THEN 2 ELSE 1)]
           /\ Puts(t, "check1", thread[t].cab, IF t = "station" THEN "door" ELSE "app", "idle")
  <2> DEFINE by == IF t = "station" THEN "door" ELSE "app"
             r == Record("check1", thread[t].cab, by, "idle")
  <2>1. /\ lock' = [lock EXCEPT !["cab"] = t] /\ Puts(t, "check1", thread[t].cab, by, "idle")
        /\ force' = [on |-> TRUE, cab |-> thread[t].cab, count |-> Attempts(IF t = "station" THEN 2 ELSE 1)]
    BY <1>3 DEF AssignBp, Takes
  <2>2. by \in {"door", "app"}
    OBVIOUS
  <2> HIDE DEF by
  <2>3. by \in Callers /\ "check1" \in Labels /\ "idle" \in Labels
    BY <2>2 DEF Callers, Labels
  <2>4. /\ r \in ThreadRecord /\ Moves(t, r) /\ r.at = "check1" /\ r.cab = thread[t].cab /\ r.by = by
    BY <1>1, <2>1, <2>3, RecordFields, PutsMoves
  <2> HIDE DEF r
  <2>5. Well(t, r) /\ ~HasAsg(t, r) /\ HasCab(t, r)
    BY <1>1, <2>2, <2>4 DEF Well, HasAsg, HasCab
  <2>6. force' \in Forces
    BY <1>1, <2>1 DEF Forces, Attempts
  <2>7. /\ lock' \in [Locks -> Threads \cup {None}]
        /\ lock'["asg"] = lock["asg"] /\ lock'["cab"] = t /\ lock'["bp"] = lock["bp"]
    BY <2>1 DEF TypeOK, Locks
  <2>8. wait' \in BOOLEAN /\ calls' \in 0..CallMax /\ UNCHANGED records
    BY <1>1 DEF TypeOK
  <2> QED BY <1>1, <2>4, <2>5, <2>6, <2>7, <2>8, QuietStep
<1> QED BY <1>2, <1>3 DEF AssignBp

LEMMA BackStep ==
  ASSUME CabinetsInv, NEW t \in Threads, Back(t)
  PROVE  CabinetsInv'
<1> USE DEF CabinetsInv
<1>1. /\ thread[t].at = "back" /\ t # "service" /\ thread[t].cab \in Cabs
      /\ lock' = [lock EXCEPT !["cab"] = None] /\ Goes(t, AfterCall(t))
      /\ UNCHANGED <<calls, wait, force, records>>
      /\ ~HasAsg(t, thread[t]) /\ ~Resetting(thread[t])
  BY DEF Back, At, ThreadInv, Well, HasAsg, Resetting, Fresher
<1>2. /\ lock' \in [Locks -> Threads \cup {None}]
      /\ lock'["asg"] = lock["asg"] /\ lock'["cab"] = None /\ lock'["bp"] = lock["bp"]
  BY <1>1 DEF TypeOK, Locks
<1>3. PICK r \in ThreadRecord : Moves(t, r) /\ r.at \in {"polled", "idle"} /\ (r.at = "polled" => r.cab = thread[t].cab)
  <2>1. "polled" \in Labels \ Fresher /\ "idle" \in Labels /\ "idle" \in Fresher
    BY DEF Labels, Fresher
  <2>2. CASE t = "station"
    BY <1>1, <2>1, <2>2, StillFields, GoesStill DEF AfterCall
  <2>3. CASE t # "station"
    BY <1>1, <2>1, <2>3, FreshFields, GoesFresh DEF AfterCall
  <2> QED BY <2>2, <2>3
<1>4. Well(t, r) /\ ~HasAsg(t, r)
  BY <1>1, <1>3 DEF Well, HasAsg, Fresher
<1> QED BY <1>1, <1>2, <1>3, <1>4, QuietStep, ForceFields, CabinetsAssumption DEF TypeOK

(* A thread that is done, or begins: it has let go of what it held.           *)
LEMMA FreshStep ==
  ASSUME CabinetsInv, NEW t \in Threads, t # "service", NEW l \in Fresher, Goes(t, l),
         thread[t].at \notin {"select", "deselect", "failed", "reset", "gone", "blank"},
         lock' \in {lock, [lock EXCEPT !["cab"] = None]}, lock'["cab"] # t,
         wait' \in BOOLEAN, force' \in Forces, UNCHANGED <<calls, records>>
  PROVE  CabinetsInv'
<1> USE DEF CabinetsInv
<1> DEFINE r == Fresh(l)
<1>1. l \in Labels
  BY DEF Labels, Fresher
<1>2. r \in ThreadRecord /\ r.at = l /\ Moves(t, r)
  BY <1>1, FreshFields, GoesFresh
<1> HIDE DEF r
<1>3. Well(t, r) /\ ~HasAsg(t, r)
  BY <1>2 DEF Well, HasAsg, Fresher
<1>4. ~HasAsg(t, thread[t]) /\ ~Resetting(thread[t])
  BY DEF HasAsg, Resetting
<1>5. /\ lock' \in [Locks -> Threads \cup {None}] /\ calls' \in 0..CallMax
      /\ lock'["asg"] = lock["asg"] /\ lock'["bp"] = lock["bp"] /\ lock'["cab"] \in {lock["cab"], t, None}
  BY DEF TypeOK, Locks
<1> QED BY <1>2, <1>3, <1>4, <1>5, QuietStep

(* A thread that begins something for a cabinet, with the cabinets' lock or without. *)
LEMMA BeginStep ==
  ASSUME CabinetsInv, NEW t \in Threads, t # "service", NEW l \in {"check1", "call"}, NEW c \in Cabs,
         NEW b \in Callers, Puts(t, l, c, b, "idle"),
         thread[t].at \notin {"select", "deselect", "failed", "reset", "gone", "blank"},
         \/ lock' = lock /\ lock["cab"] # t
         \/ lock' = [lock EXCEPT !["cab"] = t] /\ l = "check1" /\ b \in {"forced", "door", "app"},
         calls' \in 0..CallMax, UNCHANGED <<wait, force, records>>
  PROVE  CabinetsInv'
<1> USE DEF CabinetsInv
<1> DEFINE r == Record(l, c, b, "idle")
<1>1. l \in Labels /\ "idle" \in Labels
  BY DEF Labels
<1>2. r \in ThreadRecord /\ r.at = l /\ r.cab = c /\ r.by = b /\ Moves(t, r)
  BY <1>1, RecordFields, PutsMoves
<1> HIDE DEF r
<1>3. Well(t, r) /\ ~HasAsg(t, r)
  BY <1>2 DEF Well, HasAsg
<1>4. ~HasAsg(t, thread[t]) /\ ~Resetting(thread[t])
  BY DEF HasAsg, Resetting
<1>5. /\ lock' \in [Locks -> Threads \cup {None}]
      /\ lock'["asg"] = lock["asg"] /\ lock'["bp"] = lock["bp"] /\ lock'["cab"] \in {lock["cab"], t, None}
      /\ lock'["cab"] = t => HasCab(t, r)
  BY <1>2 DEF TypeOK, Locks, HasCab
<1>6. wait' \in BOOLEAN /\ force' \in Forces
  BY ForceFields DEF TypeOK
<1> QED BY <1>2, <1>3, <1>4, <1>5, <1>6, QuietStep

LEMMA StationStep ==
  ASSUME CabinetsInv,
         \/ ForceStart \/ ForceGone \/ ForceAssigned \/ ForceAgain \/ ForceBack
         \/ Scan \/ AutoBack \/ Waiting \/ PollNothing
  PROVE  CabinetsInv'
<1> USE DEF CabinetsInv
<1> DEFINE here == thread["station"]
<1>1. "station" \in Threads /\ (lock["cab"] = "station" => HasCab("station", here))
  BY DEF Threads, CabLock
<1>2. wait \in BOOLEAN /\ force \in Forces /\ NoForce \in Forces /\ [force EXCEPT !.count = Less(@)] \in Forces
  BY ForceFields DEF TypeOK
<1>3. {"start", "force", "poll"} \subseteq Fresher
  BY DEF Fresher
<1>4. here.at \in {"start", "force"} => lock["cab"] # "station"
  BY <1>1 DEF HasCab
<1>5. CASE ForceStart
  BY <1>1, <1>2, <1>3, <1>4, <1>5, FreshStep DEF ForceStart, At
<1>6. CASE ForceGone
  <2> DEFINE r == Still("station", "crashed")
  <2>1. "crashed" \in Labels \ Fresher
    BY DEF Labels, Fresher
  <2>2. r \in ThreadRecord /\ r.at = "crashed" /\ Moves("station", r)
    BY <1>1, <1>6, <2>1, StillFields, GoesStill DEF ForceGone
  <2> HIDE DEF r
  <2>3. Well("station", r) /\ ~HasAsg("station", r)
    BY <2>2 DEF Well, HasAsg
  <2>4. ~HasAsg("station", here) /\ ~Resetting(here) /\ lock["cab"] # "station"
    BY <1>4, <1>6 DEF ForceGone, At, HasAsg, Resetting
  <2>5. /\ UNCHANGED <<lock, calls, wait, force, records>>
        /\ lock \in [Locks -> Threads \cup {None}] /\ calls \in 0..CallMax
    BY <1>6 DEF ForceGone, TypeOK
  <2> QED BY <1>1, <1>2, <2>2, <2>3, <2>4, <2>5, QuietStep
<1>7. CASE ForceAssigned
  BY <1>1, <1>2, <1>3, <1>4, <1>7, FreshStep DEF ForceAssigned, At
<1>8. CASE ForceAgain
  <2>1. force.cab \in Cabs /\ "forced" \in Callers /\ calls \in 0..CallMax
    BY <1>8 DEF ForceAgain, TypeOK, Callers
  <2> QED BY <1>1, <1>8, <2>1, BeginStep DEF ForceAgain, At, Takes
<1>9. CASE ForceBack
  <2>1. force' \in Forces /\ wait' \in BOOLEAN /\ lock' = [lock EXCEPT !["cab"] = None]
    BY <1>2, <1>9 DEF ForceBack
  <2>2. lock'["cab"] # "station"
    BY <1>1, <2>1, CabinetsAssumption DEF TypeOK, Locks
  <2> QED BY <1>1, <1>3, <1>9, <2>1, <2>2, FreshStep DEF ForceBack, At
<1>10. CASE Scan
  <2>1. here.at = "start" /\ UNCHANGED <<lock, calls, wait, force, records>> /\ calls \in 0..CallMax
    BY <1>10 DEF Scan, At, TypeOK
  <2>2. CASE Goes("station", "poll")
    BY <1>1, <1>2, <1>3, <1>4, <2>1, <2>2, FreshStep
  <2>3. ASSUME NEW c \in Cabs, Puts("station", "check1", c, "auto", "idle") PROVE CabinetsInv'
    BY <1>1, <1>4, <2>1, <2>3, BeginStep DEF Callers
  <2> QED BY <1>10, <2>2, <2>3 DEF Scan
<1>11. CASE AutoBack
  BY <1>1, <1>2, <1>3, <1>11, FreshStep, CabinetsAssumption DEF AutoBack, At, Free
<1>12. CASE Waiting
  BY <1>1, <1>2, <1>3, <1>4, <1>12, FreshStep DEF Waiting, At
<1>13. CASE PollNothing
  BY <1>1, <1>2, <1>3, <1>13, FreshStep DEF PollNothing, At, HasCab
<1> QED BY <1>5, <1>6, <1>7, <1>8, <1>9, <1>10, <1>11, <1>12, <1>13

LEMMA CallAssignStep ==
  ASSUME CabinetsInv, CallAssign
  PROVE  CabinetsInv'
<1> USE DEF CabinetsInv
<1>1. /\ "app" \in Threads /\ thread["app"].at = "idle" /\ lock["cab"] # "app" /\ calls' \in 0..CallMax
      /\ UNCHANGED <<lock, wait, force, records>>
  BY CabinetsAssumption DEF CallAssign, At, Threads, CabLock, HasCab, TypeOK
<1>2. PICK c \in Cabs : Puts("app", "call", c, "none", "idle")
  BY DEF CallAssign
<1> QED BY <1>1, <1>2, BeginStep DEF Callers

LEMMA LockUpdate ==
  ASSUME TypeOK, NEW l \in Locks, NEW v \in Threads \cup {None}, lock' = [lock EXCEPT ![l] = v]
  PROVE  /\ lock' \in [Locks -> Threads \cup {None}] /\ lock'[l] = v
         /\ \A m \in Locks : m # l => lock'[m] = lock[m]
BY DEF TypeOK

LEMMA PackUpdate ==
  ASSUME TypeOK, NEW c \in Cabs, NEW p \in {"none", "flat", "full"}, cab' = [cab EXCEPT ![c].pack = p]
  PROVE  /\ cab' \in [Cabs -> [connected : BOOLEAN, closed : BOOLEAN, pack : {"none", "flat", "full"}]]
         /\ cab'[c].pack = p /\ \A d \in Cabs : d # c => cab'[d] = cab[d]
BY DEF TypeOK

LEMMA BpFields ==
  ASSUME TypeOK, NEW c \in Cabs
  PROVE  bp[c].status \in {"off", "assigning", "assigned"} /\ bp[c].sn \in BOOLEAN
BY DEF TypeOK

LEMMA StatusUpdate ==
  ASSUME TypeOK, NEW c \in Cabs, NEW s \in {"off", "assigning", "assigned"},
         bp' = [bp EXCEPT ![c].status = s]
  PROVE  /\ bp' \in [Cabs -> [status : {"off", "assigning", "assigned"}, sn : BOOLEAN]]
         /\ bp'[c].status = s /\ bp'[c].sn = bp[c].sn /\ \A d \in Cabs : d # c => bp'[d] = bp[d]
BY DEF TypeOK

LEMMA BlankUpdate ==
  ASSUME TypeOK, NEW c \in Cabs, bp' = [bp EXCEPT ![c] = Blank]
  PROVE  /\ bp' \in [Cabs -> [status : {"off", "assigning", "assigned"}, sn : BOOLEAN]]
         /\ bp'[c].status = "off" /\ \A d \in Cabs : d # c => bp'[d] = bp[d]
BY DEF TypeOK, Blank

-----------------------------------------------------------------------------
(* The steps that announce a pack, assign it or reset it. *)
LEMMA ConnectStep ==
  ASSUME CabinetsInv, NEW t \in Threads, Connect(t)
  PROVE  CabinetsInv'
<1> USE DEF CabinetsInv
<1> DEFINE c == thread[t].cab
           next == thread[t].then
           r == Still(t, next)
<1>1. /\ thread[t].at = "connect" /\ c \in Cabs /\ next \in Labels \ Fresher
      /\ next \in (IF t = "service" THEN {"finish"} ELSE {"check2", "add"})
  BY DEF Connect, At, ThreadInv, Well, Fresher, Labels
<1>2. /\ Free("cab") /\ wait' = FALSE /\ force' \in {force, NoForce} /\ Goes(t, next)
      /\ UNCHANGED <<lock, calls, bp, assigning>> /\ crossed' \in SUBSET Cabs
  BY <1>1 DEF Connect, Connected, TypeOK
<1>3. PICK pack \in (IF bp[c].sn THEN Charge ELSE {"none"}) :
         /\ cab' = [cab EXCEPT ![c].pack = pack]
         /\ told' = IF pack = "full" THEN told \cup {c} ELSE told
  BY DEF Connect, Connected
<1>4. pack \in {"none", "flat", "full"} /\ (bp[c].sn => pack # "none") /\ (~bp[c].sn => pack = "none")
  BY <1>3 DEF Charge
<1>5. /\ cab' \in [Cabs -> [connected : BOOLEAN, closed : BOOLEAN, pack : {"none", "flat", "full"}]]
      /\ cab'[c].pack = pack /\ \A d \in Cabs : d # c => cab'[d] = cab[d]
  BY <1>1, <1>3, <1>4, PackUpdate
<1>6. /\ r \in ThreadRecord /\ Moves(t, r) /\ r.at = next /\ r.cab = c /\ r.by = thread[t].by
  BY <1>1, <1>2, StillFields, GoesStill
<1> HIDE DEF r
<1>7. TypeOK'
  <2>1. force' \in Forces /\ told' \subseteq Cabs
    BY <1>1, <1>2, <1>3, ForceFields DEF TypeOK
  <2> QED BY <2>1, <1>2, <1>5, <1>6, Moved DEF TypeOK, Forces, ThreadRecord
<1>8. ThreadInv'
  BY <1>1, <1>6, ThreadStep DEF Well
<1>9. CabLock' /\ AsgLock' /\ BpLock'
  <2>1. lock["cab"] # t /\ lock["bp"] # t
    BY <1>1, <1>2, CabinetsAssumption DEF Free, BpLock, HasBp
  <2>2. HasAsg(t, r) <=> HasAsg(t, thread[t])
    BY <1>1, <1>6 DEF HasAsg
  <2> QED BY <1>2, <1>6, <2>1, <2>2, CabStep, AsgKept, BpStep
<1>10. HasSn'
  BY <1>1, <1>2, <1>6, Moved DEF HasSn, Threads
<1>11. Shown'
  <2>1. SUFFICES ASSUME NEW d \in Cabs, bp[d].status = "assigned", cab'[d].pack = "none", ~Resets(d)
                 PROVE  assigning = d /\ thread'["service"].at # "finish"
    BY <1>1, <1>2, <1>6, ResetsKept DEF Shown, Resetting
  <2>2. CASE d = c
    BY <2>1, <2>2, <1>1, <1>4, <1>5, <1>6, Moved DEF HasSn, Threads
  <2>3. CASE d # c
    <3>1. assigning = d /\ thread["service"].at # "finish"
      BY <2>1, <2>3, <1>5 DEF Shown
    <3>2. t # "service"
      BY <2>3, <3>1, <1>1 DEF AsgLock, HasAsg
    <3> QED BY <3>1, <3>2, <1>6, Moved DEF Threads
  <2> QED BY <2>2, <2>3
<1>12. Told'
  BY <1>3, <1>4, <1>5 DEF Told
<1> QED BY <1>7, <1>8, <1>9, <1>10, <1>11, <1>12

LEMMA AddStep ==
  ASSUME CabinetsInv, NEW t \in Threads, Add(t)
  PROVE  CabinetsInv'
<1> USE DEF CabinetsInv
<1> DEFINE c == thread[t].cab
<1>1. /\ thread[t].at = "add" /\ c \in Cabs /\ t # "service"
      /\ UNCHANGED <<calls, wait, force, cab, told>> /\ crossed' \in SUBSET Cabs
  BY DEF Add, At, ThreadInv, Well, Fresher, TypeOK
<1>2. ~HasAsg(t, thread[t]) /\ ~Resetting(thread[t]) /\ (lock["cab"] = t => HasCab(t, thread[t])) /\ lock["bp"] # t
  BY <1>1 DEF HasAsg, Resetting, CabLock, BpLock, HasBp
<1>3. ASSUME NEW l \in {"back", "select"}, Goes(t, l)
      PROVE  /\ Still(t, l) \in ThreadRecord /\ Moves(t, Still(t, l))
             /\ Still(t, l).at = l /\ Still(t, l).cab = c
             /\ Well(t, Still(t, l)) /\ (lock["cab"] = t => HasCab(t, Still(t, l)))
  <2>1. l \in Labels \ Fresher
    BY DEF Labels, Fresher
  <2>2. /\ Still(t, l) \in ThreadRecord /\ Moves(t, Still(t, l)) /\ Still(t, l).at = l
        /\ Still(t, l).cab = c /\ Still(t, l).by = thread[t].by
    BY <2>1, <1>3, StillFields, GoesStill
  <2> QED BY <2>2, <1>1, <1>2 DEF Well, HasCab
<1>4. CASE Goes(t, "back") /\ UNCHANGED <<lock, bp, assigning>>
  <2> DEFINE r == Still(t, "back")
  <2>1. /\ r \in ThreadRecord /\ Moves(t, r) /\ r.at = "back" /\ Well(t, r) /\ (lock["cab"] = t => HasCab(t, r))
    BY <1>3, <1>4
  <2> HIDE DEF r
  <2>2. ~HasAsg(t, r)
    BY <1>1, <2>1 DEF HasAsg
  <2>3. TypeOK'
    BY <1>1, <1>4, <2>1, Moved DEF TypeOK, ThreadRecord
  <2>4. ThreadInv' /\ CabLock' /\ AsgLock' /\ BpLock'
    BY <1>2, <1>4, <2>1, <2>2, ThreadStep, CabStep, AsgKept, BpStep
  <2>5. HasSn' /\ Told' /\ thread'["service"] = thread["service"]
    BY <1>1, <1>4, <2>1, Moved DEF HasSn, Told, Threads
  <2>6. \A d \in Cabs : Resets(d) => Resets(d)'
    BY <1>2, <2>1, ResetsKept
  <2>7. Shown'
    BY <1>1, <1>4, <2>5, <2>6 DEF Shown
  <2> QED BY <2>3, <2>4, <2>5, <2>7
<1>5. CASE /\ Takes(t, "asg") /\ assigning' = c /\ Goes(t, "select")
           /\ bp' = [b \in Cabs |-> IF b = assigning THEN [bp[b] EXCEPT !.status = "off"] ELSE bp[b]]
  <2> DEFINE r == Still(t, "select")
  <2>1. /\ r \in ThreadRecord /\ Moves(t, r) /\ r.at = "select" /\ r.cab = c /\ Well(t, r)
        /\ (lock["cab"] = t => HasCab(t, r))
    BY <1>3, <1>5
  <2> HIDE DEF r
  <2>2. /\ lock' \in [Locks -> Threads \cup {None}] /\ lock["asg"] = None /\ lock'["asg"] = t
        /\ lock'["cab"] = lock["cab"] /\ lock'["bp"] = lock["bp"]
    BY <1>5, LockUpdate DEF Takes, Free, Locks
  <2>3. /\ bp' \in [Cabs -> [status : {"off", "assigning", "assigned"}, sn : BOOLEAN]]
        /\ \A b \in Cabs : bp'[b].sn = bp[b].sn /\ (bp'[b].status = "assigned" => bp[b].status = "assigned" /\ b # assigning)
    BY <1>5 DEF TypeOK
  <2>4. TypeOK'
    BY <1>1, <1>5, <2>1, <2>2, <2>3, Moved DEF TypeOK, ThreadRecord
  <2>5. ThreadInv' /\ CabLock' /\ BpLock'
    BY <1>2, <2>1, <2>2, ThreadStep, CabStep, BpStep
  <2>6. AsgLock'
    BY <1>5, <2>1, <2>2, AsgTaken DEF HasAsg
  <2>7. HasSn' /\ Told' /\ thread'["service"] = thread["service"]
    BY <1>1, <2>1, <2>3, Moved DEF HasSn, Told, Threads
  <2>8. \A d \in Cabs : Resets(d) => Resets(d)'
    BY <1>2, <2>1, ResetsKept
  <2>9. Shown'
    BY <1>1, <2>3, <2>8 DEF Shown
  <2> QED BY <2>4, <2>5, <2>6, <2>7, <2>9
<1> QED BY <1>4, <1>5 DEF Add

LEMMA SelectStep ==
  ASSUME CabinetsInv, NEW t \in Threads, Select(t)
  PROVE  CabinetsInv'
<1> USE DEF CabinetsInv
<1> DEFINE c == thread[t].cab
<1>1. /\ thread[t].at = "select" /\ c \in Cabs /\ t # "service"
      /\ UNCHANGED <<lock, calls, wait, force, cab, assigning, told, crossed>>
  BY DEF Select, At, ThreadInv, Well, Fresher
<1>2. PICK l \in {"deselect", "failed"} : Goes(t, l)
  BY DEF Select
<1>3. bp' = bp \/ bp' = [bp EXCEPT ![c].status = "assigning"]
  BY DEF Select
<1>4. /\ bp' \in [Cabs -> [status : {"off", "assigning", "assigned"}, sn : BOOLEAN]]
      /\ \A b \in Cabs : bp'[b].sn = bp[b].sn /\ (bp'[b].status = "assigned" => bp[b].status = "assigned")
  BY <1>1, <1>3, StatusUpdate DEF TypeOK
<1> DEFINE r == Still(t, l)
<1>5. l \in Labels \ Fresher
  BY DEF Labels, Fresher
<1>6. r \in ThreadRecord /\ Moves(t, r) /\ r.at = l /\ r.cab = c /\ r.by = thread[t].by
  BY <1>2, <1>5, StillFields, GoesStill
<1> HIDE DEF r
<1>7. TypeOK'
  BY <1>1, <1>4, <1>6, Moved DEF TypeOK, ThreadRecord
<1>8. ThreadInv'
  BY <1>1, <1>6, ThreadStep DEF Well
<1>9. CabLock' /\ AsgLock' /\ BpLock'
  <2>1. (lock["cab"] = t => HasCab(t, r)) /\ lock["bp"] # t
    BY <1>1, <1>6 DEF CabLock, HasCab, BpLock, HasBp
  <2>2. HasAsg(t, r) <=> HasAsg(t, thread[t])
    BY <1>1, <1>6 DEF HasAsg
  <2> QED BY <1>1, <1>6, <2>1, <2>2, CabStep, AsgKept, BpStep
<1>10. HasSn' /\ Told' /\ thread'["service"] = thread["service"]
  BY <1>1, <1>4, <1>6, Moved DEF HasSn, Told, Threads
<1>11. \A d \in Cabs : Resets(d) => Resets(d)'
  BY <1>1, <1>6, ResetsKept DEF Resetting
<1>12. Shown'
  BY <1>1, <1>4, <1>10, <1>11 DEF Shown
<1> QED BY <1>7, <1>8, <1>9, <1>10, <1>12

LEMMA FailedStep ==
  ASSUME CabinetsInv, NEW t \in Threads, Failed(t)
  PROVE  CabinetsInv'
<1> USE DEF CabinetsInv
<1> DEFINE c == thread[t].cab
<1>1. /\ thread[t].at = "failed" /\ c \in Cabs /\ Free("cab") /\ lock["asg"] = t /\ c = assigning
      /\ bp' = [bp EXCEPT ![c] = Blank] /\ assigning' = None
      /\ lock' = [lock EXCEPT !["asg"] = None] /\ UNCHANGED <<calls, cab, told, crossed>>
      /\ wait' \in BOOLEAN /\ force' \in Forces
  BY ForceTyped DEF Failed, At, ThreadInv, Well, Fresher, StatusChanged, AsgLock, HasAsg, NoneAssigned
<1>2. /\ bp' \in [Cabs -> [status : {"off", "assigning", "assigned"}, sn : BOOLEAN]]
      /\ bp'[c].status = "off" /\ \A d \in Cabs : d # c => bp'[d] = bp[d]
  BY <1>1, BlankUpdate
<1>3. /\ lock' \in [Locks -> Threads \cup {None}] /\ lock'["asg"] = None
      /\ lock'["cab"] = lock["cab"] /\ lock'["bp"] = lock["bp"]
  BY <1>1, LockUpdate DEF Locks
<1>4. PICK r \in ThreadRecord :
        Moves(t, r) /\ r.at \in {"idle", "back"} /\ (r.at = "back" => r.cab = c /\ t # "service")
  <2>1. "back" \in Labels \ Fresher /\ "idle" \in Labels /\ "idle" \in Fresher
    BY DEF Labels, Fresher
  <2>2. CASE t = "service"
    BY <2>1, <2>2, FreshFields, GoesFresh DEF Failed
  <2>3. CASE t # "service"
    BY <2>1, <2>3, StillFields, GoesStill DEF Failed
  <2> QED BY <2>2, <2>3
<1>5. TypeOK'
  BY <1>1, <1>2, <1>3, <1>4, Moved DEF TypeOK, Forces, ThreadRecord
<1>6. ThreadInv'
  BY <1>1, <1>4, ThreadStep DEF Well, Fresher
<1>7. CabLock' /\ AsgLock' /\ BpLock'
  <2>1. lock["cab"] # t /\ lock["bp"] # t /\ ~HasAsg(t, r)
    BY <1>1, <1>4, CabinetsAssumption DEF Free, BpLock, HasBp, HasAsg
  <2> QED BY <1>1, <1>3, <1>4, <2>1, CabStep, AsgGiven, BpStep
<1>8. HasSn' /\ Told'
  BY <1>1, <1>2 DEF HasSn, Told
<1>9. \A d \in Cabs : Resets(d) => Resets(d)'
  BY <1>1, <1>4, ResetsKept DEF Resetting
<1>10. Shown'
  BY <1>1, <1>2, <1>9 DEF Shown
<1> QED BY <1>5, <1>6, <1>7, <1>8, <1>10

LEMMA ResetStep ==
  ASSUME CabinetsInv, NEW t \in Threads, Reset(t)
  PROVE  CabinetsInv'
<1> USE DEF CabinetsInv
<1> DEFINE c == thread[t].cab
<1>1. /\ thread[t].at = "reset" /\ c \in Cabs /\ t # "service" /\ thread[t].then \in {"start", "polled", "call"}
      /\ UNCHANGED <<calls, wait, force, cab, assigning, told, crossed>>
  BY DEF Reset, At, ThreadInv, Well, Fresher
<1>2. ~HasAsg(t, thread[t]) /\ lock["cab"] # t /\ lock["bp"] # t
  BY <1>1 DEF HasAsg, CabLock, HasCab, BpLock, HasBp
<1>3. CASE Takes(t, "bp") /\ Goes(t, "gone") /\ UNCHANGED bp
  <2> DEFINE r == Still(t, "gone")
  <2>1. "gone" \in Labels \ Fresher
    BY DEF Labels, Fresher
  <2>2. r \in ThreadRecord /\ Moves(t, r) /\ r.at = "gone" /\ r.cab = c /\ r.then = thread[t].then
    BY <1>3, <2>1, StillFields, GoesStill
  <2> HIDE DEF r
  <2>3. /\ lock' \in [Locks -> Threads \cup {None}] /\ lock'["bp"] = t
        /\ lock'["cab"] = lock["cab"] /\ lock'["asg"] = lock["asg"]
    BY <1>3, LockUpdate DEF Takes, Locks
  <2>4. TypeOK'
    BY <1>1, <1>3, <2>2, <2>3, Moved DEF TypeOK, ThreadRecord
  <2>5. ThreadInv'
    BY <1>1, <2>2, ThreadStep DEF Well
  <2>6. CabLock' /\ AsgLock' /\ BpLock'
    <3>1. ~HasAsg(t, r) /\ HasBp(r)
      BY <1>1, <2>2 DEF HasAsg, HasBp
    <3> QED BY <1>1, <1>2, <2>2, <2>3, <3>1, CabStep, AsgKept, BpStep
  <2>7. HasSn' /\ Told' /\ thread'["service"] = thread["service"]
    BY <1>1, <1>3, <2>2, Moved DEF HasSn, Told, Threads
  <2>8. \A d \in Cabs : Resets(d) => Resets(d)'
    BY <2>2, ResetsKept DEF Resetting
  <2>9. Shown'
    BY <1>1, <1>3, <2>7, <2>8 DEF Shown
  <2> QED BY <2>4, <2>5, <2>6, <2>7, <2>9
<1>4. CASE bp' = [bp EXCEPT ![c] = Blank] /\ Goes(t, thread[t].then) /\ UNCHANGED lock
  <2>1. /\ bp' \in [Cabs -> [status : {"off", "assigning", "assigned"}, sn : BOOLEAN]]
        /\ bp'[c].status = "off" /\ \A d \in Cabs : d # c => bp'[d] = bp[d]
    BY <1>1, <1>4, BlankUpdate
  <2>2. PICK r \in ThreadRecord : Moves(t, r) /\ r.at = thread[t].then /\ (r.at # "start" => r.cab = c)
    <3>1. {"polled", "call"} \subseteq Labels \ Fresher /\ "start" \in Labels /\ "start" \in Fresher
      BY DEF Labels, Fresher
    <3>2. CASE thread[t].then = "start"
      BY <1>4, <3>1, <3>2, FreshFields, GoesFresh
    <3>3. CASE thread[t].then # "start"
      BY <1>1, <1>4, <3>1, <3>3, StillFields, GoesStill
    <3> QED BY <3>2, <3>3
  <2>3. TypeOK'
    BY <1>1, <1>4, <2>1, <2>2, Moved DEF TypeOK, ThreadRecord
  <2>4. ThreadInv'
    BY <1>1, <2>2, ThreadStep DEF Well, Fresher
  <2>5. CabLock' /\ AsgLock' /\ BpLock'
    <3>1. ~HasAsg(t, r)
      BY <1>1, <2>2 DEF HasAsg
    <3> QED BY <1>1, <1>2, <1>4, <2>2, <3>1, CabStep, AsgKept, BpStep
  <2>6. HasSn' /\ Told' /\ thread'["service"] = thread["service"]
    BY <1>1, <2>1, <2>2, Moved DEF HasSn, Told, Threads
  <2>7. \A d \in Cabs : d # c /\ Resets(d) => Resets(d)'
    BY <2>2, ResetsElse
  <2>8. Shown'
    BY <1>1, <2>1, <2>6, <2>7 DEF Shown
  <2> QED BY <2>3, <2>4, <2>5, <2>6, <2>8
<1> QED BY <1>3, <1>4 DEF Reset

LEMMA GoneStep ==
  ASSUME CabinetsInv, NEW t \in Threads, Gone(t)
  PROVE  CabinetsInv'
<1> USE DEF CabinetsInv
<1> DEFINE c == thread[t].cab
           r == Still(t, "blank")
<1>1. /\ thread[t].at = "gone" /\ c \in Cabs /\ Free("cab") /\ Goes(t, "blank") /\ wait' = FALSE
      /\ thread[t].then \in (IF t = "service" THEN {"idle"} ELSE {"start", "polled", "call"})
      /\ cab' = [cab EXCEPT ![c].pack = "none"] /\ told' = told \ {c} /\ crossed' = crossed \ {c}
      /\ UNCHANGED <<lock, calls, force, bp, assigning>>
  BY DEF Gone, Disconnected, At, ThreadInv, Well, Fresher
<1>2. "blank" \in Labels \ Fresher
  BY DEF Labels, Fresher
<1>3. r \in ThreadRecord /\ Moves(t, r) /\ r.at = "blank" /\ r.cab = c /\ r.then = thread[t].then
  BY <1>1, <1>2, StillFields, GoesStill
<1> HIDE DEF r
<1>4. /\ cab' \in [Cabs -> [connected : BOOLEAN, closed : BOOLEAN, pack : {"none", "flat", "full"}]]
      /\ cab'[c].pack = "none" /\ \A d \in Cabs : d # c => cab'[d] = cab[d]
  BY <1>1, PackUpdate
<1>5. TypeOK'
  BY <1>1, <1>3, <1>4, Moved DEF TypeOK, ThreadRecord
<1>6. ThreadInv'
  BY <1>1, <1>3, ThreadStep DEF Well
<1>7. CabLock' /\ AsgLock' /\ BpLock'
  <2>1. ~HasAsg(t, r) /\ ~HasAsg(t, thread[t]) /\ HasBp(r) /\ lock["cab"] # t
    BY <1>1, <1>3, CabinetsAssumption DEF HasAsg, HasBp, Free
  <2> QED BY <1>1, <1>3, <2>1, CabStep, AsgKept, BpStep
<1>8. HasSn'
  BY <1>1, <1>3, Moved DEF HasSn, Threads
<1>9. Shown'
  <2>1. \A d \in Cabs : Resets(d) => Resets(d)'
    BY <1>3, ResetsKept DEF Resetting
  <2>2. thread'[t] = r
    BY <1>3, Moved
  <2>3. thread["service"].at # "finish" => thread'["service"].at # "finish"
    BY <1>3, Moved DEF Threads
  <2>4. SUFFICES ASSUME NEW d \in Cabs, bp'[d].status = "assigned", cab'[d].pack = "none"
                 PROVE  ((assigning = d /\ thread["service"].at # "finish") \/ Resets(d))'
    BY DEF Shown
  <2>5. CASE d = c
    BY <1>3, <2>2, <2>5 DEF Resets, Resetting
  <2>6. CASE d # c
    <3>1. bp[d].status = "assigned" /\ cab[d].pack = "none" /\ assigning' = assigning
      BY <1>1, <1>4, <2>4, <2>6
    <3>2. (assigning = d /\ thread["service"].at # "finish") \/ Resets(d)
      BY <3>1 DEF Shown
    <3>3. CASE Resets(d)
      BY <3>3, <2>1
    <3>4. CASE assigning = d /\ thread["service"].at # "finish"
      BY <3>1, <3>4, <2>3
    <3> QED BY <3>2, <3>3, <3>4
  <2> QED BY <2>5, <2>6
<1>10. Told'
  BY <1>1, <1>4 DEF Told
<1> QED BY <1>5, <1>6, <1>7, <1>8, <1>9, <1>10

LEMMA BlankStep ==
  ASSUME CabinetsInv, NEW t \in Threads, BlankBp(t)
  PROVE  CabinetsInv'
<1> USE DEF CabinetsInv
<1> DEFINE c == thread[t].cab
<1>1. /\ thread[t].at = "blank" /\ c \in Cabs
      /\ thread[t].then \in (IF t = "service" THEN {"idle"} ELSE {"start", "polled", "call"})
      /\ bp' = [bp EXCEPT ![c] = Blank] /\ lock' = [lock EXCEPT !["bp"] = None]
      /\ Goes(t, thread[t].then) /\ UNCHANGED <<calls, wait, force, cab, assigning, told, crossed>>
  BY DEF BlankBp, Unlocked, At, ThreadInv, Well, Fresher
<1>2. /\ bp' \in [Cabs -> [status : {"off", "assigning", "assigned"}, sn : BOOLEAN]]
      /\ bp'[c].status = "off" /\ \A d \in Cabs : d # c => bp'[d] = bp[d]
  BY <1>1, BlankUpdate
<1>3. /\ lock' \in [Locks -> Threads \cup {None}] /\ lock'["bp"] = None
      /\ lock'["cab"] = lock["cab"] /\ lock'["asg"] = lock["asg"]
  BY <1>1, LockUpdate DEF Locks
<1>4. PICK r \in ThreadRecord : Moves(t, r) /\ r.at = thread[t].then /\ (r.at \notin Fresher => r.cab = c)
  <2>1. {"polled", "call"} \subseteq Labels \ Fresher /\ {"start", "idle"} \subseteq Labels /\ {"start", "idle"} \subseteq Fresher
    BY DEF Labels, Fresher
  <2>2. CASE thread[t].then \in {"start", "idle"}
    BY <1>1, <2>1, <2>2, FreshFields, GoesFresh
  <2>3. CASE thread[t].then \notin {"start", "idle"}
    BY <1>1, <2>1, <2>3, StillFields, GoesStill
  <2> QED BY <2>2, <2>3
<1>5. r.at \in {"start", "idle", "polled", "call"} /\ (t = "service" => r.at = "idle")
  BY <1>1, <1>4
<1>6. TypeOK'
  BY <1>1, <1>2, <1>3, <1>4, Moved DEF TypeOK, ThreadRecord
<1>7. ThreadInv'
  BY <1>1, <1>4, <1>5, ThreadStep DEF Well, Fresher
<1>8. CabLock' /\ AsgLock' /\ BpLock'
  <2>1. ~HasAsg(t, r) /\ ~HasAsg(t, thread[t]) /\ lock["cab"] # t
    BY <1>1, <1>5, CabinetsAssumption DEF HasAsg, CabLock, HasCab
  <2> QED BY <1>1, <1>3, <1>4, <2>1, CabStep, AsgKept, BpStep, CabinetsAssumption
<1>9. HasSn' /\ Told'
  BY <1>1, <1>2, <1>4, <1>5, Moved DEF HasSn, Told, Threads
<1>10. Shown'
  <2>1. \A d \in Cabs : d # c /\ Resets(d) => Resets(d)'
    BY <1>4, ResetsElse
  <2>2. thread["service"].at # "finish" => thread'["service"].at # "finish"
    BY <1>4, <1>5, Moved DEF Threads
  <2> QED BY <1>1, <1>2, <2>1, <2>2 DEF Shown
<1> QED BY <1>6, <1>7, <1>8, <1>9, <1>10

(* A step of the poll: the station's thread holds no mutex, and a pack it no  *)
(* longer shows is one it is about to reset.                                  *)
LEMMA PollStep ==
  ASSUME CabinetsInv, NEW r \in ThreadRecord, Moves("station", r), Well("station", r),
         thread["station"].at \in {"poll", "polled"}, r.at \in {"reset", "start"},
         UNCHANGED <<lock, calls, wait, force, bp, assigning>>,
         cab' \in [Cabs -> [connected : BOOLEAN, closed : BOOLEAN, pack : {"none", "flat", "full"}]],
         told' \subseteq Cabs, crossed' \subseteq Cabs, Told',
         \A c \in Cabs : cab'[c].pack = "none" /\ cab[c].pack # "none" => r.at = "reset" /\ r.cab = c
  PROVE  CabinetsInv'
<1> USE DEF CabinetsInv
<1> DEFINE here == thread["station"]
<1>1. "station" \in Threads
  BY DEF Threads
<1>2. ~HasAsg("station", here) /\ ~HasAsg("station", r) /\ ~Resetting(here)
  BY DEF HasAsg, Resetting
<1>3. lock["cab"] # "station" /\ lock["bp"] # "station"
  BY <1>1 DEF CabLock, HasCab, BpLock, HasBp
<1>4. TypeOK'
  BY <1>1, Moved DEF TypeOK, ThreadRecord
<1>5. ThreadInv'
  BY <1>1, ThreadStep
<1>6. CabLock' /\ AsgLock' /\ BpLock'
  BY <1>1, <1>2, <1>3, CabStep, AsgKept, BpStep
<1>7. thread'["station"] = r /\ thread'["service"] = thread["service"]
  BY <1>1, Moved DEF Threads
<1>8. HasSn'
  BY <1>7 DEF HasSn
<1>9. Shown'
  <2>1. \A c \in Cabs : Resets(c) => Resets(c)'
    BY <1>1, <1>2, ResetsKept
  <2>2. \A c \in Cabs : r.at = "reset" /\ r.cab = c => Resets(c)'
    BY <1>1, <1>7 DEF Resets, Resetting
  <2> QED BY <1>7, <2>1, <2>2 DEF Shown
<1> QED BY <1>4, <1>5, <1>6, <1>8, <1>9

LEMMA ResetRecord ==
  ASSUME NEW c \in Cabs, NEW k \in {"start", "polled", "call"}, ResetOf(c, k)
  PROVE  LET r == Record("reset", c, "none", k)
         IN r \in ThreadRecord /\ Moves("station", r) /\ Well("station", r) /\ r.at = "reset" /\ r.cab = c
<1> DEFINE r == Record("reset", c, "none", k)
<1>1. "reset" \in Labels /\ k \in Labels /\ "none" \in Callers
  BY DEF Labels, Callers
<1>2. r \in ThreadRecord /\ r.at = "reset" /\ r.cab = c /\ r.then = k
  BY <1>1, RecordFields
<1>3. Moves("station", r)
  BY PutsMoves DEF ResetOf
<1> HIDE DEF r
<1>4. Well("station", r)
  BY <1>2 DEF Well
<1> QED BY <1>2, <1>3, <1>4 DEF r

LEMMA PollLostStep ==
  ASSUME CabinetsInv, NEW c \in Cabs, PollLost(c)
  PROVE  CabinetsInv'
<1> USE DEF CabinetsInv
<1> DEFINE r == Record("reset", c, "none", "start")
<1>1. r \in ThreadRecord /\ Moves("station", r) /\ Well("station", r) /\ r.at = "reset" /\ r.cab = c
  BY ResetRecord DEF PollLost
<1> HIDE DEF r
<1>2. /\ thread["station"].at = "poll" /\ UNCHANGED <<lock, calls, wait, force, bp, assigning, told>>
      /\ crossed' \subseteq Cabs /\ told' \subseteq Cabs
  BY DEF PollLost, At, TypeOK
<1>3. /\ cab' \in [Cabs -> [connected : BOOLEAN, closed : BOOLEAN, pack : {"none", "flat", "full"}]]
      /\ cab'[c].pack = "none" /\ \A d \in Cabs : d # c => cab'[d] = cab[d]
  BY DEF PollLost, TypeOK
<1>4. Told'
  BY <1>2, <1>3 DEF Told
<1>5. \A d \in Cabs : cab'[d].pack = "none" /\ cab[d].pack # "none" => r.at = "reset" /\ r.cab = d
  BY <1>1, <1>3
<1> QED BY <1>1, <1>2, <1>3, <1>4, <1>5, PollStep

LEMMA PollDoorStep ==
  ASSUME CabinetsInv, NEW c \in Cabs, PollDoor(c)
  PROVE  CabinetsInv'
<1> USE DEF CabinetsInv
<1> DEFINE k == IF cab[c].closed THEN "polled" ELSE "call"
           r == Record("reset", c, "none", k)
<1>1. k \in {"polled", "call"} /\ ResetOf(c, k)
  BY DEF PollDoor
<1> HIDE DEF k
<1>2. r \in ThreadRecord /\ Moves("station", r) /\ Well("station", r) /\ r.at = "reset" /\ r.cab = c
  BY <1>1, ResetRecord
<1> HIDE DEF r
<1>3. /\ thread["station"].at = "poll" /\ UNCHANGED <<lock, calls, wait, force, bp, assigning, told, crossed>>
      /\ crossed' \subseteq Cabs /\ told' \subseteq Cabs
  BY DEF PollDoor, At, TypeOK
<1>4. /\ cab' \in [Cabs -> [connected : BOOLEAN, closed : BOOLEAN, pack : {"none", "flat", "full"}]]
      /\ \A d \in Cabs : cab'[d].pack = cab[d].pack
  BY DEF PollDoor, DoorMoved, TypeOK
<1>5. Told'
  BY <1>3, <1>4 DEF Told
<1> QED BY <1>2, <1>3, <1>4, <1>5, PollStep

LEMMA PolledStep ==
  ASSUME CabinetsInv, NEW c \in Cabs, Polled(c)
  PROVE  CabinetsInv'
<1> USE DEF CabinetsInv
<1> DEFINE r == Fresh("start")
<1>1. "start" \in Labels /\ "start" \in Fresher
  BY DEF Labels, Fresher
<1>2. r \in ThreadRecord /\ Moves("station", r) /\ r.at = "start"
  BY <1>1, FreshFields, GoesFresh DEF Polled, Threads
<1> HIDE DEF r
<1>3. Well("station", r)
  BY <1>2 DEF Well, Fresher
<1>4. /\ thread["station"].at \in {"poll", "polled"}
      /\ UNCHANGED <<lock, calls, wait, force, bp, assigning>> /\ crossed' \subseteq Cabs
  BY DEF Polled, At, TypeOK
<1>5. PICK soc \in Charge :
        /\ cab' = [cab EXCEPT ![c].connected = TRUE, ![c].pack = IF @ = "none" THEN "none" ELSE soc]
        /\ told' = ToldLater(c, soc)
  BY DEF Polled
<1>6. /\ cab' \in [Cabs -> [connected : BOOLEAN, closed : BOOLEAN, pack : {"none", "flat", "full"}]]
      /\ cab'[c].pack = (IF cab[c].pack = "none" THEN "none" ELSE soc)
      /\ \A d \in Cabs : d # c => cab'[d] = cab[d]
  <2> DEFINE p == IF cab[c].pack = "none" THEN "none" ELSE soc
             new == [cab[c] EXCEPT !.connected = TRUE, !.pack = p]
  <2>1. /\ cab \in [Cabs -> [connected : BOOLEAN, closed : BOOLEAN, pack : {"none", "flat", "full"}]]
        /\ soc \in {"none", "flat", "full"} /\ p \in {"none", "flat", "full"}
    BY <1>5 DEF TypeOK, Charge
  <2>2. cab' = [cab EXCEPT ![c] = new]
    BY <1>5, <2>1
  <2> HIDE DEF p
  <2>3. new \in [connected : BOOLEAN, closed : BOOLEAN, pack : {"none", "flat", "full"}] /\ new.pack = p
    BY <2>1
  <2> HIDE DEF new
  <2> QED BY <2>1, <2>2, <2>3 DEF p
<1>7. told' \subseteq Cabs /\ told \subseteq told'
  BY <1>5 DEF ToldLater, TypeOK
<1>8. cab'[c].pack = "full" => c \in told'
  <2>1. cab[c].pack \in {"none", "flat", "full"} /\ (cab[c].pack = "full" => c \in told)
    BY DEF TypeOK, Told
  <2> QED BY <1>5, <1>6, <1>7, <2>1 DEF ToldLater
<1>9. Told'
  BY <1>6, <1>7, <1>8 DEF Told
<1>10. \A d \in Cabs : cab'[d].pack = "none" => cab[d].pack = "none"
  BY <1>5, <1>6 DEF Charge
<1> QED BY <1>2, <1>3, <1>4, <1>6, <1>7, <1>9, <1>10, PollStep

-----------------------------------------------------------------------------
(* The service's own steps. *)
LEMMA ProgressStep ==
  ASSUME CabinetsInv, Progress
  PROVE  CabinetsInv'
<1> USE DEF CabinetsInv
<1>1. /\ thread["service"].at = "idle" /\ assigning \in Cabs
      /\ UNCHANGED <<thread, lock, calls, wait, force, cab, assigning, told, crossed>>
  BY DEF Progress, At, TypeOK
<1>2. PICK s \in {"assigned", "off"} : bp' = [bp EXCEPT ![assigning].status = s]
  BY DEF Progress
<1>3. /\ bp' \in [Cabs -> [status : {"off", "assigning", "assigned"}, sn : BOOLEAN]]
      /\ \A d \in Cabs : d # assigning => bp'[d] = bp[d]
  BY <1>1, <1>2, StatusUpdate
<1>4. TypeOK'
  BY <1>1, <1>3 DEF TypeOK
<1>5. ThreadInv' /\ CabLock' /\ AsgLock' /\ BpLock' /\ Told'
  BY <1>1 DEF ThreadInv, CabLock, AsgLock, BpLock, Told
<1>6. HasSn'
  BY <1>1, <1>3 DEF HasSn
<1>7. \A d \in Cabs : Resets(d)' <=> Resets(d)
  BY <1>1 DEF Resets
<1>8. Shown'
  BY <1>1, <1>3, <1>7 DEF Shown
<1> QED BY <1>4, <1>5, <1>6, <1>8

LEMMA AnnounceStep ==
  ASSUME CabinetsInv, Announce
  PROVE  CabinetsInv'
<1> USE DEF CabinetsInv
<1> DEFINE r == Record("status", assigning, "none", "finish")
<1>1. /\ "service" \in Threads /\ thread["service"].at = "idle" /\ assigning \in Cabs
      /\ bp[assigning].status = "assigned" /\ lock["asg"] = None
      /\ lock' = [lock EXCEPT !["asg"] = "service"] /\ bp' = [bp EXCEPT ![assigning].sn = TRUE]
      /\ Puts("service", "status", assigning, "none", "finish")
      /\ UNCHANGED <<calls, wait, force, cab, assigning, told, crossed>>
  BY DEF Announce, At, Takes, Free, TypeOK, Threads
<1>2. "status" \in Labels /\ "finish" \in Labels /\ "none" \in Callers
  BY DEF Labels, Callers
<1>3. /\ r \in ThreadRecord /\ r.at = "status" /\ r.cab = assigning /\ r.then = "finish"
      /\ Moves("service", r)
  BY <1>1, <1>2, RecordFields, PutsMoves
<1> HIDE DEF r
<1>4. /\ lock' \in [Locks -> Threads \cup {None}] /\ lock'["asg"] = "service"
      /\ lock'["cab"] = lock["cab"] /\ lock'["bp"] = lock["bp"]
  BY <1>1, LockUpdate DEF Locks
<1>5. /\ bp' \in [Cabs -> [status : {"off", "assigning", "assigned"}, sn : BOOLEAN]]
      /\ bp'[assigning].status = "assigned" /\ bp'[assigning].sn
      /\ \A d \in Cabs : d # assigning => bp'[d] = bp[d]
  BY <1>1 DEF TypeOK
<1>6. TypeOK'
  BY <1>1, <1>3, <1>4, <1>5, Moved DEF TypeOK, ThreadRecord
<1>7. ThreadInv'
  BY <1>1, <1>3, ThreadStep DEF Well
<1>8. CabLock' /\ AsgLock' /\ BpLock'
  <2>1. lock["cab"] # "service" /\ lock["bp"] # "service"
    BY <1>1 DEF CabLock, HasCab, BpLock, HasBp
  <2>2. HasAsg("service", r) /\ r.cab = assigning'
    BY <1>1, <1>3 DEF HasAsg
  <2> QED BY <1>1, <1>3, <1>4, <2>1, <2>2, CabStep, AsgTaken, BpStep
<1>9. thread'["service"] = r
  BY <1>1, <1>3, Moved
<1>10. HasSn' /\ Told'
  BY <1>1, <1>5 DEF HasSn, Told
<1>11. \A d \in Cabs : Resets(d) => Resets(d)'
  BY <1>1, <1>3, ResetsKept DEF Resetting
<1>12. Shown'
  <2>1. SUFFICES ASSUME NEW d \in Cabs, bp'[d].status = "assigned", cab'[d].pack = "none"
                 PROVE  (assigning' = d /\ thread'["service"].at # "finish") \/ Resets(d)'
    BY DEF Shown
  <2>2. bp[d].status = "assigned" /\ cab[d].pack = "none"
    BY <1>1, <1>5, <2>1
  <2> QED BY <1>1, <1>3, <1>9, <1>11, <2>2 DEF Shown
<1> QED BY <1>6, <1>7, <1>8, <1>10, <1>12

LEMMA FinishStep ==
  ASSUME CabinetsInv, Finish
  PROVE  CabinetsInv'
<1> USE DEF CabinetsInv
<1> DEFINE r == Fresh("idle")
<1>1. /\ "service" \in Threads /\ thread["service"].at = "finish" /\ thread["service"].cab = assigning
      /\ lock["asg"] = "service" /\ assigning' = None /\ lock' = [lock EXCEPT !["asg"] = None]
      /\ Goes("service", "idle") /\ UNCHANGED <<calls, wait, force, cab, bp, told, crossed>>
  BY DEF Finish, At, NoneAssigned, AsgLock, HasAsg, Threads
<1>2. "idle" \in Labels /\ "idle" \in Fresher
  BY DEF Labels, Fresher
<1>3. r \in ThreadRecord /\ r.at = "idle" /\ Moves("service", r)
  BY <1>1, <1>2, FreshFields, GoesFresh
<1> HIDE DEF r
<1>4. /\ lock' \in [Locks -> Threads \cup {None}] /\ lock'["asg"] = None
      /\ lock'["cab"] = lock["cab"] /\ lock'["bp"] = lock["bp"]
  BY <1>1, LockUpdate DEF Locks
<1>5. TypeOK'
  BY <1>1, <1>3, <1>4, Moved DEF TypeOK, ThreadRecord
<1>6. ThreadInv'
  BY <1>1, <1>3, ThreadStep DEF Well, Fresher
<1>7. CabLock' /\ AsgLock' /\ BpLock'
  <2>1. lock["cab"] # "service" /\ lock["bp"] # "service" /\ ~HasAsg("service", r)
    BY <1>1, <1>3 DEF CabLock, HasCab, BpLock, HasBp, HasAsg
  <2> QED BY <1>1, <1>3, <1>4, <2>1, CabStep, AsgGiven, BpStep
<1>8. HasSn' /\ Told'
  BY <1>1 DEF HasSn, Told
<1>9. \A d \in Cabs : Resets(d) => Resets(d)'
  BY <1>1, <1>3, ResetsKept DEF Resetting
<1>10. Shown'
  BY <1>1, <1>9 DEF Shown
<1> QED BY <1>5, <1>6, <1>7, <1>8, <1>10

LEMMA GiveUpStep ==
  ASSUME CabinetsInv, GiveUp
  PROVE  CabinetsInv'
<1> USE DEF CabinetsInv
<1> DEFINE r == Record("failed", assigning, "none", "idle")
<1>1. /\ "service" \in Threads /\ thread["service"].at = "idle" /\ assigning \in Cabs
      /\ bp[assigning].status = "off" /\ lock["asg"] = None
      /\ lock' = [lock EXCEPT !["asg"] = "service"]
      /\ Puts("service", "failed", assigning, "none", "idle")
      /\ UNCHANGED <<calls, wait, force, cab, bp, assigning, told, crossed>>
  BY DEF GiveUp, At, Takes, Free, TypeOK, Threads, records
<1>2. "failed" \in Labels /\ "idle" \in Labels /\ "none" \in Callers
  BY DEF Labels, Callers
<1>3. /\ r \in ThreadRecord /\ r.at = "failed" /\ r.cab = assigning /\ Moves("service", r)
  BY <1>1, <1>2, RecordFields, PutsMoves
<1> HIDE DEF r
<1>4. /\ lock' \in [Locks -> Threads \cup {None}] /\ lock'["asg"] = "service"
      /\ lock'["cab"] = lock["cab"] /\ lock'["bp"] = lock["bp"]
  BY <1>1, LockUpdate DEF Locks
<1>5. TypeOK'
  BY <1>1, <1>3, <1>4, Moved DEF TypeOK, ThreadRecord
<1>6. ThreadInv'
  BY <1>1, <1>3, ThreadStep DEF Well
<1>7. CabLock' /\ AsgLock' /\ BpLock'
  <2>1. lock["cab"] # "service" /\ lock["bp"] # "service"
    BY <1>1 DEF CabLock, HasCab, BpLock, HasBp
  <2>2. HasAsg("service", r) /\ r.cab = assigning'
    BY <1>1, <1>3 DEF HasAsg
  <2> QED BY <1>1, <1>3, <1>4, <2>1, <2>2, CabStep, AsgTaken, BpStep
<1>8. thread'["service"] = r
  BY <1>1, <1>3, Moved
<1>9. HasSn' /\ Told'
  BY <1>1, <1>3, <1>8 DEF HasSn, Told
<1>10. \A d \in Cabs : Resets(d) => Resets(d)'
  BY <1>1, <1>3, ResetsKept DEF Resetting
<1>11. Shown'
  BY <1>1, <1>3, <1>8, <1>10 DEF Shown
<1> QED BY <1>5, <1>6, <1>7, <1>9, <1>11

LEMMA SilentStep ==
  ASSUME CabinetsInv, Silent
  PROVE  CabinetsInv'
<1> USE DEF CabinetsInv
<1>1. PICK c \in Cabs : Takes("service", "bp") /\ Puts("service", "gone", c, "none", "idle")
  BY DEF Silent
<1> DEFINE r == Record("gone", c, "none", "idle")
<1>2. /\ "service" \in Threads /\ thread["service"].at = "idle"
      /\ lock' = [lock EXCEPT !["bp"] = "service"]
      /\ UNCHANGED <<calls, wait, force, cab, bp, assigning, told, crossed>>
  BY <1>1 DEF Silent, At, Takes, TypeOK, Threads, records
<1>3. "gone" \in Labels /\ "idle" \in Labels /\ "none" \in Callers
  BY DEF Labels, Callers
<1>4. /\ r \in ThreadRecord /\ r.at = "gone" /\ r.cab = c /\ r.then = "idle" /\ Moves("service", r)
  BY <1>1, <1>3, RecordFields, PutsMoves
<1> HIDE DEF r
<1>5. /\ lock' \in [Locks -> Threads \cup {None}] /\ lock'["bp"] = "service"
      /\ lock'["cab"] = lock["cab"] /\ lock'["asg"] = lock["asg"]
  BY <1>2, LockUpdate DEF Locks
<1>6. TypeOK'
  BY <1>2, <1>4, <1>5, Moved DEF TypeOK, ThreadRecord
<1>7. ThreadInv'
  BY <1>2, <1>4, ThreadStep DEF Well
<1>8. CabLock' /\ AsgLock' /\ BpLock'
  <2>1. lock["cab"] # "service" /\ ~HasAsg("service", r) /\ ~HasAsg("service", thread["service"]) /\ HasBp(r)
    BY <1>2, <1>4 DEF CabLock, HasCab, HasAsg, HasBp
  <2> QED BY <1>2, <1>4, <1>5, <2>1, CabStep, AsgKept, BpStep
<1>9. thread'["service"] = r
  BY <1>2, <1>4, Moved
<1>10. HasSn' /\ Told'
  BY <1>2, <1>4, <1>9 DEF HasSn, Told
<1>11. \A d \in Cabs : Resets(d) => Resets(d)'
  BY <1>2, <1>4, ResetsKept DEF Resetting
<1>12. Shown'
  BY <1>2, <1>4, <1>9, <1>11 DEF Shown
<1> QED BY <1>6, <1>7, <1>8, <1>10, <1>12

-----------------------------------------------------------------------------
LEMMA InitInv == Init => CabinetsInv
<1> SUFFICES ASSUME Init PROVE CabinetsInv
  OBVIOUS
<1>1. thread \in [Threads -> ThreadRecord] /\ \A t \in Threads : thread[t].at \in {"start", "idle"} /\ thread[t].at \in Fresher
  <2>1. \A l \in {"start", "idle"} : l \in Labels /\ l \in Fresher
    BY DEF Labels, Fresher
  <2>2. \A t \in Threads : \E l \in {"start", "idle"} : thread[t] = Fresh(l)
    BY DEF Init
  <2>3. \A t \in Threads : thread[t] \in ThreadRecord /\ thread[t].at \in {"start", "idle"}
    BY <2>1, <2>2, FreshFields
  <2> QED BY <2>1, <2>3 DEF Init
<1>2. \A c \in Cabs : bp[c].status = "off" /\ cab[c].pack = "none"
  BY DEF Init, Blank, NewCab
<1>3. TypeOK
  <2>1. bp \in [Cabs -> [status : {"off", "assigning", "assigned"}, sn : BOOLEAN]]
    BY DEF Init, Blank
  <2>2. cab \in [Cabs -> [connected : BOOLEAN, closed : BOOLEAN, pack : {"none", "flat", "full"}]]
    BY DEF Init, NewCab
  <2>3. force \in [on : BOOLEAN, cab : Cabs \cup {None}, count : -1..1]
    BY DEF Init, NoForce
  <2>4. wait \in BOOLEAN /\ lock \in [Locks -> Threads \cup {None}]
    BY DEF Init
  <2>5. calls \in 0..CallMax
    <3>1. CallMax \in Nat
      BY CabinetsAssumption
    <3> QED BY <3>1 DEF Init
  <2> QED BY <1>1, <2>1, <2>2, <2>3, <2>4, <2>5 DEF Init, TypeOK, ThreadRecord
<1>4. ThreadInv
  <2>1. thread["service"].at = "idle"
    BY DEF Init, Threads, Fresh
  <2>2. \A t \in Threads : Well(t, thread[t])
    BY <1>1, <2>1 DEF Well
  <2> QED BY <2>2 DEF ThreadInv
<1>5. CabLock /\ AsgLock /\ BpLock
  BY <1>1, CabinetsAssumption DEF Init, CabLock, AsgLock, BpLock, HasAsg, Locks
<1> QED BY <1>2, <1>3, <1>4, <1>5 DEF CabinetsInv, HasSn, Shown, Told

LEMMA NextInv == CabinetsInv /\ [Next]_vars => CabinetsInv'
<1> SUFFICES ASSUME CabinetsInv, [Next]_vars PROVE CabinetsInv'
  OBVIOUS
<1>1. CASE Station
  BY <1>1, StationStep, PollLostStep, PollDoorStep, PolledStep DEF Station
<1>2. CASE Service
  BY <1>2, ProgressStep, AnnounceStep, FinishStep, GiveUpStep, SilentStep DEF Service
<1>3. CASE CallAssign
  BY <1>3, CallAssignStep
<1>4. ASSUME NEW t \in Threads, Both(t) PROVE CabinetsInv'
  <2>1. CASE ManagerChecks(t)
    BY <2>1, CheckStep DEF ManagerChecks
  <2>2. CASE InterfaceChecks(t)
    BY <2>2, CheckStep DEF InterfaceChecks
  <2>3. CASE Status(t) \/ Connect(t) \/ Add(t) \/ Select(t) \/ Deselect(t) \/ Failed(t)
    BY <1>4, <2>3, StatusStep, ConnectStep, AddStep, SelectStep, DeselectStep, FailedStep
  <2>4. CASE Reset(t) \/ Gone(t) \/ BlankBp(t) \/ AssignBp(t) \/ Back(t)
    BY <1>4, <2>4, ResetStep, GoneStep, BlankStep, AssignBpStep, BackStep
  <2> QED BY <1>4, <2>1, <2>2, <2>3, <2>4 DEF Both
<1>5. CASE UNCHANGED vars
  BY <1>5 DEF vars, CabinetsInv, TypeOK, ThreadInv, CabLock, AsgLock, BpLock, HasSn, Shown, Resets, Told
<1> QED BY <1>1, <1>2, <1>3, <1>4, <1>5 DEF Next

LEMMA CabinetsInductive == Spec => []CabinetsInv
BY InitInv, NextInv, PTL DEF Spec

(* Every variable keeps its type.                                             *)
THEOREM CabinetsTypeCorrect == Spec => []TypeOK
<1>1. CabinetsInv => TypeOK
  BY DEF CabinetsInv
<1> QED BY <1>1, CabinetsInductive, PTL

(* A waiter's mutex has a holder that is where that mutex is held; a holder   *)
(* of the assignment's or of the packs' that itself waits does so for the     *)
(* cabinets', so the holder of that one is in every deadlock.                 *)
LEMMA WaitsForCab ==
  ASSUME CabinetsInv, NEW S \in SUBSET Threads, Deadlock(S)
  PROVE  \E t \in S : Needs(t) = "cab"
<1> USE DEF CabinetsInv
<1>1. PICK t \in S : Needs(t) # None /\ lock[Needs(t)] \in S
  BY DEF Deadlock
<1>2. \A u \in S : u \in Threads /\ Needs(u) # None
  BY DEF Deadlock
<1>3. Needs(t) \in Locks
  BY <1>1, <1>2 DEF Needs, Locks
<1> DEFINE u == lock[Needs(t)]
<1>4. u \in S /\ u \in Threads
  BY <1>1, <1>2
<1>5. CASE Needs(t) = "cab"
  BY <1>5
<1>6. CASE Needs(t) = "asg"
  <2>1. HasAsg(u, thread[u]) /\ Needs(u) # None
    BY <1>2, <1>4, <1>6 DEF AsgLock
  <2>2. Needs(u) = "cab"
    BY <2>1 DEF HasAsg, Needs, At
  <2> QED BY <1>4, <2>2
<1>7. CASE Needs(t) = "bp"
  <2>1. HasBp(thread[u]) /\ Needs(u) # None
    BY <1>2, <1>4, <1>7 DEF BpLock
  <2>2. Needs(u) = "cab"
    BY <2>1 DEF HasBp, Needs, At
  <2> QED BY <1>4, <2>2
<1> QED BY <1>3, <1>5, <1>6, <1>7 DEF Locks

(* However many cabinets there are and whatever their packs do: no set of     *)
(* threads waits for its own members unless one of them assigns a pack under  *)
(* CabinetManager::m_lock.                                                    *)
THEOREM DeadlocksUnderAssign == Spec => []DeadlockUnderAssign
<1>1. CabinetsInv => DeadlockUnderAssign
  <2> SUFFICES ASSUME CabinetsInv, NEW S \in SUBSET Threads, Deadlock(S)
               PROVE  \E t \in S : lock["cab"] = t /\ thread[t].by \in {"forced", "door", "app"}
    BY DEF DeadlockUnderAssign
  <2>1. PICK t \in S : Needs(t) = "cab"
    BY WaitsForCab
  <2>2. lock["cab"] \in S
    BY <2>1 DEF Deadlock
  <2>3. HasCab(lock["cab"], thread[lock["cab"]])
    BY <2>2 DEF CabinetsInv, CabLock
  <2> QED BY <2>2, <2>3 DEF HasCab
<1> QED BY <1>1, CabinetsInductive, PTL

(* A pack that is assigned and neither being announced nor being reset is     *)
(* shown by its cabinet, and the application knows every pack whose charge    *)
(* is shown: no order of the three threads' steps loses the announcement.     *)
THEOREM PacksShown == Spec => []PackShown
<1>1. CabinetsInv => PackShown
  <2> SUFFICES ASSUME CabinetsInv PROVE PackShown
    OBVIOUS
  <2>1. \A c \in Cabs : bp[c].status = "assigned" /\ ~AtWork(c) => cab[c].pack # "none"
    BY DEF CabinetsInv, Shown, Resets, Resetting, AtWork
  <2> QED BY <2>1 DEF CabinetsInv, Told, PackShown
<1> QED BY <1>1, CabinetsInductive, PTL

-----------------------------------------------------------------------------
(* A cabinet that shows a pack has one: either it is assigned, and the service *)
(* has it no longer in hand or is announcing it, or a reset is about to tell   *)
(* the cabinet, or the two have crossed.                                       *)
Announcing == thread["service"].at \in {"status", "connect", "finish"}
GoneFor(c) == \E t \in Threads : thread[t].at = "gone" /\ thread[t].cab = c
There(c) == bp[c].status = "assigned" /\ (assigning = c => Announcing)

SnThere == \A c \in Cabs : bp[c].sn => There(c) \/ c \in crossed \/ Resets(c)
PackThere == \A c \in Cabs : cab[c].pack # "none" => There(c) \/ c \in crossed \/ GoneFor(c)
BlankShown == \A c \in Cabs : BeingReset(c) => cab[c].pack = "none" \/ c \in crossed
AnnouncedThere == Announcing /\ bp[assigning].sn => bp[assigning].status = "assigned"

ThereInv == SnThere /\ PackThere /\ BlankShown /\ AnnouncedThere

(* Only the station's automatic assignment assigns without the cabinets' lock, *)
(* and the application resets nothing.                                         *)
AssignLabels == {"check1", "check2", "status", "connect", "add", "select", "deselect", "failed", "back"}
Assigner(t, r, holder) ==
  /\ t = "app" => ~Resetting(r)
  /\ t # "service" /\ r.at \in AssignLabels => (t = "station" /\ r.by = "auto") \/ holder = t
AssignerHolds == \A t \in Threads : Assigner(t, thread[t], lock["cab"])

(* What a step does to the threads, field by field. *)
LEMMA GoesFields ==
  ASSUME TypeOK, NEW t \in Threads, NEW l \in Labels, Goes(t, l)
  PROVE  /\ thread'[t].at = l
         /\ l \notin Fresher => thread'[t].cab = thread[t].cab /\ thread'[t].by = thread[t].by
         /\ \A u \in Threads : u # t => thread'[u] = thread[u]
<1>1. CASE l \in Fresher
  BY <1>1, FreshFields, GoesFresh, Moved
<1>2. CASE l \notin Fresher
  <2>1. Still(t, l) \in ThreadRecord /\ Moves(t, Still(t, l))
    BY <1>2, StillFields, GoesStill
  <2> QED BY <1>2, <2>1, StillFields, Moved
<1> QED BY <1>1, <1>2

LEMMA PutsFields ==
  ASSUME TypeOK, NEW t \in Threads, NEW l, NEW c, NEW b, NEW k, Puts(t, l, c, b, k)
  PROVE  /\ thread'[t].at = l /\ thread'[t].cab = c /\ thread'[t].by = b
         /\ \A u \in Threads : u # t => thread'[u] = thread[u]
BY Fields DEF Puts

Others(t) == \A u \in Threads : u # t => thread'[u] = thread[u]

(* A step of a thread that neither was resetting a pack nor comes to blank it. *)
LEMMA QuietThere ==
  ASSUME ThereInv, NEW t \in Threads, Others(t),
         ~Resetting(thread[t]), thread'[t].at # "blank",
         UNCHANGED <<bp, assigning>>, crossed \subseteq crossed',
         \A c \in Cabs : cab[c].pack = "none" => cab'[c].pack = "none",
         Announcing' <=> Announcing
  PROVE  ThereInv'
<1>1. \A c \in Cabs : (There(c) => There(c)') /\ (Resets(c) => Resets(c)') /\ (GoneFor(c) => GoneFor(c)')
  BY DEF There, Resets, Resetting, GoneFor, Others
<1>2. \A c \in Cabs : BeingReset(c)' => BeingReset(c)
  BY DEF BeingReset, Others
<1>3. SnThere'
  BY <1>1 DEF ThereInv, SnThere
<1>4. PackThere'
  BY <1>1 DEF ThereInv, PackThere
<1>5. BlankShown'
  BY <1>2 DEF ThereInv, BlankShown
<1>6. AnnouncedThere'
  BY DEF ThereInv, AnnouncedThere
<1> QED BY <1>3, <1>4, <1>5, <1>6 DEF ThereInv

(* A step that changes the record of one pack, which is not assigned then: it  *)
(* has no number, or had it before.                                            *)
LEMMA RecordThere ==
  ASSUME CabinetsInv, ThereInv, NEW t \in Threads, Others(t), ~Resetting(thread[t]), ~Resetting(thread'[t]),
         ~Announcing', UNCHANGED cab, crossed \subseteq crossed',
         \A c \in Cabs : bp'[c].sn => bp[c].sn,
         \A c \in Cabs : There(c) => There(c)' \/ c \in crossed'
  PROVE  ThereInv'
<1>1. \A c \in Cabs : (Resets(c) => Resets(c)') /\ (GoneFor(c) => GoneFor(c)')
  BY DEF Resets, Resetting, GoneFor, Others
<1>2. \A c \in Cabs : BeingReset(c)' => BeingReset(c)
  BY DEF BeingReset, Others, Resetting
<1>3. SnThere'
  BY <1>1 DEF ThereInv, SnThere
<1>4. PackThere'
  BY <1>1 DEF ThereInv, PackThere
<1>5. BlankShown'
  BY <1>2 DEF ThereInv, BlankShown
<1>6. AnnouncedThere'
  BY DEF AnnouncedThere
<1> QED BY <1>3, <1>4, <1>5, <1>6 DEF ThereInv

LEMMA ServiceThread == "service" \in Threads /\ "station" \in Threads /\ "app" \in Threads
BY DEF Threads

(* Whoever holds the assignment's lock keeps the service from announcing. *)
LEMMA HolderAnnounces ==
  ASSUME CabinetsInv, NEW t \in Threads, HasAsg(t, thread[t])
  PROVE  /\ t # "service" => ~Announcing
         /\ assigning = thread[t].cab
BY ServiceThread DEF CabinetsInv, AsgLock, HasAsg, Announcing

LEMMA LockFree == ASSUME CabinetsInv, lock["asg"] = None PROVE ~Announcing
BY ServiceThread, CabinetsAssumption DEF CabinetsInv, AsgLock, HasAsg, Announcing

LEMMA QuietSteps ==
  ASSUME CabinetsInv, ThereInv, NEW t \in Threads,
         \/ ManagerChecks(t) \/ InterfaceChecks(t) \/ Status(t) \/ Deselect(t) \/ AssignBp(t) \/ Back(t)
  PROVE  ThereInv'
<1>t. TypeOK /\ Well(t, thread[t]) /\ UNCHANGED records
  BY DEF CabinetsInv, ThreadInv, ManagerChecks, InterfaceChecks, CheckAt, Status, Deselect, AssignBp, Back
<1>1. PICK l \in {"status", "check2", "add", "connect", "finish", "back", "failed", "polled", "idle", "check1"} :
        /\ thread'[t].at = l /\ Others(t)
        /\ t = "service" => l \in {"connect", "finish"} /\ thread[t].at = "status"
        /\ thread[t].at \in {"check1", "check2", "status", "deselect", "call", "back"}
  <2>1. ASSUME NEW m \in {"check1", "check2"}, NEW n \in {"check2", "add"}, CheckAt(t, m, n)
        PROVE  thread'[t].at \in {"status", n} /\ Others(t) /\ thread[t].at = m
    BY <1>t, <2>1, PutsFields DEF CheckAt, At, Others
  <2>2. CASE ManagerChecks(t) \/ InterfaceChecks(t)
    BY <1>t, <2>1, <2>2 DEF ManagerChecks, InterfaceChecks, Well
  <2>3. CASE Status(t)
    <3>1. PICK l \in {"connect", thread[t].then} : Goes(t, l) /\ thread[t].at = "status"
      BY <2>3 DEF Status, At
    <3>2. l \in {"connect", "check2", "add", "finish"} /\ (t = "service" => l \in {"connect", "finish"})
      BY <1>t, <3>1 DEF Well
    <3> QED BY <1>t, <3>1, <3>2, GoesFields DEF Others, Labels
  <2>4. CASE Deselect(t)
    BY <1>t, <2>4, GoesFields DEF Deselect, At, Others, Labels, Well
  <2>5. CASE AssignBp(t)
    <3>1. thread[t].at = "call" /\ t # "service"
      BY <1>t, <2>5 DEF AssignBp, At, Well
    <3>2. CASE Goes(t, AfterCall(t))
      BY <1>t, <3>1, <3>2, GoesFields DEF AfterCall, Others, Labels
    <3>3. CASE Puts(t, "check1", thread[t].cab, IF t = "station" THEN "door" ELSE "app", "idle")
      BY <1>t, <3>1, <3>3, PutsFields DEF Others
    <3> QED BY <2>5, <3>2, <3>3 DEF AssignBp
  <2>6. CASE Back(t)
    <3>1. thread[t].at = "back" /\ t # "service"
      BY <1>t, <2>6 DEF Back, At, Well
    <3> QED BY <1>t, <2>6, <3>1, GoesFields DEF Back, AfterCall, Others, Labels
  <2> QED BY <2>2, <2>3, <2>4, <2>5, <2>6
<1>2. Announcing' <=> Announcing
  BY <1>1, ServiceThread DEF Announcing, Others
<1> QED BY <1>t, <1>1, <1>2, QuietThere DEF Resetting, records

LEMMA StationQuiet ==
  ASSUME CabinetsInv, ThereInv,
         \/ ForceStart \/ ForceGone \/ ForceAssigned \/ ForceAgain \/ ForceBack
         \/ Scan \/ AutoBack \/ Waiting \/ PollNothing \/ \E c \in Cabs : PollDoor(c) \/ Polled(c)
  PROVE  ThereInv'
<1>t. TypeOK /\ UNCHANGED <<bp, assigning, crossed>>
  BY DEF CabinetsInv, ForceStart, ForceGone, ForceAssigned, ForceAgain, ForceBack, Scan, AutoBack, Waiting,
         PollNothing, PollDoor, Polled, records
<1>1. /\ thread["station"].at \in {"start", "force", "back", "poll", "polled"} /\ Others("station")
      /\ thread'["station"].at # "blank"
  <2>1. CASE \/ ForceStart \/ ForceGone \/ ForceAssigned \/ ForceBack \/ AutoBack \/ Waiting \/ PollNothing
    BY <1>t, <2>1, GoesFields, ServiceThread
       DEF ForceStart, ForceGone, ForceAssigned, ForceBack, AutoBack, Waiting, PollNothing, At, Others, Labels
  <2>2. CASE ForceAgain
    BY <1>t, <2>2, PutsFields, ServiceThread DEF ForceAgain, At, Others
  <2>3. CASE Scan
    BY <1>t, <2>3, PutsFields, GoesFields, ServiceThread DEF Scan, At, Others, Labels
  <2>4. CASE \E c \in Cabs : PollDoor(c) \/ Polled(c)
    BY <1>t, <2>4, PutsFields, GoesFields, ServiceThread DEF PollDoor, Polled, ResetOf, At, Others, Labels
  <2> QED BY <2>1, <2>2, <2>3, <2>4
<1>2. \A c \in Cabs : cab[c].pack = "none" => cab'[c].pack = "none"
  <2>1. CASE UNCHANGED cab
    BY <2>1
  <2>2. CASE \E c \in Cabs : PollDoor(c)
    BY <1>t, <2>2 DEF PollDoor, DoorMoved, TypeOK
  <2>3. CASE \E c \in Cabs : Polled(c)
    BY <1>t, <2>3 DEF Polled, TypeOK
  <2> QED BY <2>1, <2>2, <2>3
          DEF ForceStart, ForceGone, ForceAssigned, ForceAgain, ForceBack, Scan, AutoBack, Waiting, PollNothing, records
<1>3. Announcing' <=> Announcing
  BY <1>1, ServiceThread DEF Announcing, Others
<1> QED BY <1>t, <1>1, <1>2, <1>3, QuietThere, ServiceThread DEF Resetting

(* A call of the application, and the service takes up a failed or silent pack. *)
LEMMA BeginThere ==
  ASSUME CabinetsInv, ThereInv, CallAssign \/ GiveUp \/ Silent
  PROVE  ThereInv'
<1>1. PICK t \in {"app", "service"} :
        /\ thread[t].at = "idle" /\ thread'[t].at \in {"call", "failed", "gone"} /\ Others(t)
        /\ UNCHANGED records
  BY PutsFields, ServiceThread DEF CabinetsInv, CallAssign, GiveUp, Silent, At, Others
<1>2. Announcing' <=> Announcing
  BY <1>1, ServiceThread DEF Announcing, Others
<1> QED BY <1>1, <1>2, QuietThere, ServiceThread DEF Resetting, records

LEMMA ConnectThere ==
  ASSUME CabinetsInv, ThereInv, AssignerHolds, NEW t \in Threads, Connect(t)
  PROVE  ThereInv'
<1> DEFINE c == thread[t].cab
<1>1. /\ thread[t].at = "connect" /\ c \in Cabs /\ lock["cab"] = None
      /\ thread[t].then \in (IF t = "service" THEN {"finish"} ELSE {"check2", "add"})
      /\ Goes(t, thread[t].then) /\ UNCHANGED <<bp, assigning>> /\ TypeOK
      /\ crossed' = IF BeingReset(c) THEN crossed \cup {c} ELSE crossed
  BY DEF CabinetsInv, Connect, Connected, Free, At, ThreadInv, Well, Fresher
<1>2. /\ \A d \in Cabs \ {c} : cab'[d].pack = cab[d].pack
      /\ cab'[c].pack # "none" => bp[c].sn
  BY <1>1 DEF Connect, Connected, Charge, TypeOK
<1>3. Others(t) /\ thread'[t].at \in {"finish", "check2", "add"} /\ (t = "service" => thread'[t].at = "finish")
  BY <1>1, GoesFields DEF Others, Labels
<1>4. Announcing' <=> Announcing
  BY <1>1, <1>3, ServiceThread DEF Announcing, Others
<1>5. \A d \in Cabs : (There(d) => There(d)') /\ (Resets(d) => Resets(d)') /\ (GoneFor(d) => GoneFor(d)')
  BY <1>1, <1>3, <1>4 DEF There, Resets, Resetting, GoneFor, Others
<1>6. \A d \in Cabs : BeingReset(d)' => BeingReset(d)
  BY <1>1, <1>3 DEF BeingReset, Others
<1>7. SnThere' /\ AnnouncedThere'
  BY <1>1, <1>4, <1>5 DEF ThereInv, SnThere, AnnouncedThere
<1>8. BlankShown'
  BY <1>1, <1>2, <1>6 DEF ThereInv, BlankShown
<1>9. bp[c].sn => There(c) \/ c \in crossed' \/ GoneFor(c)
  <2>1. CASE t = "service"
    BY <1>1, <2>1 DEF There, Announcing, ThereInv, AnnouncedThere, CabinetsInv, AsgLock, HasAsg
  <2>2. CASE t # "service"
    <3>1. t = "station"
      BY <1>1, <2>2, CabinetsAssumption DEF AssignerHolds, Assigner, AssignLabels
    <3>2. \A u \in Threads : thread[u].at # "reset"
      BY <1>1, <3>1, ServiceThread DEF CabinetsInv, ThreadInv, Well, Threads, AssignerHolds, Assigner, Resetting
    <3>3. Resets(c) => BeingReset(c) \/ GoneFor(c)
      BY <3>2 DEF Resets, Resetting, BeingReset, GoneFor
    <3> QED BY <1>1, <3>3 DEF ThereInv, SnThere
  <2> QED BY <2>1, <2>2
<1>10. PackThere'
  BY <1>1, <1>2, <1>5, <1>9 DEF ThereInv, PackThere
<1> QED BY <1>7, <1>8, <1>10 DEF ThereInv

LEMMA AddThere ==
  ASSUME CabinetsInv, ThereInv, NEW t \in Threads, Add(t)
  PROVE  ThereInv'
<1> DEFINE c == thread[t].cab
<1>1. /\ thread[t].at = "add" /\ c \in Cabs /\ t # "service" /\ TypeOK /\ UNCHANGED cab /\ lock["asg"] = None
      /\ crossed' = IF bp[c].status = "assigned" THEN crossed \cup {c} ELSE crossed
  BY DEF CabinetsInv, Add, Takes, Free, At, ThreadInv, Well, Fresher
<1>2. ~Announcing
  BY <1>1, LockFree
<1>3. Others(t) /\ thread'[t].at \in {"back", "select"}
  BY <1>1, GoesFields DEF Add, Others, Labels
<1>4. ~Announcing'
  BY <1>1, <1>2, <1>3, ServiceThread DEF Announcing, Others
<1>5. CASE UNCHANGED <<bp, assigning>>
  BY <1>1, <1>2, <1>3, <1>4, <1>5, QuietThere DEF Resetting
<1>6. CASE /\ assigning' = c
           /\ bp' = [b \in Cabs |-> IF b = assigning THEN [bp[b] EXCEPT !.status = "off"] ELSE bp[b]]
  <2>1. \A d \in Cabs : bp'[d].sn = bp[d].sn /\ (d # assigning => bp'[d] = bp[d])
    BY <1>1, <1>6 DEF TypeOK
  <2>2. \A d \in Cabs : There(d) => There(d)' \/ d \in crossed'
    BY <1>1, <1>2, <1>6, <2>1 DEF There
  <2> QED BY <1>1, <1>3, <1>4, <2>1, <2>2, RecordThere DEF Resetting
<1> QED BY <1>5, <1>6 DEF Add

LEMMA SelectThere ==
  ASSUME CabinetsInv, ThereInv, NEW t \in Threads, Select(t) \/ Failed(t)
  PROVE  ThereInv'
<1> DEFINE c == thread[t].cab
<1>1. /\ thread[t].at \in {"select", "failed"} /\ c \in Cabs /\ TypeOK
      /\ (t = "service" => thread[t].at = "failed") /\ UNCHANGED <<cab, crossed>>
  BY DEF CabinetsInv, Select, Failed, At, ThreadInv, Well, Fresher
<1>2. ~Announcing /\ assigning = c
  <2>1. HasAsg(t, thread[t])
    BY <1>1 DEF HasAsg
  <2> QED BY <1>1, <2>1, HolderAnnounces DEF Announcing
<1>3. Others(t) /\ thread'[t].at \in {"deselect", "failed", "idle", "back"} /\ (t = "service" => thread'[t].at = "idle")
  BY <1>1, GoesFields DEF Select, Failed, At, Others, Labels
<1>4. ~Announcing'
  BY <1>2, <1>3, ServiceThread DEF Announcing, Others
<1>5. \A d \in Cabs : (bp'[d].sn => bp[d].sn) /\ (d # c => bp'[d] = bp[d])
  BY <1>1 DEF Select, Failed, Blank, TypeOK
<1>6. assigning' \in {assigning, None}
  BY DEF Select, Failed, NoneAssigned
<1>7. \A d \in Cabs : There(d) => There(d)' \/ d \in crossed'
  BY <1>1, <1>2, <1>5, <1>6, CabinetsAssumption DEF There
<1> QED BY <1>1, <1>3, <1>4, <1>5, <1>7, RecordThere DEF Resetting

LEMMA ServiceThere ==
  ASSUME CabinetsInv, ThereInv, Progress \/ Finish
  PROVE  ThereInv'
<1>1. TypeOK /\ UNCHANGED <<cab, crossed>>
  BY DEF CabinetsInv, Progress, Finish
<1>2. CASE Progress
  <2>1. UNCHANGED <<thread, assigning>> /\ thread["service"].at = "idle" /\ assigning \in Cabs
    BY <1>1, <1>2 DEF Progress, At, TypeOK
  <2>2. \A d \in Cabs : bp'[d].sn = bp[d].sn /\ (d # assigning => bp'[d] = bp[d])
    BY <1>1, <1>2, <2>1 DEF Progress, TypeOK
  <2>3. ~Announcing /\ ~Announcing' /\ Others("service") /\ ~Resetting(thread["service"])
    BY <2>1 DEF Announcing, Others, Resetting
  <2>4. \A d \in Cabs : There(d) => There(d)'
    BY <2>1, <2>2, <2>3 DEF There
  <2> QED BY <1>1, <2>1, <2>2, <2>3, <2>4, RecordThere, ServiceThread
<1>3. CASE Finish
  <2>1. /\ thread["service"].at = "finish" /\ thread'["service"].at = "idle" /\ Others("service")
        /\ assigning' = None /\ UNCHANGED bp
    BY <1>1, <1>3, GoesFields, ServiceThread DEF Finish, NoneAssigned, At, Others, Labels
  <2>2. ~Announcing' /\ \A d \in Cabs : There(d) => There(d)'
    BY <2>1, CabinetsAssumption DEF Announcing, There
  <2> QED BY <1>1, <2>1, <2>2, RecordThere, ServiceThread DEF Resetting
<1> QED BY <1>2, <1>3

LEMMA AnnounceThere ==
  ASSUME CabinetsInv, ThereInv, Announce
  PROVE  ThereInv'
<1>1. /\ TypeOK /\ thread["service"].at = "idle" /\ assigning \in Cabs /\ bp[assigning].status = "assigned"
      /\ bp' = [bp EXCEPT ![assigning].sn = TRUE] /\ UNCHANGED <<cab, assigning, crossed>>
      /\ thread'["service"].at = "status" /\ Others("service")
  BY PutsFields, ServiceThread DEF CabinetsInv, Announce, At, Others, TypeOK
<1>2. /\ \A d \in Cabs : bp'[d].status = bp[d].status /\ (d # assigning => bp'[d] = bp[d])
      /\ bp'[assigning].status = "assigned"
  BY <1>1 DEF TypeOK
<1>3. Announcing' /\ There(assigning)'
  BY <1>1, <1>2 DEF Announcing, There
<1>4. \A d \in Cabs : (There(d) => There(d)') /\ (Resets(d) => Resets(d)') /\ (GoneFor(d) => GoneFor(d)')
  BY <1>1, <1>2, <1>3 DEF There, Resets, Resetting, GoneFor, Others
<1>5. \A d \in Cabs : BeingReset(d)' => BeingReset(d)
  BY <1>1 DEF BeingReset, Others
<1>6. SnThere'
  BY <1>1, <1>2, <1>3, <1>4 DEF ThereInv, SnThere
<1>7. PackThere' /\ BlankShown' /\ AnnouncedThere'
  BY <1>1, <1>2, <1>4, <1>5 DEF ThereInv, PackThere, BlankShown, AnnouncedThere
<1> QED BY <1>6, <1>7 DEF ThereInv

LEMMA ResetThere ==
  ASSUME CabinetsInv, ThereInv, NEW t \in Threads, Reset(t)
  PROVE  ThereInv'
<1> DEFINE c == thread[t].cab
<1>1. /\ thread[t].at = "reset" /\ c \in Cabs /\ TypeOK /\ t # "service"
      /\ thread[t].then \in {"start", "polled", "call"}
      /\ UNCHANGED <<cab, assigning, crossed>>
  BY DEF CabinetsInv, Reset, At, ThreadInv, Well, Fresher
<1>2. /\ Others(t) /\ thread'[t].at \in {"gone", "start", "polled", "call"}
      /\ thread'[t].at = "gone" => thread'[t].cab = c
  BY <1>1, GoesFields DEF Reset, Others, Labels, Fresher
<1>3. Announcing' <=> Announcing
  BY <1>1, <1>2, ServiceThread DEF Announcing, Others
<1>4. /\ \A d \in Cabs : GoneFor(d) => GoneFor(d)'
      /\ \A d \in Cabs : BeingReset(d)' => BeingReset(d)
      /\ \A d \in Cabs \ {c} : Resets(d) => Resets(d)'
  BY <1>1, <1>2 DEF GoneFor, BeingReset, Resets, Others
<1>5. CASE thread'[t].at = "gone" /\ UNCHANGED bp
  <2>1. \A d \in Cabs : d = c => Resets(d)'
    BY <1>2, <1>5 DEF Resets, Resetting
  <2>2. \A d \in Cabs : There(d) => There(d)'
    BY <1>1, <1>3, <1>5 DEF There
  <2>3. SnThere'
    <3> SUFFICES ASSUME NEW d \in Cabs, bp[d].sn PROVE There(d)' \/ d \in crossed \/ Resets(d)'
      BY <1>1, <1>5 DEF SnThere
    <3> QED BY <1>4, <2>1, <2>2 DEF ThereInv, SnThere
  <2>4. PackThere' /\ BlankShown' /\ AnnouncedThere'
    BY <1>1, <1>3, <1>4, <1>5, <2>2 DEF ThereInv, PackThere, BlankShown, AnnouncedThere
  <2> QED BY <2>3, <2>4 DEF ThereInv
<1>6. CASE ~Announced(c) /\ bp' = [bp EXCEPT ![c] = Blank]
  <2>1. /\ ~There(c) /\ bp'[c].sn = FALSE /\ \A d \in Cabs \ {c} : bp'[d] = bp[d]
    BY <1>1, <1>6 DEF Announced, There, Blank, TypeOK
  <2>2. \A d \in Cabs : There(d) => There(d)'
    BY <1>1, <1>3, <2>1 DEF There
  <2>3. SnThere'
    BY <1>1, <1>4, <2>1, <2>2 DEF ThereInv, SnThere
  <2>4. PackThere' /\ BlankShown'
    BY <1>1, <1>4, <2>2 DEF ThereInv, PackThere, BlankShown
  <2>5. AnnouncedThere'
    <3>1. Announcing => assigning \in Cabs
      BY ServiceThread DEF CabinetsInv, AsgLock, HasAsg, Announcing, ThreadInv, Well, Fresher
    <3> QED BY <1>1, <1>3, <2>1, <3>1 DEF ThereInv, AnnouncedThere
  <2> QED BY <2>3, <2>4, <2>5 DEF ThereInv
<1>7. Announced(c) => thread'[t].at = "gone" /\ UNCHANGED bp
  BY <1>1, GoesFields DEF Reset, Labels
<1>8. ~Announced(c) => bp' = [bp EXCEPT ![c] = Blank]
  BY DEF Reset
<1> QED BY <1>5, <1>6, <1>7, <1>8

LEMMA GoneThere ==
  ASSUME CabinetsInv, ThereInv, NEW t \in Threads, Gone(t)
  PROVE  ThereInv'
<1> DEFINE c == thread[t].cab
<1>1. /\ thread[t].at = "gone" /\ c \in Cabs /\ TypeOK /\ UNCHANGED <<bp, assigning>>
      /\ crossed' = crossed \ {c} /\ cab'[c].pack = "none" /\ \A d \in Cabs \ {c} : cab'[d] = cab[d]
  BY DEF CabinetsInv, Gone, Disconnected, At, ThreadInv, Well, Fresher, TypeOK
<1>2. Others(t) /\ thread'[t].at = "blank" /\ thread'[t].cab = c
  BY <1>1, GoesFields DEF Gone, Others, Labels, Fresher
<1>3. Announcing' <=> Announcing
  BY <1>1, <1>2, ServiceThread DEF Announcing, Others
<1>4. /\ \A d \in Cabs : Resets(d) => Resets(d)'
      /\ \A d \in Cabs \ {c} : (GoneFor(d) => GoneFor(d)') /\ (BeingReset(d)' => BeingReset(d))
      /\ \A d \in Cabs : There(d) => There(d)'
      /\ \A d \in Cabs : d = c => Resets(d)'
  BY <1>1, <1>2, <1>3 DEF GoneFor, BeingReset, Resets, Resetting, Others, There
<1>5. SnThere'
  BY <1>1, <1>4 DEF ThereInv, SnThere
<1>6. PackThere' /\ BlankShown'
  BY <1>1, <1>4 DEF ThereInv, PackThere, BlankShown
<1>7. AnnouncedThere'
  BY <1>1, <1>3 DEF ThereInv, AnnouncedThere
<1> QED BY <1>5, <1>6, <1>7 DEF ThereInv

LEMMA BlankThere ==
  ASSUME CabinetsInv, ThereInv, NEW t \in Threads, BlankBp(t)
  PROVE  ThereInv'
<1> DEFINE c == thread[t].cab
<1>1. /\ thread[t].at = "blank" /\ c \in Cabs /\ TypeOK /\ UNCHANGED <<cab, assigning, crossed>>
      /\ thread[t].then \in {"idle", "start", "polled", "call"} /\ (t = "service" => thread[t].then = "idle")
      /\ bp'[c] = Blank /\ \A d \in Cabs \ {c} : bp'[d] = bp[d]
  BY DEF CabinetsInv, BlankBp, At, ThreadInv, Well, Fresher, TypeOK
<1>2. Others(t) /\ thread'[t].at \in {"idle", "start", "polled", "call"} /\ (t = "service" => thread'[t].at = "idle")
  BY <1>1, GoesFields DEF BlankBp, Others, Labels
<1>3. Announcing' <=> Announcing
  BY <1>1, <1>2, ServiceThread DEF Announcing, Others
<1>4. /\ \A d \in Cabs \ {c} : (Resets(d) => Resets(d)') /\ (There(d) => There(d)')
      /\ \A d \in Cabs : (GoneFor(d) => GoneFor(d)') /\ (BeingReset(d)' => BeingReset(d))
      /\ BeingReset(c)
  BY <1>1, <1>2, <1>3 DEF GoneFor, BeingReset, Resets, Others, There
<1>5. SnThere'
  <2> SUFFICES ASSUME NEW d \in Cabs \ {c}, bp[d].sn PROVE There(d)' \/ d \in crossed \/ Resets(d)'
    BY <1>1 DEF SnThere, Blank
  <2> QED BY <1>4 DEF ThereInv, SnThere
<1>6. PackThere' /\ BlankShown'
  BY <1>1, <1>4 DEF ThereInv, PackThere, BlankShown
<1>7. AnnouncedThere'
  <2>1. Announcing => assigning \in Cabs
    BY ServiceThread DEF CabinetsInv, AsgLock, HasAsg, Announcing, ThreadInv, Well, Fresher
  <2> QED BY <1>1, <1>3, <2>1 DEF ThereInv, AnnouncedThere, Blank
<1> QED BY <1>5, <1>6, <1>7 DEF ThereInv

LEMMA LostThere ==
  ASSUME CabinetsInv, ThereInv, NEW c \in Cabs, PollLost(c)
  PROVE  ThereInv'
<1>1. /\ thread["station"].at = "poll" /\ TypeOK /\ UNCHANGED <<bp, assigning>>
      /\ crossed' = crossed \ {c} /\ cab'[c].pack = "none" /\ \A d \in Cabs \ {c} : cab'[d] = cab[d]
  BY DEF CabinetsInv, PollLost, At, TypeOK
<1>2. Others("station") /\ thread'["station"].at = "reset" /\ thread'["station"].cab = c
  BY <1>1, PutsFields, ServiceThread DEF PollLost, ResetOf, Others
<1>3. Announcing' <=> Announcing
  BY <1>1, <1>2, ServiceThread DEF Announcing, Others
<1>4. /\ \A d \in Cabs : Resets(d) => Resets(d)'
      /\ \A d \in Cabs : (GoneFor(d) => GoneFor(d)') /\ (BeingReset(d)' => BeingReset(d))
      /\ \A d \in Cabs : There(d) => There(d)'
      /\ \A d \in Cabs : d = c => Resets(d)'
  BY <1>1, <1>2, <1>3, ServiceThread DEF GoneFor, BeingReset, Resets, Resetting, Others, There
<1>5. SnThere'
  BY <1>1, <1>4 DEF ThereInv, SnThere
<1>6. PackThere' /\ BlankShown'
  BY <1>1, <1>4 DEF ThereInv, PackThere, BlankShown
<1>7. AnnouncedThere'
  BY <1>1, <1>3 DEF ThereInv, AnnouncedThere
<1> QED BY <1>5, <1>6, <1>7 DEF ThereInv

LEMMA NextThere == CabinetsInv /\ AssignerHolds /\ ThereInv /\ [Next]_vars => ThereInv'
<1> SUFFICES ASSUME CabinetsInv, AssignerHolds, ThereInv, [Next]_vars PROVE ThereInv'
  OBVIOUS
<1>1. CASE Station
  BY <1>1, StationQuiet, LostThere DEF Station
<1>2. CASE Service \/ CallAssign
  BY <1>2, BeginThere, ServiceThere, AnnounceThere DEF Service
<1>3. ASSUME NEW t \in Threads, Both(t) PROVE ThereInv'
  BY <1>3, QuietSteps, ConnectThere, AddThere, SelectThere, ResetThere, GoneThere, BlankThere DEF Both
<1>4. CASE UNCHANGED vars
  BY <1>4 DEF vars, ThereInv, SnThere, PackThere, BlankShown, AnnouncedThere, There, Announcing,
              Resets, Resetting, GoneFor, BeingReset
<1> QED BY <1>1, <1>2, <1>3, <1>4 DEF Next

-----------------------------------------------------------------------------
(* A step of one thread, and what it leaves of the cabinets' lock. *)
LEMMA AssignerStep ==
  ASSUME AssignerHolds, NEW t \in Threads, Others(t),
         Assigner(t, thread'[t], lock'["cab"]),
         \A u \in Threads \ {t} : lock["cab"] = u => lock'["cab"] = u
  PROVE  AssignerHolds'
<1> SUFFICES ASSUME NEW u \in Threads PROVE Assigner(u, thread'[u], lock'["cab"])
  BY DEF AssignerHolds
<1> QED BY DEF AssignerHolds, Assigner, Others

LEMMA BothAssigner ==
  ASSUME CabinetsInv, AssignerHolds, NEW t \in Threads, Both(t)
  PROVE  AssignerHolds'
<1>t. TypeOK /\ Well(t, thread[t]) /\ Assigner(t, thread[t], lock["cab"]) /\ lock \in [Locks -> Threads \cup {None}] /\ t # None
  BY CabinetsAssumption DEF CabinetsInv, TypeOK, ThreadInv, AssignerHolds
<1>1. CASE ManagerChecks(t) \/ InterfaceChecks(t)
  <2>1. PICK l \in {"status", "check2", "add"} :
          /\ thread'[t].at = l /\ thread'[t].by = thread[t].by /\ Others(t) /\ UNCHANGED lock
          /\ thread[t].at \in AssignLabels
    BY <1>t, <1>1, PutsFields DEF ManagerChecks, InterfaceChecks, CheckAt, At, Others, AssignLabels
  <2> QED BY <1>t, <2>1, AssignerStep DEF Assigner, AssignLabels, Resetting
<1>2. CASE Status(t) \/ Connect(t)
  <2>1. PICK l \in {"connect", "check2", "add", "finish"} :
          Goes(t, l) /\ UNCHANGED lock /\ thread[t].at \in AssignLabels
    BY <1>t, <1>2 DEF Status, Connect, At, AssignLabels, Well
  <2>2. thread'[t].at = l /\ thread'[t].by = thread[t].by /\ Others(t)
    BY <1>t, <2>1, GoesFields DEF Others, Labels, Fresher
  <2> QED BY <1>t, <2>1, <2>2, AssignerStep DEF Assigner, AssignLabels, Resetting
<1>3. CASE Add(t) \/ Select(t) \/ Deselect(t) \/ Failed(t)
  <2>1. PICK l \in {"back", "select", "deselect", "failed", "idle"} :
          Goes(t, l) /\ lock'["cab"] = lock["cab"] /\ thread[t].at \in AssignLabels /\ (l = "idle" => t = "service")
    BY <1>t, <1>3 DEF Add, Takes, Select, Deselect, Failed, At, AssignLabels, Locks
  <2>2. thread'[t].at = l /\ Others(t) /\ (l # "idle" => thread'[t].by = thread[t].by)
    BY <1>t, <2>1, GoesFields DEF Others, Labels, Fresher
  <2> QED BY <1>t, <2>1, <2>2, AssignerStep DEF Assigner, AssignLabels, Resetting
<1>4. CASE Reset(t) \/ Gone(t) \/ BlankBp(t)
  <2>1. PICK l \in {"gone", "blank", "idle", "start", "polled", "call"} :
          Goes(t, l) /\ lock'["cab"] = lock["cab"] /\ Resetting(thread[t])
    BY <1>t, <1>4 DEF Reset, Takes, Gone, BlankBp, Unlocked, At, Locks, Resetting, Well
  <2>2. thread'[t].at = l /\ Others(t)
    BY <1>t, <2>1, GoesFields DEF Others, Labels
  <2> QED BY <1>t, <2>1, <2>2, AssignerStep DEF Assigner, AssignLabels
<1>5. CASE AssignBp(t)
  <2>0. thread[t].at = "call" /\ t # "service"
    BY <1>t, <1>5 DEF AssignBp, At, Well
  <2>1. CASE Goes(t, AfterCall(t)) /\ UNCHANGED lock
    <3>1. thread'[t].at \in {"polled", "idle"} /\ Others(t)
      BY <1>t, <2>1, GoesFields DEF AfterCall, Others, Labels
    <3> QED BY <2>1, <3>1, AssignerStep DEF Assigner, AssignLabels, Resetting
  <2>2. CASE Takes(t, "cab") /\ \E b : Puts(t, "check1", thread[t].cab, b, "idle")
    <3>1. thread'[t].at = "check1" /\ Others(t)
      BY <1>t, <2>2, PutsFields DEF Others
    <3>2. lock["cab"] = None /\ lock'["cab"] = t
      BY <1>t, <2>2 DEF Takes, Free, Locks
    <3> QED BY <3>1, <3>2, AssignerStep, CabinetsAssumption DEF Assigner, AssignLabels, Resetting
  <2> QED BY <1>5, <2>1, <2>2 DEF AssignBp
<1>6. CASE Back(t)
  <2>1. thread[t].at = "back" /\ thread[t].by # "auto" /\ t # "service" /\ lock' = [lock EXCEPT !["cab"] = None]
    BY <1>t, <1>6 DEF Back, At, Well
  <2>2. lock["cab"] = t
    BY <1>t, <2>1 DEF Assigner, AssignLabels
  <2>3. thread'[t].at \in {"polled", "idle"} /\ Others(t)
    BY <1>t, <1>6, GoesFields DEF Back, AfterCall, Others, Labels
  <2> QED BY <2>2, <2>3, AssignerStep DEF Assigner, AssignLabels, Resetting
<1> QED BY <1>1, <1>2, <1>3, <1>4, <1>5, <1>6 DEF Both

LEMMA StationAssigner ==
  ASSUME CabinetsInv, AssignerHolds, Station
  PROVE  AssignerHolds'
<1> DEFINE here == thread["station"]
<1>t. /\ TypeOK /\ lock \in [Locks -> Threads \cup {None}] /\ "station" \in Threads
      /\ Assigner("station", here, lock["cab"])
  BY ServiceThread DEF CabinetsInv, TypeOK, AssignerHolds
<1>1. CASE \/ ForceStart \/ ForceGone \/ ForceAssigned \/ AutoBack \/ Waiting \/ PollNothing
           \/ \E c \in Cabs : PollLost(c) \/ PollDoor(c) \/ Polled(c)
  <2>1. UNCHANGED lock /\ thread'["station"].at \in {"force", "crashed", "poll", "start", "reset"} /\ Others("station")
    <3>1. CASE \/ ForceStart \/ ForceGone \/ ForceAssigned \/ AutoBack \/ Waiting \/ PollNothing
      BY <1>t, <3>1, GoesFields
         DEF ForceStart, ForceGone, ForceAssigned, AutoBack, Waiting, PollNothing, Others, Labels
    <3>2. CASE \E c \in Cabs : PollLost(c) \/ PollDoor(c)
      BY <1>t, <3>2, PutsFields DEF PollLost, PollDoor, ResetOf, Others
    <3>3. CASE \E c \in Cabs : Polled(c)
      BY <1>t, <3>3, GoesFields DEF Polled, Others, Labels
    <3> QED BY <1>1, <3>1, <3>2, <3>3
  <2> QED BY <1>t, <2>1, AssignerStep DEF Assigner, AssignLabels
<1>2. CASE Scan
  <2>1. /\ UNCHANGED lock /\ Others("station")
        /\ \/ thread'["station"].at = "poll"
           \/ thread'["station"].at = "check1" /\ thread'["station"].by = "auto"
    BY <1>t, <1>2, GoesFields, PutsFields DEF Scan, Others, Labels
  <2> QED BY <1>t, <2>1, AssignerStep DEF Assigner, AssignLabels
<1>3. CASE ForceAgain
  <2>1. thread'["station"].at = "check1" /\ Others("station") /\ lock["cab"] = None /\ lock'["cab"] = "station"
    BY <1>t, <1>3, PutsFields DEF ForceAgain, Takes, Free, Others, Locks
  <2> QED BY <1>t, <2>1, AssignerStep, CabinetsAssumption DEF Assigner
<1>4. CASE ForceBack
  <2>1. here.at = "back" /\ here.by = "forced" /\ thread'["station"].at = "poll" /\ Others("station")
    BY <1>t, <1>4, GoesFields DEF ForceBack, At, Others, Labels
  <2>2. lock["cab"] = "station"
    BY <1>t, <2>1 DEF Assigner, AssignLabels
  <2> QED BY <1>t, <2>1, <2>2, AssignerStep DEF Assigner, AssignLabels
<1> QED BY <1>1, <1>2, <1>3, <1>4 DEF Station

LEMMA NextAssigner == CabinetsInv /\ AssignerHolds /\ [Next]_vars => AssignerHolds'
<1> SUFFICES ASSUME CabinetsInv, AssignerHolds, [Next]_vars PROVE AssignerHolds'
  OBVIOUS
<1>t. TypeOK /\ lock \in [Locks -> Threads \cup {None}]
  BY DEF CabinetsInv, TypeOK
<1>1. CASE Service
  <2>1. Others("service") /\ lock'["cab"] = lock["cab"]
    BY <1>t, <1>1, GoesFields, PutsFields, ServiceThread
       DEF Service, Progress, Announce, Finish, GiveUp, Silent, Takes, Others, Locks, Labels
  <2> QED BY <2>1, AssignerStep, ServiceThread DEF Assigner
<1>2. CASE CallAssign
  <2>1. Others("app") /\ UNCHANGED lock /\ thread'["app"].at = "call"
    BY <1>t, <1>2, PutsFields, ServiceThread DEF CallAssign, Others
  <2> QED BY <2>1, AssignerStep, ServiceThread DEF Assigner, AssignLabels, Resetting
<1>3. CASE UNCHANGED vars
  BY <1>3 DEF vars, AssignerHolds, Assigner, Resetting
<1> QED BY <1>1, <1>2, <1>3, StationAssigner, BothAssigner DEF Next

LEMMA InitThere == Init => AssignerHolds /\ ThereInv
<1> SUFFICES ASSUME Init PROVE AssignerHolds /\ ThereInv
  OBVIOUS
<1>1. \A t \in Threads : thread[t].at \in {"start", "idle"}
  BY DEF Init, Fresh
<1>2. \A c \in Cabs : cab[c].pack = "none" /\ bp[c].sn = FALSE
  BY DEF Init, NewCab, Blank
<1> QED BY <1>1, <1>2, ServiceThread
        DEF AssignerHolds, Assigner, AssignLabels, Resetting, ThereInv, SnThere, PackThere, BlankShown,
            AnnouncedThere, Announcing, BeingReset

(* A cabinet that shows a pack outside of its announcements and resets has    *)
(* one assigned behind it, unless the announcement fell into a reset: what    *)
(* the other thread does between two locks leaves no other stale display.     *)
THEOREM ShownsAreThere == Spec => []ShownIsThere
<1>1. Init => CabinetsInv /\ AssignerHolds /\ ThereInv
  BY InitInv, InitThere
<1>2. (CabinetsInv /\ AssignerHolds /\ ThereInv) /\ [Next]_vars => (CabinetsInv /\ AssignerHolds /\ ThereInv)'
  BY NextInv, NextThere, NextAssigner
<1>3. ThereInv => ShownIsThere
  BY DEF ThereInv, PackThere, There, GoneFor, AtWork, ShownIsThere
<1> QED BY <1>1, <1>2, <1>3, PTL DEF Spec
=============================================================================
