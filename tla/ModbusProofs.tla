---------------------------- MODULE ModbusProofs ----------------------------
(***************************************************************************)
(* Proofs about ModbusRtu, for every set of units, requests and contents,  *)
(* and for any number of faults and of frames a unit may be behind.        *)
(***************************************************************************)
EXTENDS ModbusRtu, TLAPS

(* The requests in a port are requests of the master, ...                    *)
OwnRequests(s) == \A i \in DOMAIN s : s[i].kind = "req" => s[i] \in Asked

(* ... none, ...                                                             *)
Clear(s) == \A i \in DOMAIN s : s[i].kind # "req"

(* ... or at most one, which is q.                                           *)
Once(s, q) ==
  \A i \in DOMAIN s : s[i].kind = "req" =>
    s[i] = q /\ \A j \in DOMAIN s : s[j].kind = "req" => i = j

(* An answer that is no exception says what its unit has held (h).           *)
Truthful(f, h) ==
  f.kind \in {"ans", "exc"} /\ (f.kind = "ans" => f.unit \in Units /\ f.val \in h[f.unit])

HeldInv ==
  /\ \A u \in Units : OwnRequests(inp[u]) /\ mem[u] \in held[u]
  /\ \A u \in Units : unit[u].out # None => Truthful(unit[u].out, held)
  /\ \A i \in DOMAIN rx : Truthful(rx[i], held)
  /\ master.req # None => master.last = master.req
  /\ master.status # "none" => master.last # None
  /\ WasHeld

(* An answer to q that agrees with what the unit holds (v).                  *)
Good(f, q, v) == f.kind = "ans" => v = IF q.fc \in Reads THEN f.val ELSE q.val

(* The unit that is asked; nothing of an earlier request was on its way.     *)
Target == master.last.unit
OneUnit == alone /\ master.last # None /\ Target # All

(* The request is in each port at most once.  Until the unit that is asked   *)
(* has read it there is no answer, then only answers to it.                  *)
AloneInv ==
  OneUnit =>
    /\ \A u \in Units : Once(inp[u], master.last)
    /\ \A u \in Units \ {Target} : unit[u].out = None
    /\ unit[Target].out # None => Good(unit[Target].out, master.last, mem[Target])
    /\ \A i \in DOMAIN rx : Good(rx[i], master.last, mem[Target])
    /\ master.status = "ok" => mem[Target] = Value
    /\ ~Clear(inp[Target]) => rx = <<>> /\ unit[Target].out = None /\ master.status # "ok"

RtuInv == TypeOK /\ HeldInv /\ AloneInv

-----------------------------------------------------------------------------
(* What the types say of one unit. *)
MasterRecord ==
  [req : Asked \cup {None}, status : {"none", "wait", "ok", "exception", "error"},
   last : Asked \cup {None}, got : Frame \cup {None}]
UnitRecord == [skip : Frame \cup {None}, out : Frame \cup {None}]

LEMMA Fields ==
  ASSUME TypeOK, NEW u \in Units
  PROVE  /\ master \in MasterRecord /\ rx \in Seq(Frame) /\ faults \in 0..FaultMax
         /\ unit[u] \in UnitRecord /\ (unit[u].skip = None \/ unit[u].out = None)
         /\ inp[u] \in Seq(Frame) /\ Len(inp[u]) <= InMax
         /\ mem[u] \in Values /\ held[u] \subseteq Values
BY DEF TypeOK, MasterRecord, UnitRecord

LEMMA FrameFields ==
  ASSUME NEW f \in Frame
  PROVE  /\ f.kind \in {"req", "ans", "exc", "rest"} /\ f.unit \in Units \cup {All} /\ f.fc \in Codes
         /\ f.val \in Values \cup {None}
BY DEF Frame

(* A request that writes has a value.                                        *)
LEMMA AskedFields ==
  ASSUME NEW q \in Asked
  PROVE  /\ q \in Frame /\ q.kind = "req" /\ q # None
         /\ q.fc \notin Reads => q.val \in Values
BY AskedAssumption, FrameFields

(* The invariant is kept by pieces.                                          *)
LEMMA TypedNext ==
  ASSUME master' \in MasterRecord, master'.status = "wait" <=> master'.req # None,
         rx' \in Seq(Frame), unit' \in [Units -> UnitRecord], inp' \in [Units -> Seq(Frame)],
         \A u \in Units : /\ unit'[u].skip = None \/ unit'[u].out = None
                          /\ Len(inp'[u]) <= InMax,
         mem' \in [Units -> Values], faults' \in 0..FaultMax, alone' \in BOOLEAN,
         held' \in [Units -> SUBSET Values]
  PROVE  TypeOK'
BY DEF TypeOK, MasterRecord, UnitRecord

-----------------------------------------------------------------------------
(* The frames in a port. *)
Fewer(s, r) ==
  /\ r \in Seq(Frame) /\ Len(r) <= Len(s)
  /\ (OwnRequests(s) => OwnRequests(r)) /\ (Clear(s) => Clear(r))
  /\ \A q : Once(s, q) => Once(r, q)

LEMMA TailFields ==
  ASSUME NEW s \in Seq(Frame), s # <<>>
  PROVE  /\ Tail(s) \in Seq(Frame) /\ Len(Tail(s)) <= Len(s)
         /\ Head(s) = s[1] /\ 1 \in DOMAIN s /\ Head(s) \in Frame
         /\ \A i \in DOMAIN Tail(s) :
              i + 1 \in DOMAIN s /\ Tail(s)[i] = s[i + 1] /\ i \in Nat /\ i + 1 # 1
OBVIOUS

LEMMA TailFewer ==
  ASSUME NEW s \in Seq(Frame), s # <<>>
  PROVE  Fewer(s, Tail(s))
<1> DEFINE r == Tail(s)
<1>1. /\ r \in Seq(Frame) /\ Len(r) <= Len(s)
      /\ \A i \in DOMAIN r : i + 1 \in DOMAIN s /\ r[i] = s[i + 1] /\ i \in Nat
  BY TailFields
<1> HIDE DEF r
<1>2. OwnRequests(s) => OwnRequests(r)
  BY <1>1 DEF OwnRequests
<1>3. Clear(s) => Clear(r)
  BY <1>1 DEF Clear
<1>4. ASSUME NEW q, Once(s, q) PROVE Once(r, q)
  <2>1. ASSUME NEW i \in DOMAIN r, r[i].kind = "req", NEW j \in DOMAIN r, r[j].kind = "req"
        PROVE  i = j
    <3>1. i + 1 = j + 1
      BY <1>1, <1>4, <2>1 DEF Once
    <3> QED BY <1>1, <3>1
  <2>2. \A i \in DOMAIN r : r[i].kind = "req" => r[i] = q
    BY <1>1, <1>4 DEF Once
  <2> QED BY <2>1, <2>2 DEF Once
<1>5. Fewer(s, r)
  BY <1>1, <1>2, <1>3, <1>4 DEF Fewer
<1> QED BY <1>5 DEF r

LEMMA FewerAgain ==
  ASSUME NEW s \in Seq(Frame), NEW r, NEW t, Fewer(s, r), Fewer(r, t)
  PROVE  Fewer(s, t)
<1>1. Len(s) \in Nat /\ Len(r) \in Nat /\ Len(t) \in Nat
  BY DEF Fewer
<1>2. Len(t) <= Len(s)
  BY <1>1 DEF Fewer
<1> QED BY <1>2 DEF Fewer

LEMMA FewerSame == ASSUME NEW s \in Seq(Frame) PROVE Fewer(s, s)
<1>1. Len(s) <= Len(s)
  OBVIOUS
<1> QED BY <1>1 DEF Fewer

LEMMA EmptyFewer == ASSUME NEW s \in Seq(Frame) PROVE Fewer(s, <<>>)
<1>1. <<>> \in Seq(Frame) /\ Len(<<>>) <= Len(s) /\ DOMAIN <<>> = {}
  OBVIOUS
<1> QED BY <1>1 DEF Fewer, OwnRequests, Clear, Once

LEMMA RestFewer ==
  ASSUME NEW s \in Seq(Frame), s # <<>>
  PROVE  Fewer(s, [s EXCEPT ![1].kind = "rest"])
<1> DEFINE f == [s[1] EXCEPT !.kind = "rest"]
           r == [s EXCEPT ![1] = f]
<1>1. 1 \in DOMAIN s /\ s[1] \in Frame
  BY TailFields
<1>2. f \in Frame /\ f.kind = "rest"
  BY <1>1 DEF Frame
<1> HIDE DEF f
<1>3. /\ r \in Seq(Frame) /\ Len(r) = Len(s) /\ DOMAIN r = DOMAIN s
      /\ \A i \in DOMAIN r : r[i].kind = "req" => r[i] = s[i]
  BY <1>1, <1>2
<1>4. Len(r) <= Len(s)
  BY <1>3
<1> HIDE DEF r
<1>5. Fewer(s, r)
  BY <1>3, <1>4 DEF Fewer, OwnRequests, Clear, Once
<1> QED BY <1>5 DEF r, f

(* The request that is read was the only one.                                *)
LEMMA FirstRequest ==
  ASSUME NEW s \in Seq(Frame), s # <<>>, Head(s).kind = "req"
  PROVE  /\ ~Clear(s) /\ (OwnRequests(s) => Head(s) \in Asked)
         /\ \A q : Once(s, q) => Head(s) = q /\ Clear(Tail(s))
<1> DEFINE r == Tail(s)
<1>1. /\ s[1].kind = "req" /\ 1 \in DOMAIN s /\ Head(s) = s[1]
      /\ \A i \in DOMAIN r : i + 1 \in DOMAIN s /\ r[i] = s[i + 1] /\ i + 1 # 1
  BY TailFields
<1> HIDE DEF r
<1>2. ASSUME NEW q, Once(s, q) PROVE Head(s) = q /\ Clear(r)
  BY <1>1, <1>2 DEF Once, Clear
<1> QED BY <1>1, <1>2 DEF Clear, OwnRequests, r

(* A frame that arrives.                                                     *)
LEMMA Arrives ==
  ASSUME NEW s \in Seq(Frame), NEW f \in Frame
  PROVE  LET r == Append(s, f) IN
         /\ r \in Seq(Frame) /\ Len(r) = Len(s) + 1
         /\ \A i \in DOMAIN r : (i \in DOMAIN s /\ r[i] = s[i]) \/ r[i] = f
         /\ (f.kind = "req" => f \in Asked) /\ OwnRequests(s) => OwnRequests(r)
         /\ Clear(s) => Once(r, f)
         /\ f.kind # "req" => (Clear(s) => Clear(r)) /\ (\A q : Once(s, q) => Once(r, q))
<1> DEFINE r == Append(s, f)
           n == Len(s) + 1
<1>1. /\ r \in Seq(Frame) /\ Len(r) = n /\ r[n] = f /\ DOMAIN r = 1..n /\ DOMAIN s = 1..Len(s)
      /\ \A i \in 1..Len(s) : r[i] = s[i]
  OBVIOUS
<1>2. \A i \in DOMAIN r : (i \in DOMAIN s /\ r[i] = s[i]) \/ (i = n /\ r[i] = f)
  BY <1>1
<1> HIDE DEF r, n
<1>3. (f.kind = "req" => f \in Asked) /\ OwnRequests(s) => OwnRequests(r)
  BY <1>2 DEF OwnRequests
<1>4. Clear(s) => Once(r, f)
  BY <1>2 DEF Clear, Once
<1>5. f.kind # "req" => (Clear(s) => Clear(r)) /\ (\A q : Once(s, q) => Once(r, q))
  BY <1>2 DEF Clear, Once
<1> QED BY <1>1, <1>2, <1>3, <1>4, <1>5 DEF r, n

-----------------------------------------------------------------------------
(* A unit that only drops frames, or stops to wait for another's answer.     *)
LEMMA DroppedStep ==
  ASSUME RtuInv, UNCHANGED <<master, rx, alone, mem, held>>, faults' \in 0..FaultMax,
         inp' \in [Units -> Seq(Frame)], \A v \in Units : Fewer(inp[v], inp'[v]),
         unit' \in [Units -> UnitRecord],
         \A v \in Units : /\ unit'[v].out = unit[v].out
                          /\ unit'[v].skip = None \/ unit'[v].out = None
  PROVE  RtuInv'
<1>1. TypeOK'
  <2>1. \A v \in Units : Len(inp'[v]) <= InMax
    <3> TAKE v \in Units
    <3>1. /\ Len(inp'[v]) \in Nat /\ Len(inp[v]) \in Nat /\ InMax \in Nat
          /\ Len(inp'[v]) <= Len(inp[v]) /\ Len(inp[v]) <= InMax
      BY ModbusAssumption, Fields DEF RtuInv, Fewer
    <3> QED BY <3>1
  <2>2. /\ master' \in MasterRecord /\ (master'.status = "wait" <=> master'.req # None)
        /\ rx' \in Seq(Frame) /\ mem' \in [Units -> Values] /\ alone' \in BOOLEAN
        /\ held' \in [Units -> SUBSET Values]
    BY DEF RtuInv, TypeOK, MasterRecord
  <2> QED BY <2>1, <2>2, TypedNext
<1>2. HeldInv'
  <2>1. \A v \in Units : OwnRequests(inp'[v]) /\ mem'[v] \in held'[v]
    BY DEF RtuInv, HeldInv, Fewer
  <2>2. \A v \in Units : unit'[v].out # None => Truthful(unit'[v].out, held')
    BY DEF RtuInv, HeldInv
  <2> QED BY <2>1, <2>2 DEF RtuInv, HeldInv, WasHeld, Value
<1>3. AloneInv'
  <2> SUFFICES ASSUME OneUnit PROVE AloneInv'
    BY DEF AloneInv, OneUnit, Target
  <2>1. Target \in Units /\ Target' = Target /\ Value' = Value
    BY AskedFields, FrameFields DEF RtuInv, TypeOK, OneUnit, Target, Value
  <2>2. \A v \in Units : Once(inp'[v], master'.last) /\ (Clear(inp[v]) => Clear(inp'[v]))
    BY DEF RtuInv, AloneInv, Fewer
  <2> QED BY <2>1, <2>2 DEF RtuInv, AloneInv
<1> QED BY <1>1, <1>2, <1>3 DEF RtuInv

(* One unit drops frames and leaves the others alone.                        *)
LEMMA DropsStep ==
  ASSUME RtuInv, UNCHANGED <<master, rx, alone, mem, held>>, faults' \in 0..FaultMax,
         NEW u \in Units, NEW s \in Frame \cup {None}, NEW r, Fewer(inp[u], r),
         inp' = [inp EXCEPT ![u] = r], unit' = [unit EXCEPT ![u].skip = s],
         s = None \/ unit[u].out = None
  PROVE  RtuInv'
<1>1. inp \in [Units -> Seq(Frame)] /\ unit \in [Units -> UnitRecord] /\ r \in Seq(Frame)
  BY DEF RtuInv, TypeOK, UnitRecord, Fewer
<1>2. \A v \in Units : Fewer(inp[v], inp'[v])
  BY <1>1, FewerSame
<1>3. \A v \in Units : /\ unit'[v].out = unit[v].out
                       /\ unit'[v].skip = None \/ unit'[v].out = None
  BY <1>1, Fields DEF RtuInv, UnitRecord
<1>4. unit' \in [Units -> UnitRecord] /\ inp' \in [Units -> Seq(Frame)]
  BY <1>1 DEF UnitRecord
<1> QED BY <1>2, <1>3, <1>4, DroppedStep

LEMMA ErrsDrops ==
  ASSUME TypeOK, NEW u \in Units, inp[u] # <<>>, Drops(u) \/ Errs(u)
  PROVE  \E r : Fewer(inp[u], r) /\ inp' = [inp EXCEPT ![u] = r]
BY TailFewer, EmptyFewer, Fields DEF Drops, Errs

LEMMA SkipSame ==
  ASSUME TypeOK, NEW u \in Units, unit' = unit
  PROVE  unit' = [unit EXCEPT ![u].skip = unit[u].skip] /\ unit[u].skip \in Frame \cup {None}
BY DEF TypeOK

LEMMA IgnoreStep ==
  ASSUME RtuInv, NEW u \in Units, Ignore(u)
  PROVE  RtuInv'
<1>1. /\ unit[u].out = None /\ inp[u] # <<>> /\ UNCHANGED <<master, rx, alone, mem, held>>
      /\ faults' = faults /\ Drops(u)
      /\ unit' = [unit EXCEPT ![u].skip = [Head(inp[u]) EXCEPT !.kind = "req"]]
  BY DEF Ignore, Polls, UnitOnly
<1>2. [Head(inp[u]) EXCEPT !.kind = "req"] \in Frame
  <2>1. Head(inp[u]) \in Frame
    BY <1>1, Fields, TailFields DEF RtuInv
  <2> QED BY <2>1 DEF Frame
<1>3. faults' \in 0..FaultMax
  BY <1>1, Fields DEF RtuInv
<1>4. PICK r : Fewer(inp[u], r) /\ inp' = [inp EXCEPT ![u] = r]
  BY <1>1, ErrsDrops DEF RtuInv
<1> QED BY <1>1, <1>2, <1>3, <1>4, DropsStep

LEMMA GarbageStep ==
  ASSUME RtuInv, NEW u \in Units, Garbage(u)
  PROVE  RtuInv'
<1>1. /\ unit[u].skip = None /\ inp[u] # <<>> /\ UNCHANGED <<master, rx, alone, mem, held>>
      /\ faults' = faults /\ unit' = unit
      /\ Errs(u) \/ inp' = [inp EXCEPT ![u][1].kind = "rest"]
  BY DEF Garbage, Polls, UnitOnly
<1>2. faults' \in 0..FaultMax /\ inp[u] \in Seq(Frame)
  BY <1>1, Fields DEF RtuInv
<1>3. CASE Errs(u)
  <2>1. PICK r : Fewer(inp[u], r) /\ inp' = [inp EXCEPT ![u] = r]
    BY <1>1, <1>3, ErrsDrops DEF RtuInv
  <2> QED BY <1>1, <1>2, <2>1, DropsStep, SkipSame DEF RtuInv
<1>4. CASE inp' = [inp EXCEPT ![u][1].kind = "rest"]
  <2> DEFINE r == [inp[u] EXCEPT ![1].kind = "rest"]
  <2>1. Fewer(inp[u], r)
    BY <1>1, <1>2, RestFewer
  <2>2. inp' = [inp EXCEPT ![u] = r]
    BY <1>4
  <2> HIDE DEF r
  <2> QED BY <1>1, <1>2, <2>1, <2>2, DropsStep, SkipSame DEF RtuInv
<1> QED BY <1>1, <1>3, <1>4

LEMMA TwoFrames ==
  ASSUME NEW s \in Seq(Frame), Len(s) > 1
  PROVE  s # <<>> /\ Tail(s) # <<>>
<1>1. PICK n \in Nat : n = Len(s)
  OBVIOUS
<1>2. n > 1 /\ n - 1 # 0
  BY <1>1
<1>3. s # <<>>
  BY <1>1, <1>2
<1>4. Len(Tail(s)) = n - 1
  BY <1>1, <1>3
<1> QED BY <1>2, <1>3, <1>4

LEMMA MisframedStep ==
  ASSUME RtuInv, NEW u \in Units, Misframed(u)
  PROVE  RtuInv'
<1> DEFINE r == Tail(Tail(inp[u]))
<1>1. /\ unit[u].skip = None /\ UNCHANGED <<master, rx, alone, mem, held>>
      /\ faults' = faults /\ unit' = unit /\ inp' = [inp EXCEPT ![u] = r]
      /\ Len(inp[u]) > 1
  BY DEF Misframed, UnitOnly
<1>2. faults' \in 0..FaultMax /\ inp[u] \in Seq(Frame)
  BY <1>1, Fields DEF RtuInv
<1>3. inp[u] # <<>> /\ Tail(inp[u]) # <<>>
  BY <1>1, <1>2, TwoFrames
<1>4. Fewer(inp[u], Tail(inp[u])) /\ Tail(inp[u]) \in Seq(Frame)
  BY <1>2, <1>3, TailFewer DEF Fewer
<1>5. Fewer(inp[u], r)
  BY <1>2, <1>3, <1>4, TailFewer, FewerAgain
<1> HIDE DEF r
<1> QED BY <1>1, <1>2, <1>5, DropsStep, SkipSame DEF RtuInv

LEMMA OverhearStep ==
  ASSUME RtuInv, NEW u \in Units, Overhear(u)
  PROVE  RtuInv'
<1>1. /\ inp[u] # <<>> /\ UNCHANGED <<master, rx, alone, mem, held>> /\ faults' = faults
      /\ Drops(u) \/ Errs(u)
  BY DEF Overhear, UnitOnly
<1>2. faults' \in 0..FaultMax /\ unit' = [unit EXCEPT ![u].skip = None]
  BY <1>1, Fields DEF RtuInv, Overhear, Stops, Resumes
<1>3. PICK r : Fewer(inp[u], r) /\ inp' = [inp EXCEPT ![u] = r]
  BY <1>1, ErrsDrops DEF RtuInv
<1> QED BY <1>1, <1>2, <1>3, DropsStep

(* A fault is one of at most FaultMax.                                       *)
LEMMA Faults ==
  ASSUME TypeOK, NEW b \in BOOLEAN, Fault(Cost(b))
  PROVE  faults' \in 0..FaultMax
<1>1. faults \in 0..FaultMax /\ FaultMax \in Nat /\ Cost(b) \in {0, 1}
  BY ModbusAssumption DEF TypeOK, Cost
<1> QED BY <1>1 DEF Fault

LEMMA SkipTimeoutStep ==
  ASSUME RtuInv, NEW u \in Units, SkipTimeout(u)
  PROVE  RtuInv'
<1>1. faults' \in 0..FaultMax
  <2>1. (\E v \in Units \ {u} : Answering(v)) \in BOOLEAN
    OBVIOUS
  <2> QED BY <2>1, Faults DEF SkipTimeout, RtuInv
<1>2. /\ UNCHANGED <<master, rx, inp, alone, mem, held>> /\ unit' = [unit EXCEPT ![u].skip = None]
  BY DEF SkipTimeout, Resumes, Stops
<1>3. inp' = [inp EXCEPT ![u] = inp[u]] /\ Fewer(inp[u], inp[u])
  BY <1>2, Fields, FewerSame DEF RtuInv, TypeOK
<1> QED BY <1>1, <1>2, <1>3, DropsStep

-----------------------------------------------------------------------------
(* A unit that answers what it has been asked: a read with what it holds, a  *)
(* write with what it holds then, or with an exception.                      *)
LEMMA HandledStep ==
  ASSUME RtuInv, NEW u \in Units, Polls(u), Mine(u), Drops(u), NEW a \in Frame,
         Good(a, Head(inp[u]), mem'[u]),
         unit' = unit \/ (Truthful(a, held') /\ Answers(u, a)),
         UNCHANGED <<master, rx, alone>>, faults' \in 0..FaultMax,
         mem' \in [Units -> Values], held' \in [Units -> SUBSET Values],
         \A v \in Units : held[v] \subseteq held'[v] /\ mem'[v] \in held'[v]
  PROVE  RtuInv'
<1> DEFINE q == Head(inp[u])
<1>1. /\ unit[u].skip = None /\ unit[u].out = None /\ inp[u] # <<>> /\ inp[u] \in Seq(Frame)
      /\ inp \in [Units -> Seq(Frame)] /\ unit \in [Units -> UnitRecord]
      /\ q.kind = "req" /\ q.unit \in {u, All} /\ inp' = [inp EXCEPT ![u] = Tail(inp[u])]
  BY Fields DEF Polls, Mine, Drops, RtuInv, TypeOK, UnitRecord
<1>2. /\ Fewer(inp[u], Tail(inp[u])) /\ ~Clear(inp[u])
      /\ \A p : Once(inp[u], p) => q = p /\ Clear(Tail(inp[u]))
  BY <1>1, TailFewer, FirstRequest
<1>3. inp' \in [Units -> Seq(Frame)] /\ (\A v \in Units : Fewer(inp[v], inp'[v]))
  <2>1. Tail(inp[u]) \in Seq(Frame)
    BY <1>2 DEF Fewer
  <2> QED BY <1>1, <1>2, <2>1, FewerSame
<1>4. /\ unit' \in [Units -> UnitRecord] /\ unit'[u].skip = None /\ unit'[u].out \in {None, a}
      /\ unit'[u].out # None => Truthful(unit'[u].out, held')
      /\ \A v \in Units \ {u} : unit'[v] = unit[v]
  <2>1. CASE unit' = unit
    BY <1>1, <2>1
  <2>2. CASE Truthful(a, held') /\ unit' = [unit EXCEPT ![u].out = a]
    <3>1. unit[u] \in UnitRecord /\ [unit[u] EXCEPT !.out = a] \in UnitRecord
      BY <1>1 DEF UnitRecord
    <3>2. unit' = [unit EXCEPT ![u] = [unit[u] EXCEPT !.out = a]]
      BY <2>2
    <3>3. unit' \in [Units -> UnitRecord] /\ unit'[u] = [unit[u] EXCEPT !.out = a]
      BY <1>1, <3>1, <3>2
    <3> QED BY <1>1, <2>2, <3>1, <3>2, <3>3 DEF UnitRecord
  <2> QED BY <2>1, <2>2 DEF Answers
<1> HIDE DEF q
<1>5. TypeOK'
  <2>1. \A v \in Units : /\ unit'[v].skip = None \/ unit'[v].out = None
                         /\ Len(inp'[v]) <= InMax
    <3> TAKE v \in Units
    <3>1. /\ Len(inp'[v]) \in Nat /\ Len(inp[v]) \in Nat /\ InMax \in Nat
          /\ Len(inp'[v]) <= Len(inp[v]) /\ Len(inp[v]) <= InMax
      BY <1>3, ModbusAssumption, Fields DEF RtuInv, Fewer
    <3>2. unit'[v].skip = None \/ unit'[v].out = None
      BY <1>4, Fields DEF RtuInv
    <3> QED BY <3>1, <3>2
  <2>2. /\ master' \in MasterRecord /\ (master'.status = "wait" <=> master'.req # None)
        /\ rx' \in Seq(Frame) /\ alone' \in BOOLEAN
    BY DEF RtuInv, TypeOK, MasterRecord
  <2> QED BY <1>3, <1>4, <2>1, <2>2, TypedNext
<1>6. HeldInv'
  <2>1. \A v \in Units : OwnRequests(inp'[v]) /\ mem'[v] \in held'[v]
    BY <1>3 DEF RtuInv, HeldInv, Fewer
  <2>2. \A f : Truthful(f, held) => Truthful(f, held')
    BY DEF Truthful
  <2>3. \A v \in Units : unit'[v].out # None => Truthful(unit'[v].out, held')
    BY <1>4, <2>2 DEF RtuInv, HeldInv
  <2>4. WasHeld'
    <3>1. Value' = Value /\ master' = master
      BY DEF Value
    <3>2. master.last # None /\ master.last.unit # All => master.last.unit \in Units
      BY AskedFields, FrameFields DEF RtuInv, TypeOK
    <3>3. master.status = "ok" => master.last # None
      BY DEF RtuInv, HeldInv
    <3> QED BY <3>1, <3>2, <3>3 DEF RtuInv, HeldInv, WasHeld
  <2> QED BY <2>1, <2>2, <2>3, <2>4 DEF RtuInv, HeldInv
<1>7. AloneInv'
  <2> SUFFICES ASSUME OneUnit PROVE AloneInv'
    BY DEF AloneInv, OneUnit, Target
  <2>1. /\ Target \in Units /\ Target # All /\ Target' = Target /\ Value' = Value
        /\ master' = master /\ rx' = rx
    BY AskedFields, FrameFields DEF RtuInv, TypeOK, OneUnit, Target, Value
  <2>2. q = master.last /\ Clear(Tail(inp[u]))
    BY <1>2 DEF RtuInv, AloneInv
  <2>3. u = Target
    BY <1>1, <2>1, <2>2 DEF Target
  <2>4. rx = <<>> /\ master.status # "ok"
    BY <1>2, <2>3 DEF RtuInv, AloneInv
  <2>5. Clear(inp'[u]) /\ (\A v \in Units : Once(inp'[v], master.last))
    BY <1>1, <1>3, <2>2 DEF RtuInv, AloneInv, Fewer
  <2>6. \A v \in Units \ {u} : unit'[v].out = None
    BY <1>4, <2>3 DEF RtuInv, AloneInv
  <2>7. unit'[u].out # None => Good(unit'[u].out, master.last, mem'[u])
    BY <1>4, <2>2 DEF q
  <2>8. \A i \in DOMAIN rx' : Good(rx'[i], master.last, mem'[u])
    BY <2>1, <2>4
  <2> QED BY <2>1, <2>3, <2>4, <2>5, <2>6, <2>7, <2>8 DEF AloneInv
<1> QED BY <1>5, <1>6, <1>7 DEF RtuInv

(* The answers to requests of the master are frames.                         *)
LEMMA PolledFrame ==
  ASSUME RtuInv, NEW u \in Units, Polls(u), Mine(u)
  PROVE  /\ Head(inp[u]) \in Asked /\ Head(inp[u]) \in Frame
         /\ Head(inp[u]).unit \in {u, All} /\ mem[u] \in Values
<1>1. inp[u] # <<>> /\ inp[u] \in Seq(Frame) /\ Head(inp[u]).kind = "req" /\ OwnRequests(inp[u])
      /\ mem[u] \in Values
  BY Fields DEF Polls, Mine, RtuInv, HeldInv
<1> QED BY <1>1, FirstRequest, AskedFields DEF Mine

LEMMA ReadingStep ==
  ASSUME RtuInv, NEW u \in Units, NEW codes \in SUBSET Reads, Reading(u, codes)
  PROVE  RtuInv'
<1> DEFINE q == Head(inp[u])
           a == [q EXCEPT !.kind = "ans", !.val = mem[u]]
<1>1. /\ Polls(u) /\ Mine(u) /\ Drops(u) /\ q.fc \in Reads /\ Answered(u, a)
      /\ UNCHANGED <<master, rx, alone, mem, held>> /\ faults' = faults
  BY DEF Reading, UnitOnly
<1>2. q \in Frame /\ q.unit \in {u, All} /\ mem[u] \in Values /\ faults \in 0..FaultMax
  BY <1>1, PolledFrame, Fields DEF RtuInv
<1>3. a \in Frame /\ a.kind = "ans" /\ a.val = mem[u] /\ a.unit = q.unit
  BY <1>2 DEF Frame
<1>4. unit' = unit \/ (a.unit = u /\ Answers(u, a))
  BY <1>1, <1>2, <1>3 DEF Answered
<1>5. Good(a, q, mem'[u])
  BY <1>1, <1>3 DEF Good
<1> HIDE DEF a, q
<1>6. mem' \in [Units -> Values] /\ held' \in [Units -> SUBSET Values]
      /\ \A v \in Units : held[v] \subseteq held'[v] /\ mem'[v] \in held'[v]
  BY <1>1 DEF RtuInv, TypeOK, HeldInv
<1>7. Truthful(a, held') \/ a.unit # u
  BY <1>1, <1>3, <1>6 DEF Truthful
<1> QED BY <1>1, <1>2, <1>3, <1>4, <1>5, <1>6, <1>7, HandledStep DEF q

LEMMA WritingStep ==
  ASSUME RtuInv, NEW u \in Units, NEW codes, codes \cap Reads = {}, Writing(u, codes)
  PROVE  RtuInv'
<1> DEFINE q == Head(inp[u])
           a == [q EXCEPT !.kind = "ans"]
<1>1. /\ Polls(u) /\ Mine(u) /\ Drops(u) /\ q.fc \notin Reads /\ Answered(u, a)
      /\ mem' = [mem EXCEPT ![u] = q.val] /\ held' = [held EXCEPT ![u] = held[u] \cup {mem'[u]}]
      /\ UNCHANGED <<master, rx, alone>> /\ faults' = faults
  BY DEF Writing, UnitOnly, Written
<1>2. q \in Frame /\ q.unit \in {u, All} /\ q.val \in Values /\ faults \in 0..FaultMax
  BY <1>1, PolledFrame, AskedFields, Fields DEF RtuInv
<1>3. a \in Frame /\ a.kind = "ans" /\ a.val = q.val /\ a.unit = q.unit
  BY <1>2 DEF Frame
<1>4. unit' = unit \/ (a.unit = u /\ Answers(u, a))
  BY <1>1, <1>2, <1>3 DEF Answered
<1> HIDE DEF a, q
<1>5. mem \in [Units -> Values] /\ held \in [Units -> SUBSET Values]
      /\ \A v \in Units : mem[v] \in held[v]
  BY DEF RtuInv, TypeOK, HeldInv
<1>6. mem' \in [Units -> Values] /\ mem'[u] = q.val /\ held' \in [Units -> SUBSET Values]
      /\ held'[u] = held[u] \cup {q.val}
      /\ \A v \in Units \ {u} : mem'[v] = mem[v] /\ held'[v] = held[v]
  BY <1>1, <1>2, <1>5
<1>7. \A v \in Units : held[v] \subseteq held'[v] /\ mem'[v] \in held'[v]
  BY <1>5, <1>6
<1>8. Good(a, q, mem'[u])
  BY <1>1, <1>6 DEF Good
<1>9. Truthful(a, held') \/ a.unit # u
  BY <1>3, <1>6 DEF Truthful
<1> QED BY <1>1, <1>2, <1>3, <1>4, <1>6, <1>7, <1>8, <1>9, HandledStep DEF q

LEMMA RefuseStep ==
  ASSUME RtuInv, NEW u \in Units, Refuse(u)
  PROVE  RtuInv'
<1> DEFINE q == Head(inp[u])
           a == [q EXCEPT !.kind = "exc"]
<1>1. /\ Polls(u) /\ Mine(u) /\ Drops(u) /\ Answers(u, a)
      /\ UNCHANGED <<master, rx, alone, mem, held>>
  BY DEF Refuse
<1>2. faults' \in 0..FaultMax
  <2>1. (q.unit = All) \in BOOLEAN
    OBVIOUS
  <2> QED BY <2>1, Faults DEF Refuse, RtuInv
<1>3. q \in Frame
  BY <1>1, PolledFrame
<1>4. a \in Frame /\ a.kind = "exc"
  BY <1>3 DEF Frame
<1>5. Good(a, q, mem'[u]) /\ Truthful(a, held')
  BY <1>4 DEF Good, Truthful
<1> HIDE DEF a, q
<1>6. mem' \in [Units -> Values] /\ held' \in [Units -> SUBSET Values]
      /\ \A v \in Units : held[v] \subseteq held'[v] /\ mem'[v] \in held'[v]
  BY <1>1 DEF RtuInv, TypeOK, HeldInv
<1> QED BY <1>1, <1>2, <1>4, <1>5, <1>6, HandledStep DEF q

-----------------------------------------------------------------------------
(* The answer goes out, to the master and to the units that overhear it.     *)
LEMMA SendsStep ==
  ASSUME RtuInv, NEW u \in Units, Sends(u)
  PROVE  RtuInv'
<1> DEFINE f == unit[u].out
<1>1. /\ f # None /\ unit' = [unit EXCEPT ![u].out = None]
      /\ UNCHANGED <<master, mem, alone, held>>
  BY DEF Sends, Answers
<1>2. PICK lost \in BOOLEAN, heard \in SUBSET (Units \ {u}) :
        /\ Fault(Cost(lost \/ heard # Units \ {u}))
        /\ rx' = IF lost THEN rx ELSE Append(rx, f)
        /\ inp' = [v \in Units |-> IF v \in heard /\ Len(inp[v]) < InMax
                                   THEN Append(inp[v], f) ELSE inp[v]]
  BY DEF Sends
<1>3. faults' \in 0..FaultMax
  <2>1. (lost \/ heard # Units \ {u}) \in BOOLEAN
    OBVIOUS
  <2> QED BY <1>2, <2>1, Faults DEF RtuInv
<1>4. f \in Frame /\ Truthful(f, held) /\ f.kind # "req" /\ unit \in [Units -> UnitRecord]
  BY <1>1, Fields DEF RtuInv, TypeOK, HeldInv, Truthful, UnitRecord
<1>5. /\ unit' \in [Units -> UnitRecord]
      /\ \A v \in Units : unit'[v].out \in {None, unit[v].out} /\ unit'[v].skip = unit[v].skip
      /\ \A v \in Units \ {u} : unit'[v] = unit[v]
  BY <1>1, <1>4 DEF UnitRecord
<1> HIDE DEF f
<1>6. rx' \in Seq(Frame) /\ \A i \in DOMAIN rx' : (i \in DOMAIN rx /\ rx'[i] = rx[i]) \/ rx'[i] = f
  <2>1. rx \in Seq(Frame)
    BY DEF RtuInv, TypeOK
  <2> QED BY <1>2, <1>4, <2>1, Arrives
<1>7. ASSUME NEW v \in Units
      PROVE  /\ inp'[v] \in Seq(Frame) /\ Len(inp'[v]) <= InMax /\ (v = u => inp'[v] = inp[v])
             /\ OwnRequests(inp[v]) => OwnRequests(inp'[v])
             /\ Clear(inp[v]) => Clear(inp'[v])
             /\ \A q : Once(inp[v], q) => Once(inp'[v], q)
  <2>1. inp[v] \in Seq(Frame) /\ Len(inp[v]) <= InMax /\ InMax \in Nat /\ Len(inp[v]) \in Nat
    BY Fields, ModbusAssumption DEF RtuInv
  <2>2. CASE v \in heard /\ Len(inp[v]) < InMax
    <3> DEFINE r == Append(inp[v], f)
    <3>1. /\ r \in Seq(Frame) /\ Len(r) = Len(inp[v]) + 1
          /\ OwnRequests(inp[v]) => OwnRequests(r)
          /\ Clear(inp[v]) => Clear(r)
          /\ \A q : Once(inp[v], q) => Once(r, q)
      BY <1>4, <2>1, Arrives
    <3>2. inp'[v] = r /\ v # u
      BY <1>2, <2>2
    <3> HIDE DEF r
    <3> QED BY <2>1, <2>2, <3>1, <3>2
  <2>3. CASE ~(v \in heard /\ Len(inp[v]) < InMax)
    <3>1. inp'[v] = inp[v]
      BY <1>2, <2>3
    <3> QED BY <2>1, <3>1
  <2> QED BY <2>2, <2>3
<1>8. inp' \in [Units -> Seq(Frame)]
  BY <1>2, <1>7
<1>9. TypeOK'
  <2>1. \A v \in Units : /\ unit'[v].skip = None \/ unit'[v].out = None
                         /\ Len(inp'[v]) <= InMax
    BY <1>5, <1>7, Fields DEF RtuInv
  <2>2. /\ master' \in MasterRecord /\ (master'.status = "wait" <=> master'.req # None)
        /\ mem' \in [Units -> Values] /\ alone' \in BOOLEAN /\ held' \in [Units -> SUBSET Values]
    BY <1>1 DEF RtuInv, TypeOK, MasterRecord
  <2> QED BY <1>3, <1>5, <1>6, <1>8, <2>1, <2>2, TypedNext
<1>10. HeldInv'
  <2>1. \A v \in Units : OwnRequests(inp'[v]) /\ mem'[v] \in held'[v]
    BY <1>1, <1>7 DEF RtuInv, HeldInv
  <2>2. \A v \in Units : unit'[v].out # None => Truthful(unit'[v].out, held')
    BY <1>1, <1>5 DEF RtuInv, HeldInv
  <2>3. \A i \in DOMAIN rx' : Truthful(rx'[i], held')
    BY <1>1, <1>4, <1>6 DEF RtuInv, HeldInv
  <2> QED BY <1>1, <2>1, <2>2, <2>3 DEF RtuInv, HeldInv, WasHeld, Value
<1>11. AloneInv'
  <2> SUFFICES ASSUME OneUnit PROVE AloneInv'
    BY <1>1 DEF AloneInv, OneUnit, Target
  <2>1. Target \in Units /\ Target' = Target /\ Value' = Value /\ master' = master /\ mem' = mem
    BY <1>1, AskedFields, FrameFields DEF RtuInv, TypeOK, OneUnit, Target, Value
  <2>2. u = Target /\ Good(f, master.last, mem[Target])
    BY <1>1 DEF RtuInv, AloneInv, f
  <2>3. Clear(inp[u])
    BY <1>1, <2>2 DEF RtuInv, AloneInv, f
  <2>4. Clear(inp'[u]) /\ \A v \in Units : Once(inp'[v], master.last)
    BY <1>7, <2>3 DEF RtuInv, AloneInv
  <2>5. \A v \in Units \ {u} : unit'[v].out = None
    BY <1>5, <2>2 DEF RtuInv, AloneInv
  <2>6. unit'[u].out = None
    BY <1>1, <1>4
  <2>7. \A i \in DOMAIN rx' : Good(rx'[i], master.last, mem[u])
    BY <1>6, <2>2 DEF RtuInv, AloneInv
  <2>8. master.status = "ok" => mem[u] = Value
    BY <2>2 DEF RtuInv, AloneInv
  <2> QED BY <2>1, <2>2, <2>4, <2>5, <2>6, <2>7, <2>8 DEF AloneInv
<1> QED BY <1>9, <1>10, <1>11 DEF RtuInv

LEMMA UnitStepInv ==
  ASSUME RtuInv, NEW u \in Units, UnitStep(u)
  PROVE  RtuInv'
<1>1. Discrete \subseteq Reads /\ Registers \subseteq Reads /\ {"readFileRecord"} \subseteq Reads
  BY DEF Reads
<1>2. Single \cap Reads = {} /\ Multiple \cap Reads = {} /\ {"writeFileRecord"} \cap Reads = {}
  BY DEF Single, Multiple, Reads, Discrete, Registers
<1>3. CASE HandleReadDiscrete(u) \/ HandleReadRegisters(u) \/ HandleReadFileRecord(u)
  BY <1>1, <1>3, ReadingStep DEF HandleReadDiscrete, HandleReadRegisters, HandleReadFileRecord
<1>4. CASE HandleWriteSingle(u) \/ HandleWriteMultiple(u) \/ HandleWriteFileRecord(u)
  BY <1>2, <1>4, WritingStep DEF HandleWriteSingle, HandleWriteMultiple, HandleWriteFileRecord
<1>5. CASE Refuse(u) \/ Ignore(u) \/ Garbage(u) \/ Misframed(u) \/ Overhear(u) \/ SkipTimeout(u)
  BY <1>5, RefuseStep, IgnoreStep, GarbageStep, MisframedStep, OverhearStep, SkipTimeoutStep
<1> QED BY <1>3, <1>4, <1>5, SendsStep DEF UnitStep

-----------------------------------------------------------------------------
(* A call of the master.  When nothing of an earlier request is on its way,  *)
(* the flushed port and the empty units leave only what it asks.             *)
LEMMA CallsStep ==
  ASSUME RtuInv, NEW q \in Asked, NEW heard \in SUBSET Units, Calls(q, heard),
         master' \in MasterRecord, master'.last = q, master'.status = "wait" <=> master'.req # None,
         \/ master'.status = "wait" /\ master'.req = q
         \/ master'.status = "ok" /\ master'.req = None /\ q.unit = All
  PROVE  RtuInv'
<1>1. /\ \A u \in Units : Len(inp[u]) < InMax
      /\ rx' = <<>> /\ alone' = ~OnItsWay
      /\ inp' = [u \in Units |-> IF u \in heard THEN Append(inp[u], q) ELSE inp[u]]
      /\ UNCHANGED <<unit, mem, held>>
  BY DEF Calls, Flushed
<1>2. q \in Frame /\ q.kind = "req" /\ q # None
  BY AskedFields
<1>3. faults' \in 0..FaultMax
  <2>1. /\ (heard # Units) \in BOOLEAN /\ (~Quiet) \in BOOLEAN
        /\ faults \in 0..FaultMax /\ FaultMax \in Nat
    BY ModbusAssumption DEF RtuInv, TypeOK
  <2>2. Cost(heard # Units) \in {0, 1} /\ Cost(~Quiet) \in {0, 1}
    BY DEF Cost
  <2> QED BY <2>1, <2>2 DEF Calls, Fault
<1>4. ASSUME NEW v \in Units
      PROVE  /\ inp'[v] \in Seq(Frame) /\ Len(inp'[v]) <= InMax
             /\ OwnRequests(inp[v]) => OwnRequests(inp'[v])
             /\ Clear(inp[v]) => Once(inp'[v], q)
  <2>1. inp[v] \in Seq(Frame) /\ Len(inp[v]) < InMax /\ InMax \in Nat /\ Len(inp[v]) \in Nat
    BY <1>1, Fields, ModbusAssumption DEF RtuInv
  <2>2. CASE v \in heard
    <3> DEFINE r == Append(inp[v], q)
    <3>1. /\ r \in Seq(Frame) /\ Len(r) = Len(inp[v]) + 1
          /\ OwnRequests(inp[v]) => OwnRequests(r)
          /\ Clear(inp[v]) => Once(r, q)
      BY <1>2, <2>1, Arrives
    <3>2. inp'[v] = r
      BY <1>1, <2>2
    <3> HIDE DEF r
    <3> QED BY <2>1, <3>1, <3>2
  <2>3. CASE v \notin heard
    <3>1. inp'[v] = inp[v] /\ (Clear(inp[v]) => Once(inp[v], q))
      BY <1>1, <2>3 DEF Clear, Once
    <3> QED BY <2>1, <3>1
  <2> QED BY <2>2, <2>3
<1>5. TypeOK'
  <2>1. inp' \in [Units -> Seq(Frame)] /\ rx' \in Seq(Frame)
    BY <1>1, <1>4
  <2>2. OnItsWay \in BOOLEAN /\ alone' \in BOOLEAN
    BY <1>1 DEF OnItsWay
  <2>3. /\ unit' \in [Units -> UnitRecord] /\ mem' \in [Units -> Values]
        /\ held' \in [Units -> SUBSET Values]
        /\ \A v \in Units : unit'[v].skip = None \/ unit'[v].out = None
    BY <1>1 DEF RtuInv, TypeOK, UnitRecord
  <2> QED BY <1>3, <1>4, <2>1, <2>2, <2>3, TypedNext
<1>6. HeldInv'
  <2>1. \A v \in Units : OwnRequests(inp'[v]) /\ mem'[v] \in held'[v]
    BY <1>1, <1>4 DEF RtuInv, HeldInv
  <2>2. \A v \in Units : unit'[v].out # None => Truthful(unit'[v].out, held')
    BY <1>1 DEF RtuInv, HeldInv
  <2>3. \A i \in DOMAIN rx' : Truthful(rx'[i], held')
    BY <1>1
  <2>4. master'.req # None => master'.last = master'.req
    OBVIOUS
  <2>5. WasHeld'
    BY DEF WasHeld
  <2> QED BY <1>2, <2>1, <2>2, <2>3, <2>4, <2>5 DEF HeldInv
<1>7. AloneInv'
  <2> SUFFICES ASSUME OneUnit' PROVE AloneInv'
    BY DEF AloneInv
  <2>1. alone' /\ q.unit # All /\ Target' = q.unit /\ master'.status = "wait"
    BY DEF OneUnit, Target
  <2>2. ~OnItsWay
    BY <1>1, <2>1
  <2>3. q.unit \in Units
    BY <1>2, <2>1, FrameFields
  <2>4. \A v \in Units : unit[v].out = None /\ Clear(inp[v])
    BY <2>2 DEF OnItsWay, Clear
  <2>5. \A v \in Units : Once(inp'[v], q) /\ unit'[v].out = None
    BY <1>1, <1>4, <2>4
  <2> QED BY <1>1, <2>1, <2>3, <2>5 DEF AloneInv
<1> QED BY <1>5, <1>6, <1>7 DEF RtuInv

LEMMA CallStep ==
  ASSUME RtuInv, Call
  PROVE  RtuInv'
<1>1. ASSUME NEW codes, Asks(codes) PROVE RtuInv'
  <2>1. PICK q \in Asked, heard \in SUBSET Units : Calls(q, heard) /\ Waits(q)
    BY <1>1 DEF Asks
  <2>2. /\ master' \in MasterRecord /\ master'.last = q /\ master'.status = "wait" /\ master'.req = q
        /\ q # None
    BY <2>1, AskedFields DEF Waits, MasterRecord
  <2> QED BY <2>1, <2>2, CallsStep
<1>2. ASSUME NEW codes, Tells(codes) PROVE RtuInv'
  <2>1. PICK q \in Asked, heard \in SUBSET Units :
          /\ Calls(q, heard)
          /\ IF q.unit = All
             THEN master' = [req |-> None, status |-> "ok", last |-> q, got |-> None]
             ELSE Waits(q)
    BY <1>2 DEF Tells
  <2>2. CASE q.unit = All
    <3>1. /\ master' \in MasterRecord /\ master'.last = q /\ master'.status = "ok"
          /\ master'.req = None
      BY <2>1, <2>2 DEF MasterRecord
    <3> QED BY <2>1, <2>2, <3>1, CallsStep
  <2>3. CASE q.unit # All
    <3>1. /\ master' \in MasterRecord /\ master'.last = q /\ master'.status = "wait"
          /\ master'.req = q /\ q # None
      BY <2>1, <2>3, AskedFields DEF Waits, MasterRecord
    <3> QED BY <2>1, <3>1, CallsStep
  <2> QED BY <2>2, <2>3
<1> QED BY <1>1, <1>2
        DEF Call, ReadDiscrete, ReadRegisters, WriteSingle, WriteMultiple, ReadFileRecord, WriteFileRecord

(* A success has an answer to the request that is no exception and says, or  *)
(* repeats, the value.                                                       *)
LEMMA SuccessFits ==
  ASSUME NEW q \in Frame, NEW a \in Frame, a.kind \in {"ans", "exc"}, Status(q, a) = "ok"
  PROVE  /\ a.kind = "ans" /\ a.unit = q.unit
         /\ q.fc \notin Reads \cup Multiple => a.val = q.val
<1>1. Header(q, a) /\ a.kind # "exc" /\ Fits(q, a)
  BY DEF Status
<1>2. ASSUME q.fc \notin Reads \cup Multiple PROVE a.val = q.val
  BY <1>1, <1>2 DEF Fits, FitsRead, FitsSingle, FitsMultiple, FitsFile, Reads
<1> QED BY <1>1, <1>2 DEF Header

(* The master ends its request, and the port has lost no more than a frame.  *)
LEMMA EndsStep ==
  ASSUME RtuInv, NEW status \in {"ok", "exception", "error"}, NEW got \in Frame \cup {None},
         master.req # None, Ends(status, got), rx' \in Seq(Frame),
         \A i \in DOMAIN rx' : \E j \in DOMAIN rx : rx'[i] = rx[j],
         status = "ok" => got \in Frame /\ Status(master.req, got) = "ok" /\ \E j \in DOMAIN rx : got = rx[j],
         UNCHANGED <<unit, inp, mem, alone, held>>, faults' \in 0..FaultMax
  PROVE  RtuInv'
<1>1. master \in MasterRecord
  BY DEF RtuInv, TypeOK, MasterRecord
<1>2. /\ master' \in MasterRecord /\ master'.req = None /\ master'.status = status
      /\ master'.got = got /\ master'.last = master.last /\ master.last = master.req
  BY <1>1 DEF Ends, MasterRecord, RtuInv, HeldInv
<1>3. master.last \in Asked /\ master.last \in Frame /\ master.last # None
  BY <1>1, <1>2, AskedFields DEF MasterRecord
<1>4. ASSUME status = "ok"
      PROVE  /\ got.kind = "ans" /\ got.unit = master.last.unit /\ Truthful(got, held)
             /\ master.last.fc \notin Reads \cup Multiple => got.val = master.last.val
  BY <1>2, <1>3, <1>4, SuccessFits DEF RtuInv, HeldInv, Truthful
<1>5. TypeOK'
  <2>1. /\ unit' \in [Units -> UnitRecord] /\ inp' \in [Units -> Seq(Frame)]
        /\ mem' \in [Units -> Values] /\ alone' \in BOOLEAN /\ held' \in [Units -> SUBSET Values]
        /\ \A u \in Units : (unit'[u].skip = None \/ unit'[u].out = None) /\ Len(inp'[u]) <= InMax
    BY DEF RtuInv, TypeOK, UnitRecord
  <2> QED BY <1>2, <2>1, TypedNext
<1>6. HeldInv'
  <2>1. WasHeld'
    BY <1>2, <1>4 DEF WasHeld, Value, Truthful
  <2>2. \A i \in DOMAIN rx' : Truthful(rx'[i], held')
    BY DEF RtuInv, HeldInv
  <2> QED BY <1>2, <1>3, <2>1, <2>2 DEF RtuInv, HeldInv
<1>7. AloneInv'
  <2> SUFFICES ASSUME OneUnit PROVE AloneInv'
    BY <1>2 DEF AloneInv, OneUnit, Target
  <2>1. Target' = Target
    BY <1>2 DEF Target
  <2>2. \A i \in DOMAIN rx' : Good(rx'[i], master.last, mem[Target])
    BY DEF RtuInv, AloneInv
  <2>3. status = "ok" => mem[Target] = Value'
    BY <1>2, <1>4 DEF RtuInv, AloneInv, Good, Value
  <2>4. ASSUME ~Clear(inp[Target]) PROVE status # "ok" /\ rx' = <<>> /\ unit[Target].out = None
    <3>1. rx = <<>> /\ unit[Target].out = None
      BY <2>4 DEF RtuInv, AloneInv
    <3>2. DOMAIN rx = {}
      BY <3>1
    <3>3. DOMAIN rx' = {}
      BY <3>2
    <3>4. \A s \in Seq(Frame) : DOMAIN s = {} => s = <<>>
      OBVIOUS
    <3> QED BY <3>1, <3>2, <3>3, <3>4
  <2> QED BY <1>2, <2>1, <2>2, <2>3, <2>4 DEF RtuInv, AloneInv
<1> QED BY <1>5, <1>6, <1>7 DEF RtuInv

LEMMA MasterStep ==
  ASSUME RtuInv, Receive \/ Timeout
  PROVE  RtuInv'
<1>1. rx \in Seq(Frame) /\ faults \in 0..FaultMax
  BY DEF RtuInv, TypeOK
<1>2. CASE Receive
  <2>1. /\ master.req # None /\ Ends(Status(master.req, Head(rx)), Head(rx)) /\ rx' = Tail(rx)
        /\ UNCHANGED <<unit, inp, mem, faults, alone, held>> /\ rx # <<>>
    BY <1>2 DEF Receive
  <2>2. /\ Head(rx) \in Frame /\ 1 \in DOMAIN rx /\ Head(rx) = rx[1] /\ rx' \in Seq(Frame)
        /\ \A i \in DOMAIN rx' : \E j \in DOMAIN rx : rx'[i] = rx[j]
    BY <1>1, <2>1, TailFields
  <2>3. Status(master.req, Head(rx)) \in {"ok", "exception", "error"}
    BY DEF Status
  <2> QED BY <1>1, <2>1, <2>2, <2>3, EndsStep
<1>3. CASE Timeout
  <2>1. faults' \in 0..FaultMax
    <3>1. (\E u \in Units : Answering(u)) \in BOOLEAN
      OBVIOUS
    <3> QED BY <1>3, <3>1, Faults DEF Timeout, RtuInv
  <2>2. /\ master.req # None /\ Ends("error", None)
        /\ UNCHANGED <<rx, unit, inp, mem, alone, held>>
    BY <1>3 DEF Timeout
  <2> QED BY <1>1, <2>1, <2>2, EndsStep
<1> QED BY <1>2, <1>3

-----------------------------------------------------------------------------
LEMMA RtuInit == Init => RtuInv
<1> SUFFICES ASSUME Init PROVE RtuInv
  OBVIOUS
<1>1. InMax \in Nat /\ FaultMax \in Nat
  BY ModbusAssumption
<1>2. /\ master \in MasterRecord /\ master.req = None /\ master.status = "none" /\ master.last = None
  BY DEF Init, MasterRecord
<1>3. /\ unit \in [Units -> UnitRecord] /\ inp \in [Units -> Seq(Frame)]
      /\ \A u \in Units : unit[u].skip = None /\ unit[u].out = None /\ inp[u] = <<>> /\ Len(inp[u]) <= InMax
  BY <1>1 DEF Init, UnitRecord
<1>4. /\ mem \in [Units -> Values] /\ held \in [Units -> SUBSET Values]
      /\ \A u \in Units : mem[u] \in held[u]
  BY DEF Init
<1>5. faults \in 0..FaultMax /\ alone \in BOOLEAN /\ rx \in Seq(Frame) /\ rx = <<>>
  BY <1>1 DEF Init
<1>6. TypeOK
  BY <1>2, <1>3, <1>4, <1>5 DEF TypeOK, MasterRecord, UnitRecord
<1>7. HeldInv
  BY <1>2, <1>3, <1>4, <1>5 DEF HeldInv, OwnRequests, WasHeld
<1> QED BY <1>2, <1>6, <1>7 DEF RtuInv, AloneInv, OneUnit

LEMMA RtuNext == RtuInv /\ [Next]_vars => RtuInv'
<1> SUFFICES ASSUME RtuInv, [Next]_vars PROVE RtuInv'
  OBVIOUS
<1>1. CASE Call
  BY <1>1, CallStep
<1>2. CASE Receive \/ Timeout
  BY <1>2, MasterStep
<1>3. CASE \E u \in Units : UnitStep(u)
  BY <1>3, UnitStepInv
<1>4. CASE UNCHANGED vars
  BY <1>4 DEF vars, RtuInv, TypeOK, HeldInv, WasHeld, Value, AloneInv, OneUnit, Target
<1> QED BY <1>1, <1>2, <1>3, <1>4 DEF Next

(* Frames stay frames: nothing a unit overhears, skips or takes apart is one  *)
(* of no kind, and no port holds more than it may.                           *)
THEOREM ModbusTypeCorrect == Spec => []TypeOK
<1>1. RtuInv => TypeOK
  BY DEF RtuInv
<1> QED BY RtuInit, RtuNext, <1>1, PTL DEF Spec

(* A success says what the unit that was asked has held at some time, over   *)
(* lost, late and reordered answers of any unit.                             *)
THEOREM AlwaysWasHeld == Spec => []WasHeld
<1>1. RtuInv => WasHeld
  BY DEF RtuInv, HeldInv
<1> QED BY RtuInit, RtuNext, <1>1, PTL DEF Spec

(* When nothing of an earlier request was on its way, it is what the unit    *)
(* holds now.                                                                *)
THEOREM AlwaysDoneWhenAlone == Spec => []DoneWhenAlone
<1>1. RtuInv => DoneWhenAlone
  BY DEF RtuInv, HeldInv, AloneInv, OneUnit, Target, DoneWhenAlone, Done
<1> QED BY RtuInit, RtuNext, <1>1, PTL DEF Spec

=============================================================================
