---------------------------- MODULE ExchangeProofs ----------------------------
(***************************************************************************)
(* Proofs about Exchange: its screens and their timers for every number of *)
(* cabinets, packs, transactions, events and disturbances, whenever the    *)
(* doors are polled; its cabinets for stations whose polls and answers are *)
(* prompt.                                                                 *)
(***************************************************************************)
EXTENDS Exchange, SequenceTheorems, TLAPS

(* The activities: those of an exchange are alone above the main screen.     *)
Shapes == {<< >>, <<"qr">>, <<"account">>, <<"qr", "account">>, <<"main">>}
          \cup {<<"main", s>> : s \in Exchange}
ScreenShape == stack \in Shapes

(* A request is the one of the screen on top.                                *)
OwnCall ==
  /\ call = "empty" => Top = "main" /\ "noAction" \notin timers
  /\ call \in {"new", "confirm"} => Top = "validate" /\ swap.serial # None
  /\ call = "confirm" => swap.new # None
  /\ call = "next" => Top = "result" /\ swap.nr < SwapMax

(* The timers of a screen that follow one another do not run together.       *)
OneByOne ==
  /\ "read15" \in timers => call = "none" /\ swap.new = None
  /\ "open3" \in timers => "leave5" \notin timers
  /\ "settle3" \in timers => call = "none" /\ "result120" \notin timers

(* What the screens of an exchange know of it.                               *)
KnownSwap ==
  /\ Top \in Exchange => swap.old \in Cabs
  /\ Top \in {"open", "result"} => swap.new \in Cabs
  /\ Top \in {"validate", "open", "result"} => swap.new # swap.old
  /\ Top = "validate" /\ swap.new # None => swap.serial # None

(* The backend has a confirm that the screens do not know of only when its    *)
(* answer was cut off.                                                       *)
KnownConfirm == backend = "confirmed" => cut \/ Top \in {"open", "result"}

ScreenPart ==
  /\ ScreenShape /\ OwnCall /\ OneByOne /\ KnownSwap /\ KnownConfirm
  /\ OwnTimers /\ QuietExchange
ScreenInv == TypeOK /\ ScreenPart

-----------------------------------------------------------------------------
(* With prompt polls and answers: what is read of a cabinet is what is in it. *)
ReadIsThere ==
  \A c \in Cabs : shown[c] # None => seen[c] = "closed" /\ pack[c] = shown[c]

(* A door that was seen closed after the old pack was put in is closed.       *)
SeenIsClosed ==
  Top = "validate" \/ "fill60" \in timers =>
    remote \/ door[swap.old] = "closed" \/ seen[swap.old] = "open"

(* The old pack, once its serial is read, is held.                            *)
SerialHeld ==
  Top = "validate" /\ swap.serial # None =>
    remote \/ (door[swap.old] = "closed" /\ pack[swap.old] = swap.serial)

(* A pack is given back to the station only by the screen that opens the new  *)
(* cabinet, and the answer to a write is about the pack that is still there.  *)
VehicleWrites ==
  Top # "open" => \A i \in DOMAIN writes : writes[i].to = "vehicle"
AnsweredIsThere ==
  \A i \in DOMAIN events :
    LET e == events[i] IN
    e.kind = "assigned" /\ e.ok =>
      pack[e.cab] # None /\ (Top = "open" \/ owner[pack[e.cab]] = "vehicle")

HeldInv ==
  ReadIsThere /\ SeenIsClosed /\ SerialHeld /\ VehicleWrites /\ AnsweredIsThere

-----------------------------------------------------------------------------
(* The stack of activities: what is on top, and what a move makes of it.      *)
TopOf(s) == IF s = << >> THEN "standby" ELSE Last(s)

LEMMA ShapeTops ==
  /\ TopOf(<< >>) = "standby" /\ TopOf(<<"qr">>) = "qr" /\ TopOf(<<"account">>) = "account"
  /\ TopOf(<<"qr", "account">>) = "account" /\ TopOf(<<"main">>) = "main"
  /\ \A s \in Exchange : TopOf(<<"main", s>>) = s
BY DEF TopOf, Last, Exchange

LEMMA TopShapes ==
  ASSUME NEW s \in Shapes
  PROVE  /\ TopOf(s) \in {"standby", "qr", "account", "main"} \cup Exchange
         /\ TopOf(s) = "standby" => s = << >>
         /\ TopOf(s) = "qr" => s = <<"qr">>
         /\ TopOf(s) = "account" => s \in {<<"account">>, <<"qr", "account">>}
         /\ TopOf(s) = "main" => s = <<"main">>
         /\ TopOf(s) \in Exchange => s = <<"main", TopOf(s)>>
<1>1. CASE s \in {<< >>, <<"qr">>, <<"account">>, <<"qr", "account">>, <<"main">>}
  BY <1>1, ShapeTops DEF Exchange
<1>2. CASE s \in {<<"main", e>> : e \in Exchange}
  <2>1. PICK e \in Exchange : s = <<"main", e>>  BY <1>2
  <2>2. TopOf(s) = e  BY <2>1, ShapeTops
  <2> QED  BY <2>1, <2>2 DEF Exchange
<1> QED  BY <1>1, <1>2 DEF Shapes

LEMMA ShapeMoves ==
  /\ Append(<< >>, "qr") = <<"qr">> /\ Append(<< >>, "account") = <<"account">>
  /\ Append(<<"qr">>, "account") = <<"qr", "account">>
  /\ Front(<<"qr">>) = << >> /\ Front(<<"account">>) = << >>
  /\ Front(<<"qr", "account">>) = <<"qr">>
  /\ \A s \in Exchange : /\ Append(<<"main">>, s) = <<"main", s>>
                         /\ Front(<<"main", s>>) = <<"main">>
<1> DEFINE Names == {"qr", "account", "main"} \cup Exchange
<1>1. ASSUME NEW x PROVE Front(<<x>>) = << >>  BY DEF Front
<1>2. ASSUME NEW x \in Names, NEW y \in Names PROVE Front(<<x, y>>) = <<x>>
  <2>1. /\ SubSeq(<<x, y>>, 1, 1) \in Seq(Names) /\ Len(SubSeq(<<x, y>>, 1, 1)) = 1
        /\ SubSeq(<<x, y>>, 1, 1)[1] = x
    BY SubSeqProperties
  <2>2. <<x>> \in Seq(Names) /\ Len(<<x>>) = 1 /\ <<x>>[1] = x  OBVIOUS
  <2>3. SubSeq(<<x, y>>, 1, 1) = <<x>>
    <3> DEFINE s == SubSeq(<<x, y>>, 1, 1)
               t == <<x>>
    <3>1. s \in Seq(Names) /\ t \in Seq(Names) /\ Len(s) = Len(t)  BY <2>1, <2>2
    <3>2. \A i \in 1..Len(s) : s[i] = t[i]  BY <2>1, <2>2
    <3> HIDE DEF s, t, Names
    <3>3. s = t  BY <3>1, <3>2, SeqEqual
    <3> QED  BY <3>3 DEF s, t
  <2>4. Len(<<x, y>>) - 1 = 1  OBVIOUS
  <2> QED  BY <2>3, <2>4 DEF Front
<1>3. ASSUME NEW x PROVE Append(<< >>, x) = <<x>>  OBVIOUS
<1>4. ASSUME NEW x \in Names, NEW y \in Names PROVE Append(<<x>>, y) = <<x, y>>
  <2>1. <<x>> \in Seq(Names) /\ Len(<<x>>) = 1 /\ <<x>>[1] = x  OBVIOUS
  <2>2. /\ Append(<<x>>, y) \in Seq(Names) /\ Len(Append(<<x>>, y)) = 2
        /\ Append(<<x>>, y)[1] = x /\ Append(<<x>>, y)[2] = y
    BY <2>1, AppendProperties
  <2>3. <<x, y>> \in Seq(Names) /\ Len(<<x, y>>) = 2 /\ <<x, y>>[1] = x /\ <<x, y>>[2] = y
    OBVIOUS
  <2> DEFINE s == Append(<<x>>, y)
             t == <<x, y>>
  <2>4. s \in Seq(Names) /\ t \in Seq(Names) /\ Len(s) = Len(t)  BY <2>2, <2>3
  <2>5. \A i \in 1..Len(s) : s[i] = t[i]  BY <2>2, <2>3
  <2> HIDE DEF s, t, Names
  <2>6. s = t  BY <2>4, <2>5, SeqEqual
  <2> QED  BY <2>6 DEF s, t
<1> QED  BY <1>1, <1>2, <1>3, <1>4

LEMMA ShapeSeq ==
  \A s \in Shapes : s \in Seq({"qr", "account", "main"} \cup Exchange) /\ Len(s) <= 4
<1> DEFINE Names == {"qr", "account", "main"} \cup Exchange
<1>1. /\ << >> \in Seq(Names) /\ <<"qr">> \in Seq(Names) /\ <<"account">> \in Seq(Names)
      /\ <<"main">> \in Seq(Names) /\ <<"qr", "account">> \in Seq(Names)
  OBVIOUS
<1>2. \A s \in Exchange : <<"main", s>> \in Seq(Names) /\ Len(<<"main", s>>) <= 4  OBVIOUS
<1>3. Len(<< >>) <= 4 /\ Len(<<"qr">>) <= 4 /\ Len(<<"account">>) <= 4
      /\ Len(<<"main">>) <= 4 /\ Len(<<"qr", "account">>) <= 4
  OBVIOUS
<1> HIDE DEF Names
<1>4. ASSUME NEW s \in Shapes PROVE s \in Seq(Names) /\ Len(s) <= 4
  BY <1>1, <1>2, <1>3 DEF Shapes
<1> QED  BY <1>4 DEF Names

LEMMA TopIs == Top = TopOf(stack) /\ Top' = TopOf(stack')
BY DEF Top, TopOf

LEMMA Moves ==
  ASSUME ScreenShape
  PROVE  /\ Top \in {"standby", "qr", "account", "main"} \cup Exchange
         /\ Top = "standby" => stack = << >> /\ Opens("qr") = <<"qr">>
                                /\ Opens("account") = <<"account">>
         /\ Top = "qr" => Opens("account") = <<"qr", "account">> /\ Front(stack) = << >>
         /\ Top = "account" => Front(stack) \in {<< >>, <<"qr">>}
         /\ Top = "main" => \A s \in Exchange : Opens(s) = <<"main", s>>
         /\ Top \in Exchange => /\ Front(stack) = <<"main">>
                                /\ \A s \in Exchange : Append(Front(stack), s) = <<"main", s>>
<1>1. stack \in Shapes /\ Top = TopOf(stack)  BY TopIs DEF ScreenShape
<1>2. /\ Top \in {"standby", "qr", "account", "main"} \cup Exchange
      /\ Top = "standby" => stack = << >>
      /\ Top = "qr" => stack = <<"qr">>
      /\ Top = "account" => stack \in {<<"account">>, <<"qr", "account">>}
      /\ Top = "main" => stack = <<"main">>
      /\ Top \in Exchange => stack = <<"main", Top>>
  BY <1>1, TopShapes
<1>3. /\ Top = "standby" => Opens("qr") = <<"qr">> /\ Opens("account") = <<"account">>
      /\ Top = "qr" => Opens("account") = <<"qr", "account">> /\ Front(stack) = << >>
      /\ Top = "account" => Front(stack) \in {<< >>, <<"qr">>}
  BY <1>2, ShapeMoves DEF Opens
<1>4. ASSUME Top \in Exchange
      PROVE  /\ Front(stack) = <<"main">>
             /\ \A s \in Exchange : Append(Front(stack), s) = <<"main", s>>
  BY <1>2, <1>4, ShapeMoves
<1>5. ASSUME Top = "main" PROVE \A s \in Exchange : Opens(s) = <<"main", s>>
  BY <1>2, <1>5, ShapeMoves DEF Opens
<1> QED  BY <1>2, <1>3, <1>4, <1>5

(* Where a step can bring the screens.                                        *)
LEMMA Goes ==
  /\ stack' = << >> => stack' \in Shapes /\ Top' = "standby"
  /\ stack' = <<"qr">> => stack' \in Shapes /\ Top' = "qr"
  /\ stack' \in {<<"account">>, <<"qr", "account">>} => stack' \in Shapes /\ Top' = "account"
  /\ stack' = <<"main">> => stack' \in Shapes /\ Top' = "main"
  /\ \A s \in Exchange : stack' = <<"main", s>> => stack' \in Shapes /\ Top' = s
  /\ stack' = stack => Top' = Top
<1>1. /\ << >> \in Shapes /\ <<"qr">> \in Shapes /\ <<"account">> \in Shapes
      /\ <<"qr", "account">> \in Shapes /\ <<"main">> \in Shapes
      /\ \A s \in Exchange : <<"main", s>> \in Shapes
  BY DEF Shapes
<1>2. Top' = TopOf(stack')  BY TopIs
<1>3. stack' = stack => Top' = Top  BY TopIs
<1> QED  BY <1>1, <1>2, <1>3, ShapeTops

-----------------------------------------------------------------------------
(* The screens, their calls and their timers.                                 *)
LEMMA LogoutShape ==
  ASSUME Standby, timers' \subseteq {}
  PROVE  ScreenPart'
<1>1. Top' = "standby" /\ stack' \in Shapes  BY Goes DEF Standby
<1> QED
  BY <1>1 DEF Standby, NoSwap, ScreenPart, ScreenShape, OwnCall, OneByOne, KnownSwap, KnownConfirm,
    OwnTimers, QuietExchange, Exchange

SwapRecord == [old : Cabs \cup {None}, new : Cabs \cup {None}, serial : Packs \cup {None},
               fails : 0..3, tries : 0..3, asked : BOOLEAN, go : BOOLEAN, nr : 0..SwapMax]

LEMMA ScreenMoves ==
  ASSUME TypeOK, ScreenPart
  PROVE  /\ BannerTap => ScreenPart'
         /\ StatusTaps => ScreenPart'
         /\ OtherLogin => ScreenPart'
         /\ LoginBack => ScreenPart'
         /\ QrConfirmed => ScreenPart'
         /\ AccountLogin => ScreenPart'
         /\ StartClick => ScreenPart'
         /\ EmptyFound => ScreenPart'
         /\ EmptyRefused => ScreenPart'
         /\ WaitOpen => ScreenPart'
         /\ ReadTick => ScreenPart'
         /\ NewFound => ScreenPart'
         /\ Confirmed => ScreenPart'
         /\ BackClick => ScreenPart'
         /\ GiveTick => ScreenPart'
         /\ OpenClick => ScreenPart'
         /\ OpenLook => ScreenPart'
         /\ ToResult => ScreenPart'
         /\ Settle => ScreenPart'
         /\ ResultTick => ScreenPart'
         /\ ContinueClick => ScreenPart'
         /\ NextRefused => ScreenPart'
<1>0. ScreenShape /\ swap \in SwapRecord /\ None \notin Cabs
  BY HomeAssumption DEF ScreenPart, TypeOK, SwapRecord
<1> USE <1>0, Moves, Goes
<1>1. ASSUME BannerTap PROVE ScreenPart'
  BY <1>1 DEF BannerTap, NoActionOn, Quiet, Rest, Polled, Answered, Normal, Odd, Alone,
    ScreenPart, ScreenShape, OwnCall, OneByOne, KnownSwap, KnownConfirm, OwnTimers, QuietExchange, Exchange
<1>2. ASSUME StatusTaps PROVE ScreenPart'
  BY <1>2 DEF StatusTaps, NoActionOn, Quiet, Rest, Polled, Answered, Normal, Odd, Alone,
    ScreenPart, ScreenShape, OwnCall, OneByOne, KnownSwap, KnownConfirm, OwnTimers, QuietExchange, Exchange
<1>3. ASSUME OtherLogin PROVE ScreenPart'
  BY <1>3 DEF OtherLogin, NoActionOn, Quiet, Rest, Polled, Answered, Normal, Odd, Alone,
    ScreenPart, ScreenShape, OwnCall, OneByOne, KnownSwap, KnownConfirm, OwnTimers, QuietExchange, Exchange
<1>4. ASSUME LoginBack PROVE ScreenPart'
  BY <1>4 DEF LoginBack, Pop, Cancelled, Quiet, Rest, Polled, Answered, Normal, Odd, Alone,
    ScreenPart, ScreenShape, OwnCall, OneByOne, KnownSwap, KnownConfirm, OwnTimers, QuietExchange, Exchange
<1>5. ASSUME QrConfirmed PROVE ScreenPart'
  BY <1>5 DEF QrConfirmed, MainOpens, NoActionOn, NoActionOff, Quiet, Rest, Polled, Answered, Normal, Odd, Alone,
    ScreenPart, ScreenShape, OwnCall, OneByOne, KnownSwap, KnownConfirm, OwnTimers, QuietExchange, Exchange
<1>6. ASSUME AccountLogin PROVE ScreenPart'
  BY <1>6 DEF AccountLogin, MainOpens, NoActionOn, NoActionOff, Quiet, Rest, Polled, Answered, Normal, Odd, Alone,
    ScreenPart, ScreenShape, OwnCall, OneByOne, KnownSwap, KnownConfirm, OwnTimers, QuietExchange, Exchange
<1>7. ASSUME StartClick PROVE ScreenPart'
  BY <1>7 DEF StartClick, NoActionOff, Quiet, Rest, Polled, Answered, Normal, Odd, Alone,
    ScreenPart, ScreenShape, OwnCall, OneByOne, KnownSwap, KnownConfirm, OwnTimers, QuietExchange, Exchange
<1>8. ASSUME EmptyFound PROVE ScreenPart'
  BY <1>8 DEF EmptyFound, Began, NoSwap, OpenDoor, ReportedEmpty, Quiet, Rest, Polled, Answered, Normal, Odd, Alone,
    ScreenPart, ScreenShape, OwnCall, OneByOne, KnownSwap, KnownConfirm, OwnTimers, QuietExchange, Exchange
<1>9. ASSUME EmptyRefused PROVE ScreenPart'
  BY <1>9 DEF EmptyRefused, NoActionOn, Quiet, Rest, Polled, Answered, Normal, Odd, Alone,
    ScreenPart, ScreenShape, OwnCall, OneByOne, KnownSwap, KnownConfirm, OwnTimers, QuietExchange, Exchange
<1>10. ASSUME WaitOpen PROVE ScreenPart'
  BY <1>10 DEF WaitOpen, Quiet, Rest, Polled, Answered, Normal, Odd, Alone,
    ScreenPart, ScreenShape, OwnCall, OneByOne, KnownSwap, KnownConfirm, OwnTimers, QuietExchange, Exchange
<1>11. ASSUME ReadTick PROVE ScreenPart'
  BY <1>11 DEF ReadTick, SwapRecord, Quiet, Rest, Polled, Answered, Normal, Odd, Alone,
    ScreenPart, ScreenShape, OwnCall, OneByOne, KnownSwap, KnownConfirm, OwnTimers, QuietExchange, Exchange
<1>12. ASSUME NewFound PROVE ScreenPart'
  BY <1>12 DEF NewFound, Assign, SwapRecord, Quiet, Rest, Polled, Answered, Normal, Odd, Alone,
    ScreenPart, ScreenShape, OwnCall, OneByOne, KnownSwap, KnownConfirm, OwnTimers, QuietExchange, Exchange
<1>13. ASSUME Confirmed PROVE ScreenPart'
  BY <1>13 DEF Confirmed, Replace, Cancelled, SwapRecord, Quiet, Rest, Polled, Answered, Normal, Odd, Alone,
    ScreenPart, ScreenShape, OwnCall, OneByOne, KnownSwap, KnownConfirm, OwnTimers, QuietExchange, Exchange
<1>14. ASSUME BackClick PROVE ScreenPart'
  BY <1>14 DEF BackClick, Pop, Cancelled, NoSwap, Quiet, Rest, Polled, Answered, Normal, Odd, Alone,
    ScreenPart, ScreenShape, OwnCall, OneByOne, KnownSwap, KnownConfirm, OwnTimers, QuietExchange, Exchange
<1>15. ASSUME GiveTick PROVE ScreenPart'
  BY <1>15 DEF GiveTick, Quiet, Rest, Polled, Answered, Normal, Odd, Alone,
    ScreenPart, ScreenShape, OwnCall, OneByOne, KnownSwap, KnownConfirm, OwnTimers, QuietExchange, Exchange
<1>16. ASSUME OpenClick PROVE ScreenPart'
  BY <1>16 DEF OpenClick, Quiet, Rest, Polled, Answered, Normal, Odd, Alone,
    ScreenPart, ScreenShape, OwnCall, OneByOne, KnownSwap, KnownConfirm, OwnTimers, QuietExchange, Exchange
<1>17. ASSUME OpenLook PROVE ScreenPart'
  BY <1>17 DEF OpenLook, SwapRecord, Quiet, Rest, Polled, Answered, Normal, Odd, Alone,
    ScreenPart, ScreenShape, OwnCall, OneByOne, KnownSwap, KnownConfirm, OwnTimers, QuietExchange, Exchange
<1>18. ASSUME ToResult PROVE ScreenPart'
  BY <1>18 DEF ToResult, SwapRecord, Quiet, Rest, Polled, Answered, Normal, Odd, Alone,
    ScreenPart, ScreenShape, OwnCall, OneByOne, KnownSwap, KnownConfirm, OwnTimers, QuietExchange, Exchange
<1>19. ASSUME Settle PROVE ScreenPart'
  BY <1>19 DEF Settle, Quiet, Rest, Polled, Answered, Normal, Odd, Alone,
    ScreenPart, ScreenShape, OwnCall, OneByOne, KnownSwap, KnownConfirm, OwnTimers, QuietExchange, Exchange
<1>20. ASSUME ResultTick PROVE ScreenPart'
  BY <1>20 DEF ResultTick, AskNext, SwapRecord, Quiet, Rest, Polled, Answered, Normal, Odd, Alone,
    ScreenPart, ScreenShape, OwnCall, OneByOne, KnownSwap, KnownConfirm, OwnTimers, QuietExchange, Exchange
<1>21. ASSUME ContinueClick PROVE ScreenPart'
  BY <1>21 DEF ContinueClick, AskNext, SwapRecord, Quiet, Rest, Polled, Answered, Normal, Odd, Alone,
    ScreenPart, ScreenShape, OwnCall, OneByOne, KnownSwap, KnownConfirm, OwnTimers, QuietExchange, Exchange
<1>22. ASSUME NextRefused PROVE ScreenPart'
  BY <1>22 DEF NextRefused, Quiet, Rest, Polled, Answered, Normal, Odd, Alone,
    ScreenPart, ScreenShape, OwnCall, OneByOne, KnownSwap, KnownConfirm, OwnTimers, QuietExchange, Exchange
<1> QED
  BY <1>1, <1>2, <1>3, <1>4, <1>5, <1>6, <1>7, <1>8, <1>9, <1>10, <1>11, <1>12, <1>13, <1>14, <1>15, <1>16, <1>17, <1>18, <1>19, <1>20, <1>21, <1>22

(* The old pack is given back.                                                *)
LEMMA ErrorMoves ==
  ASSUME TypeOK, ScreenPart
  PROVE  /\ ReadEnd => ScreenPart'
         /\ ValidateEnd => ScreenPart'
         /\ NewRefused => ScreenPart'
         /\ NotConfirmed => ScreenPart'
<1>0. ScreenShape /\ swap \in SwapRecord /\ None \notin Cabs
  BY HomeAssumption DEF ScreenPart, TypeOK, SwapRecord
<1> USE <1>0, Moves, Goes
<1>1. ASSUME ReadEnd PROVE ScreenPart'
  BY <1>1 DEF ReadEnd, ToError, CutConfirm, GiveBack, OpenDoor, NoSwap, Cancelled, SwapRecord, Quiet, Rest, Polled, Answered, Normal, Odd, Alone,
    ScreenPart, ScreenShape, OwnCall, OneByOne, KnownSwap, KnownConfirm, OwnTimers, QuietExchange, Exchange
<1>2. ASSUME ValidateEnd PROVE ScreenPart'
  BY <1>2 DEF ValidateEnd, ToError, CutConfirm, GiveBack, OpenDoor, NoSwap, Cancelled, SwapRecord, Quiet, Rest, Polled, Answered, Normal, Odd, Alone,
    ScreenPart, ScreenShape, OwnCall, OneByOne, KnownSwap, KnownConfirm, OwnTimers, QuietExchange, Exchange
<1>3. ASSUME NewRefused PROVE ScreenPart'
  BY <1>3 DEF NewRefused, ToError, CutConfirm, GiveBack, OpenDoor, NoSwap, Cancelled, SwapRecord, Quiet, Rest, Polled, Answered, Normal, Odd, Alone,
    ScreenPart, ScreenShape, OwnCall, OneByOne, KnownSwap, KnownConfirm, OwnTimers, QuietExchange, Exchange
<1>4. ASSUME NotConfirmed PROVE ScreenPart'
  BY <1>4 DEF NotConfirmed, ToError, CutConfirm, GiveBack, OpenDoor, NoSwap, Cancelled, SwapRecord, Quiet, Rest, Polled, Answered, Normal, Odd, Alone,
    ScreenPart, ScreenShape, OwnCall, OneByOne, KnownSwap, KnownConfirm, OwnTimers, QuietExchange, Exchange
<1> QED
  BY <1>1, <1>2, <1>3, <1>4

(* The old pack is in its cabinet.                                            *)
LEMMA ValidateMoves ==
  ASSUME TypeOK, ScreenPart
  PROVE  /\ FillTick => ScreenPart'
         /\ RetryClick => ScreenPart'
         /\ NextFound => ScreenPart'
<1>0. ScreenShape /\ swap \in SwapRecord /\ None \notin Cabs
  BY HomeAssumption DEF ScreenPart, TypeOK, SwapRecord
<1> USE <1>0, Moves, Goes
<1>1. ASSUME FillTick PROVE ScreenPart'
  BY <1>1 DEF FillTick, ToValidate, Replace, OpenDoor, NoSwap, Cancelled, SwapRecord, Quiet, Rest, Polled, Answered, Normal, Odd, Alone,
    ScreenPart, ScreenShape, OwnCall, OneByOne, KnownSwap, KnownConfirm, OwnTimers, QuietExchange, Exchange
<1>2. ASSUME RetryClick PROVE ScreenPart'
  BY <1>2 DEF RetryClick, ToValidate, Replace, OpenDoor, NoSwap, Cancelled, SwapRecord, Quiet, Rest, Polled, Answered, Normal, Odd, Alone,
    ScreenPart, ScreenShape, OwnCall, OneByOne, KnownSwap, KnownConfirm, OwnTimers, QuietExchange, Exchange
<1>3. ASSUME NextFound PROVE ScreenPart'
  <2>1. /\ call = "next" /\ Top = "result" /\ swap.new \in Cabs /\ swap.old \in Cabs
        /\ UNCHANGED sync /\ sync = FALSE /\ "noAction" \notin timers
        /\ timers \ {"result120"} = {} /\ backend' = "open"
    BY <1>3 DEF NextFound, ScreenPart, OwnCall, OneByOne, KnownSwap, OwnTimers, QuietExchange, Exchange
  <2>2. CASE /\ swap' = [NoSwap EXCEPT !.old = swap.new, !.nr = swap.nr + 1]
             /\ Replace("empty", {"open10"})
    <3>1. stack' = <<"main", "empty">> /\ timers' = {"open10"} /\ call' = "none"
      BY <2>1, <2>2 DEF Replace, Cancelled, Exchange
    <3>2. Top' = "empty" /\ stack' \in Shapes  BY <3>1 DEF Exchange
    <3>3. swap'.old \in Cabs  BY <2>1, <2>2 DEF NoSwap
    <3> QED
      BY <2>1, <3>1, <3>2, <3>3 DEF ScreenPart, ScreenShape, OwnCall, OneByOne, KnownSwap, KnownConfirm,
        OwnTimers, QuietExchange
  <2>3. CASE ToValidate(swap.new, swap.nr + 1)
    <3>1. stack' = <<"main", "validate">> /\ timers' = {"read15", "valid60"} /\ call' = "none"
      BY <2>1, <2>3 DEF ToValidate, Replace, Cancelled, Exchange
    <3>2. Top' = "validate" /\ stack' \in Shapes  BY <3>1 DEF Exchange
    <3>3. swap'.old \in Cabs /\ swap'.new = None  BY <2>1, <2>3 DEF ToValidate, NoSwap
    <3> QED
      BY <2>1, <3>1, <3>2, <3>3 DEF ScreenPart, ScreenShape, OwnCall, OneByOne, KnownSwap, KnownConfirm,
        OwnTimers, QuietExchange
  <2> QED  BY <1>3, <2>2, <2>3 DEF NextFound
<1> QED
  BY <1>1, <1>2, <1>3

(* The session ends.                                                          *)
LEMMA EndMoves ==
  ASSUME TypeOK, ScreenPart
  PROVE  /\ FillEnd => ScreenPart'
         /\ IdleEnd => ScreenPart'
         /\ ResultEnd => ScreenPart'
         /\ MainLogout => ScreenPart'
         /\ NoAction => ScreenPart'
         /\ Restart => ScreenPart'
<1>0. ScreenShape /\ swap \in SwapRecord /\ None \notin Cabs
  BY HomeAssumption DEF ScreenPart, TypeOK, SwapRecord
<1> USE <1>0, Moves, Goes
<1>1. ASSUME FillEnd PROVE ScreenPart'
  BY <1>1, LogoutShape DEF FillEnd, Logout, Cancelled, Quiet, Rest, Polled, Answered, Normal, Odd, Alone,
    ScreenPart, ScreenShape, OwnCall, OneByOne, KnownSwap, KnownConfirm, OwnTimers, QuietExchange, Exchange
<1>2. ASSUME IdleEnd PROVE ScreenPart'
  BY <1>2, LogoutShape DEF IdleEnd, Logout, Cancelled, Quiet, Rest, Polled, Answered, Normal, Odd, Alone,
    ScreenPart, ScreenShape, OwnCall, OneByOne, KnownSwap, KnownConfirm, OwnTimers, QuietExchange, Exchange
<1>3. ASSUME ResultEnd PROVE ScreenPart'
  BY <1>3, LogoutShape DEF ResultEnd, Logout, Cancelled, Quiet, Rest, Polled, Answered, Normal, Odd, Alone,
    ScreenPart, ScreenShape, OwnCall, OneByOne, KnownSwap, KnownConfirm, OwnTimers, QuietExchange, Exchange
<1>4. ASSUME MainLogout PROVE ScreenPart'
  BY <1>4, LogoutShape DEF MainLogout, Logout, Cancelled, Quiet, Rest, Polled, Answered, Normal, Odd, Alone,
    ScreenPart, ScreenShape, OwnCall, OneByOne, KnownSwap, KnownConfirm, OwnTimers, QuietExchange, Exchange
<1>5. ASSUME NoAction PROVE ScreenPart'
  BY <1>5, LogoutShape DEF NoAction, NoActionOff, Quiet, Rest, Polled, Answered, Normal, Odd, Alone,
    ScreenPart, ScreenShape, OwnCall, OneByOne, KnownSwap, KnownConfirm, OwnTimers, QuietExchange, Exchange
<1>6. ASSUME Restart PROVE ScreenPart'
  BY <1>6, LogoutShape DEF Restart, Started, Standby, Quiet, Rest, Polled, Answered, Normal, Odd, Alone,
    ScreenPart, ScreenShape, OwnCall, OneByOne, KnownSwap, KnownConfirm, OwnTimers, QuietExchange, Exchange
<1> QED
  BY <1>1, <1>2, <1>3, <1>4, <1>5, <1>6

(* The station and the world do not touch the screens; an answer to a write   *)
(* does.                                                                      *)
LEMMA OtherMoves ==
  ASSUME ScreenPart, UNCHANGED ui
  PROVE  ScreenPart'
BY TopIs DEF ui, ScreenPart, ScreenShape, OwnCall, OneByOne, KnownSwap, KnownConfirm, OwnTimers,
  QuietExchange, Exchange

LEMMA DispatchMoves ==
  ASSUME TypeOK, ScreenPart, Dispatch
  PROVE  ScreenPart'
<1>0. Head(events) \in Event  BY DEF TypeOK, Dispatch
<1>1. /\ ScreenShape /\ swap \in SwapRecord /\ None \notin Cabs
      /\ Head(events).cab \in Cabs /\ Top' = Top
  BY <1>0, HomeAssumption, Goes DEF ScreenPart, TypeOK, SwapRecord, Dispatch, Event
<1>2. UNCHANGED <<stack, timers, backend, sync, cut>>  BY DEF Dispatch
<1>3. CASE UNCHANGED <<swap, call>>
  BY <1>1, <1>2, <1>3, OtherMoves DEF ui
<1>4. CASE /\ Top = "validate" /\ swap.new = Head(events).cab
           /\ swap' = [swap EXCEPT !.fails = @ + 1] /\ UNCHANGED call
  BY <1>1, <1>2, <1>4
  DEF SwapRecord, ScreenPart, ScreenShape, OwnCall, OneByOne, KnownSwap, KnownConfirm, OwnTimers,
    QuietExchange, Exchange
<1>5. CASE /\ Top = "validate" /\ swap.new = Head(events).cab
           /\ swap' = [swap EXCEPT !.fails = 0, !.asked = TRUE] /\ call' \in {call, "confirm"}
  BY <1>1, <1>2, <1>5
  DEF SwapRecord, ScreenPart, ScreenShape, OwnCall, OneByOne, KnownSwap, KnownConfirm, OwnTimers,
    QuietExchange, Exchange
<1> QED
  BY <1>3, <1>4, <1>5 DEF Dispatch, Taken, Assigned, Confirm

-----------------------------------------------------------------------------
(* Type correctness.                                                          *)
ScreenStep == Screens \/ TimerFires \/ Answer \/ Restart

LEMMA SwapForms ==
  ASSUME swap \in SwapRecord
  PROVE  /\ NoSwap \in SwapRecord
         /\ \A c \in Cabs \cup {None}, n \in 0..SwapMax :
              [NoSwap EXCEPT !.old = c, !.nr = n] \in SwapRecord
         /\ \A p \in Packs \cup {None} : [swap EXCEPT !.serial = p] \in SwapRecord
         /\ \A c \in Cabs : [swap EXCEPT !.new = c] \in SwapRecord
         /\ [swap EXCEPT !.serial = None, !.asked = FALSE] \in SwapRecord
         /\ [swap EXCEPT !.fails = 0, !.asked = TRUE] \in SwapRecord
         /\ swap.fails < 3 => [swap EXCEPT !.fails = @ + 1] \in SwapRecord
         /\ swap.tries < 3 => [swap EXCEPT !.tries = @ + 1] \in SwapRecord
         /\ [swap EXCEPT !.tries = 0] \in SwapRecord
         /\ \A go \in BOOLEAN : [swap EXCEPT !.go = go] \in SwapRecord
<1>1. 0 \in 0..SwapMax  BY BoundsAssumption
<1>2. NoSwap \in SwapRecord  BY <1>1 DEF NoSwap, SwapRecord
<1>3. ASSUME NEW c \in Cabs \cup {None}, NEW n \in 0..SwapMax
      PROVE  [NoSwap EXCEPT !.old = c, !.nr = n] \in SwapRecord
  <2>0. \A s \in SwapRecord : [s EXCEPT !.old = c] \in SwapRecord  BY DEF SwapRecord
  <2>1. [NoSwap EXCEPT !.old = c] \in SwapRecord  BY <1>2, <2>0
  <2>2. [NoSwap EXCEPT !.old = c, !.nr = n] = [[NoSwap EXCEPT !.old = c] EXCEPT !.nr = n]
    BY DEF NoSwap
  <2>3. \A s \in SwapRecord : [s EXCEPT !.nr = n] \in SwapRecord  BY DEF SwapRecord
  <2> QED  BY <2>1, <2>2, <2>3
<1>4. /\ \A p \in Packs \cup {None} : [swap EXCEPT !.serial = p] \in SwapRecord
      /\ \A c \in Cabs : [swap EXCEPT !.new = c] \in SwapRecord
      /\ \A go \in BOOLEAN : [swap EXCEPT !.go = go] \in SwapRecord
  BY DEF SwapRecord
<1>5. /\ [swap EXCEPT !.serial = None, !.asked = FALSE] \in SwapRecord
      /\ [swap EXCEPT !.fails = 0, !.asked = TRUE] \in SwapRecord
      /\ [swap EXCEPT !.tries = 0] \in SwapRecord
  <2>1. /\ [swap EXCEPT !.serial = None] \in SwapRecord
        /\ [swap EXCEPT !.fails = 0] \in SwapRecord
        /\ [swap EXCEPT !.tries = 0] \in SwapRecord
    BY DEF SwapRecord
  <2>2. \A s \in SwapRecord, b \in BOOLEAN : [s EXCEPT !.asked = b] \in SwapRecord
    BY DEF SwapRecord
  <2>3. /\ [swap EXCEPT !.serial = None, !.asked = FALSE]
             = [[swap EXCEPT !.serial = None] EXCEPT !.asked = FALSE]
        /\ [swap EXCEPT !.fails = 0, !.asked = TRUE]
             = [[swap EXCEPT !.fails = 0] EXCEPT !.asked = TRUE]
    BY DEF SwapRecord
  <2> QED  BY <2>1, <2>2, <2>3
<1>6. swap.fails < 3 => [swap EXCEPT !.fails = @ + 1] \in SwapRecord  BY DEF SwapRecord
<1>7. swap.tries < 3 => [swap EXCEPT !.tries = @ + 1] \in SwapRecord  BY DEF SwapRecord
<1> QED  BY <1>2, <1>3, <1>4, <1>5, <1>6, <1>7

Writes == [cab : Cabs, to : {"vehicle", "bss"}]
TypeQueues == /\ events \in Seq(Event) /\ Len(events) <= EventMax
              /\ writes \in Seq(Writes) /\ Len(writes) <= WriteMax
TypeDoors == door \in [Cabs -> {"open", "closed"}] /\ odd \in 0..OddMax

LEMMA OpenDoorTyped ==
  ASSUME TypeDoors, NEW c, NEW n \in {0, 1}, OpenDoor(c, n)
  PROVE  TypeDoors'
BY BoundsAssumption DEF TypeDoors, OpenDoor

LEMMA AssignTyped ==
  ASSUME TypeQueues, NEW c \in Cabs, NEW to \in {"vehicle", "bss"},
         NEW es \in Seq(Event), Len(es) <= EventMax, Assign(c, to, es)
  PROVE  TypeQueues'
<1>1. [kind |-> "assigned", cab |-> c, ok |-> FALSE] \in Event  BY DEF Event
<1>2. [cab |-> c, to |-> to] \in Writes  BY DEF Writes
<1>3. CASE shown[c] = None
  <2>1. /\ Len(es) < EventMax /\ UNCHANGED writes
        /\ events' = Append(es, [kind |-> "assigned", cab |-> c, ok |-> FALSE])
    BY <1>3 DEF Assign
  <2>2. events' \in Seq(Event) /\ Len(events') = Len(es) + 1  BY <1>1, <2>1, AppendProperties
  <2> QED  BY <2>1, <2>2, BoundsAssumption DEF TypeQueues
<1>4. CASE shown[c] # None
  <2>1. Len(writes) < WriteMax /\ writes' = Append(writes, [cab |-> c, to |-> to]) /\ events' = es
    BY <1>4 DEF Assign
  <2>2. writes' \in Seq(Writes) /\ Len(writes') = Len(writes) + 1
    BY <1>2, <2>1, AppendProperties DEF TypeQueues
  <2> QED  BY <2>1, <2>2, BoundsAssumption DEF TypeQueues
<1> QED  BY <1>3, <1>4

TypeRest == /\ connected \in Cabs \cup {None} /\ doorEvent \in Cabs \cup {None}
            /\ seen \in [Cabs -> {"open", "closed"}]
            /\ pack \in [Cabs -> Packs \cup {None}] /\ shown \in [Cabs -> Packs \cup {None}]
            /\ hand \subseteq Packs /\ owner \in [Packs -> {"vehicle", "bss"}]
            /\ remote \in BOOLEAN
TypeParts == /\ call \in {"none", "empty", "new", "confirm", "next"} /\ swap \in SwapRecord
             /\ backend \in {"none", "open", "confirmed"} /\ {cut, sync} \subseteq BOOLEAN
             /\ TypeDoors /\ TypeQueues /\ TypeRest

(* Whose a timer is.                                                          *)
LEMMA TimerTops ==
  ASSUME ScreenPart
  PROVE  /\ timers \cap {"open10", "fill60"} # {} => Top = "empty"
         /\ timers \cap {"read15", "valid60"} # {} => Top = "validate"
         /\ timers \cap {"give5", "idle60"} # {} => Top = "error"
         /\ timers \cap {"open3", "leave5"} # {} => Top = "open"
         /\ timers \cap {"settle3", "result120"} # {} => Top = "result"
<1>1. Top \in {"standby", "qr", "account", "main"} \cup Exchange  BY Moves DEF ScreenPart
<1>2. OwnTimers  BY DEF ScreenPart
<1> QED  BY <1>1, <1>2 DEF OwnTimers, Exchange

LEMMA OddTyped ==
  ASSUME TypeDoors, Odd \/ Normal, UNCHANGED door
  PROVE  TypeDoors'
BY BoundsAssumption DEF TypeDoors, Odd, Normal

LEMMA ToErrorTyped ==
  ASSUME TypeParts, NEW n \in {0, 1}, ToError(n)
  PROVE  call' = "none" /\ swap' \in SwapRecord /\ TypeDoors' /\ TypeQueues'
<1>1. swap \in SwapRecord /\ TypeDoors /\ TypeQueues  BY DEF TypeParts
<1>2. swap.old \in Cabs \cup {None} /\ swap.nr \in 0..SwapMax  BY <1>1 DEF SwapRecord
<1>3. call' = "none" /\ swap' \in SwapRecord  BY <1>1, <1>2, SwapForms DEF ToError
<1>4. TypeQueues'  BY <1>1 DEF ToError, TypeQueues
<1>5. CASE GiveBack(n)
  <2>1. OpenDoor(swap.old, n)  BY <1>5 DEF GiveBack
  <2>2. TypeDoors'  BY <2>1, <1>1, OpenDoorTyped
  <2> QED  BY <2>2, <1>3, <1>4
<1>6. CASE odd >= n /\ odd' = odd - n /\ UNCHANGED door
  <2>1. odd \in 0..OddMax /\ OddMax \in Nat  BY <1>1, BoundsAssumption DEF TypeDoors
  <2>2. odd' \in 0..OddMax  BY <2>1, <1>6
  <2> QED  BY <2>2, <1>1, <1>3, <1>4, <1>6 DEF TypeDoors
<1>7. GiveBack(n) \/ (odd >= n /\ odd' = odd - n /\ UNCHANGED door)  BY DEF ToError
<1> QED  BY <1>3, <1>4, <1>5, <1>6, <1>7

LEMMA CutConfirmTyped ==
  ASSUME TypeParts, CutConfirm \/ UNCHANGED <<cut, backend>>
  PROVE  cut' \in BOOLEAN /\ backend' \in {"none", "open", "confirmed"}
BY DEF TypeParts, CutConfirm

LEMMA ScreensTyped ==
  ASSUME TypeParts, ScreenPart, Screens
  PROVE  TypeParts'
<1>0. swap \in SwapRecord /\ TypeDoors /\ TypeQueues /\ shown \in [Cabs -> Packs \cup {None}]
  BY DEF TypeParts, TypeRest
<1>a. /\ swap.old \in Cabs \cup {None} /\ swap.new \in Cabs \cup {None}
      /\ swap.nr \in 0..SwapMax
  BY <1>0 DEF SwapRecord
<1>b. 1 \in 0..SwapMax /\ (call = "next" => swap.nr + 1 \in 0..SwapMax) /\ odd \in 0..OddMax
  BY <1>0, <1>a, BoundsAssumption DEF ScreenPart, OwnCall, TypeDoors
<1>c. \A c \in Cabs : Serial(c) \in Packs \cup {None}
  BY <1>0 DEF Serial, BatteryRead
<1>d. /\ UNCHANGED <<events, writes>> => TypeQueues'
      /\ UNCHANGED door /\ odd' \in 0..OddMax => TypeDoors'
  BY <1>0 DEF TypeQueues, TypeDoors
<1> USE <1>0, <1>a, <1>b, <1>c, <1>d, SwapForms, BoundsAssumption
<1>1. ASSUME BannerTap PROVE TypeParts'
  BY <1>1 DEF BannerTap, Answered, Quiet, Rest, Polled, app, TypeParts, TypeRest
<1>2. ASSUME StatusTaps PROVE TypeParts'
  BY <1>2 DEF StatusTaps, Answered, Quiet, Rest, Polled, app, TypeParts, TypeRest
<1>3. ASSUME OtherLogin PROVE TypeParts'
  BY <1>3 DEF OtherLogin, Polled, Quiet, Rest, app, TypeParts, TypeRest
<1>4. ASSUME LoginBack PROVE TypeParts'
  BY <1>4 DEF LoginBack, Polled, Pop, Quiet, Rest, app, TypeParts, TypeRest
<1>5. ASSUME QrConfirmed PROVE TypeParts'
  BY <1>5 DEF QrConfirmed, Polled, MainOpens, app, world, station, TypeParts, TypeRest
<1>6. ASSUME AccountLogin PROVE TypeParts'
  BY <1>6 DEF AccountLogin, Polled, MainOpens, app, world, station, TypeParts, TypeRest
<1>7. ASSUME NoAction PROVE TypeParts'
  BY <1>7 DEF NoAction, Standby, Quiet, Rest, app, TypeParts, TypeRest
<1>8. ASSUME StartClick PROVE TypeParts'
  BY <1>8 DEF StartClick, Polled, Quiet, Rest, app, TypeParts, TypeRest
<1>9. ASSUME MainLogout PROVE TypeParts'
  BY <1>9 DEF MainLogout, Polled, Logout, Quiet, Rest, Standby, app, TypeParts, TypeRest
<1>10. ASSUME RetryClick PROVE TypeParts'
  BY <1>10, OddTyped DEF RetryClick, Polled, ToValidate, Rest, Replace, app, TypeParts, TypeRest
<1>11. ASSUME OpenClick PROVE TypeParts'
  BY <1>11, OpenDoorTyped DEF OpenClick, Polled, GiveBack, Rest, app, TypeParts, TypeRest
<1>12. ASSUME BackClick PROVE TypeParts'
  BY <1>12, OpenDoorTyped DEF BackClick, Polled, GiveBack, Pop, Rest, app, TypeParts, TypeRest
<1>13. ASSUME ContinueClick PROVE TypeParts'
  BY <1>13, OddTyped DEF ContinueClick, Polled, AskNext, Rest, app, TypeParts, TypeRest
<1> QED
  BY <1>1, <1>2, <1>3, <1>4, <1>5, <1>6, <1>7, <1>8, <1>9, <1>10, <1>11, <1>12, <1>13 DEF Screens

LEMMA TimersTyped ==
  ASSUME TypeParts, ScreenPart, TimerFires
  PROVE  TypeParts'
<1>0. swap \in SwapRecord /\ TypeDoors /\ TypeQueues /\ shown \in [Cabs -> Packs \cup {None}]
  BY DEF TypeParts, TypeRest
<1>a. /\ swap.old \in Cabs \cup {None} /\ swap.new \in Cabs \cup {None}
      /\ swap.nr \in 0..SwapMax
  BY <1>0 DEF SwapRecord
<1>b. 1 \in 0..SwapMax /\ (call = "next" => swap.nr + 1 \in 0..SwapMax) /\ odd \in 0..OddMax
  BY <1>0, <1>a, BoundsAssumption DEF ScreenPart, OwnCall, TypeDoors
<1>c. \A c \in Cabs : Serial(c) \in Packs \cup {None}
  BY <1>0 DEF Serial, BatteryRead
<1>d. /\ UNCHANGED <<events, writes>> => TypeQueues'
      /\ UNCHANGED door /\ odd' \in 0..OddMax => TypeDoors'
  BY <1>0 DEF TypeQueues, TypeDoors
<1> USE <1>0, <1>a, <1>b, <1>c, <1>d, SwapForms, BoundsAssumption
<1>1. ASSUME WaitOpen PROVE TypeParts'
  BY <1>1 DEF WaitOpen, Polled, Quiet, Rest, app, TypeParts, TypeRest
<1>2. ASSUME FillTick PROVE TypeParts'
  BY <1>2 DEF FillTick, ToValidate, Quiet, Rest, Replace, app, TypeParts, TypeRest
<1>3. ASSUME FillEnd PROVE TypeParts'
  BY <1>3 DEF FillEnd, Logout, Quiet, Rest, Standby, app, TypeParts, TypeRest
<1>4. ASSUME ReadTick PROVE TypeParts'
  <2>0. "read15" \in timers  BY <1>4 DEF ReadTick
  <2>1. Top = "validate"  BY <2>0, TimerTops
  <2>a. swap.old \in Cabs  BY <2>1 DEF ScreenPart, KnownSwap, Exchange
  <2>2. Serial(swap.old) \in Packs \cup {None}  BY <2>a
  <2>3. swap' = [swap EXCEPT !.serial = Serial(swap.old)] /\ call' = "new"  BY <1>4 DEF ReadTick
  <2>4. swap' \in SwapRecord  BY <2>2, <2>3
  <2> QED  BY <1>4, <2>3, <2>4 DEF ReadTick, Quiet, Rest, app, TypeParts, TypeRest, TypeDoors
<1>5. ASSUME ReadEnd PROVE TypeParts'
  BY <1>5, ToErrorTyped, CutConfirmTyped DEF ReadEnd, Polled, Rest, app, TypeParts, TypeRest
<1>6. ASSUME ValidateEnd PROVE TypeParts'
  BY <1>6, ToErrorTyped, CutConfirmTyped DEF ValidateEnd, Rest, app, TypeParts, TypeRest
<1>7. ASSUME GiveTick PROVE TypeParts'
  BY <1>7, OpenDoorTyped DEF GiveTick, GiveBack, Rest, app, TypeParts, TypeRest
<1>8. ASSUME IdleEnd PROVE TypeParts'
  BY <1>8 DEF IdleEnd, Logout, Quiet, Rest, Standby, app, TypeParts, TypeRest
<1>9. ASSUME OpenLook PROVE TypeParts'
  <2>1. swap' \in SwapRecord
    <3>1. CASE swap.tries < 3 /\ swap' = [swap EXCEPT !.tries = @ + 1]  BY <3>1
    <3>2. CASE UNCHANGED swap  BY <3>2
    <3> QED  BY <1>9, <3>1, <3>2 DEF OpenLook
  <2> QED  BY <1>9, <2>1 DEF OpenLook, Quiet, Rest, app, TypeParts, TypeRest, TypeDoors
<1>10. ASSUME ToResult PROVE TypeParts'
  BY <1>10 DEF ToResult, Answered, Quiet, Rest, Polled, app, TypeParts, TypeRest
<1>11. ASSUME Settle PROVE TypeParts'
  BY <1>11 DEF Settle, Quiet, Rest, app, TypeParts, TypeRest
<1>12. ASSUME ResultTick PROVE TypeParts'
  BY <1>12 DEF ResultTick, AskNext, Normal, Rest, app, TypeParts, TypeRest
<1>13. ASSUME ResultEnd PROVE TypeParts'
  BY <1>13 DEF ResultEnd, Logout, Quiet, Rest, Standby, app, TypeParts, TypeRest
<1> QED
  BY <1>1, <1>2, <1>3, <1>4, <1>5, <1>6, <1>7, <1>8, <1>9, <1>10, <1>11, <1>12, <1>13 DEF TimerFires

LEMMA AnswersTyped ==
  ASSUME TypeParts, ScreenPart, Answer
  PROVE  TypeParts'
<1>0. swap \in SwapRecord /\ TypeDoors /\ TypeQueues /\ shown \in [Cabs -> Packs \cup {None}]
  BY DEF TypeParts, TypeRest
<1>a. /\ swap.old \in Cabs \cup {None} /\ swap.new \in Cabs \cup {None}
      /\ swap.nr \in 0..SwapMax
  BY <1>0 DEF SwapRecord
<1>b. 1 \in 0..SwapMax /\ (call = "next" => swap.nr + 1 \in 0..SwapMax) /\ odd \in 0..OddMax
  BY <1>0, <1>a, BoundsAssumption DEF ScreenPart, OwnCall, TypeDoors
<1>c. \A c \in Cabs : Serial(c) \in Packs \cup {None}
  BY <1>0 DEF Serial, BatteryRead
<1>d. /\ UNCHANGED <<events, writes>> => TypeQueues'
      /\ UNCHANGED door /\ odd' \in 0..OddMax => TypeDoors'
  BY <1>0 DEF TypeQueues, TypeDoors
<1> USE <1>0, <1>a, <1>b, <1>c, <1>d, SwapForms, BoundsAssumption
<1>1. ASSUME EmptyFound PROVE TypeParts'
  <2>1. PICK c \in Cabs : Began(c, 1) /\ OpenDoor(c, 0)
    BY <1>1 DEF EmptyFound, ReportedEmpty
  <2>2. swap' \in SwapRecord /\ backend' = "open"  BY <2>1 DEF Began
  <2>3. TypeDoors'  BY <2>1, OpenDoorTyped
  <2> QED  BY <1>1, <2>2, <2>3 DEF EmptyFound, Rest, app, TypeParts, TypeRest
<1>2. ASSUME EmptyRefused PROVE TypeParts'
  BY <1>2, OddTyped DEF EmptyRefused, ReportedEmpty, Rest, app, TypeParts, TypeRest
<1>3. ASSUME NewFound PROVE TypeParts'
  BY <1>3, AssignTyped DEF NewFound, Polled, Rest, app, TypeParts, TypeRest, TypeQueues
<1>4. ASSUME NewRefused PROVE TypeParts'
  BY <1>4, ToErrorTyped, CutConfirmTyped DEF NewRefused, Rest, app, TypeParts, TypeRest
<1>5. ASSUME Confirmed PROVE TypeParts'
  BY <1>5, OpenDoorTyped, AssignTyped DEF Confirmed, Polled, Replace, Rest, app, TypeParts, TypeRest, ScreenPart,
    KnownSwap, OwnCall, Exchange, TypeQueues
<1>6. ASSUME NotConfirmed PROVE TypeParts'
  BY <1>6, ToErrorTyped, CutConfirmTyped DEF NotConfirmed, Rest, app, TypeParts, TypeRest
<1>7. ASSUME NextFound PROVE TypeParts'
  <2>1. swap.new \in Cabs /\ swap.nr + 1 \in 0..SwapMax
    BY <1>7 DEF NextFound, ScreenPart, KnownSwap, OwnCall
  <2>2. /\ swap' = [NoSwap EXCEPT !.old = swap.new, !.nr = swap.nr + 1] /\ call' = "none"
        /\ OpenDoor(swap.new, 0) \/ (UNCHANGED door /\ Normal)
    BY <1>7 DEF NextFound, ToValidate, Replace
  <2>3. swap' \in SwapRecord  BY <2>1, <2>2
  <2>4. TypeDoors'  BY <2>2, OpenDoorTyped, OddTyped
  <2> QED  BY <1>7, <2>2, <2>3, <2>4 DEF NextFound, Rest, app, TypeParts, TypeRest
<1>8. ASSUME NextRefused PROVE TypeParts'
  BY <1>8, OpenDoorTyped DEF NextRefused, Rest, app, TypeParts, TypeRest
<1> QED
  BY <1>1, <1>2, <1>3, <1>4, <1>5, <1>6, <1>7, <1>8 DEF Answer

LEMMA NotifyTyped ==
  ASSUME TypeQueues, NEW k \in {"door", "connected", "assigned"}, NEW c \in Cabs, NEW ok \in BOOLEAN,
         Notify(k, c, ok)
  PROVE  events' \in Seq(Event) /\ Len(events') <= EventMax
<1>1. [kind |-> k, cab |-> c, ok |-> ok] \in Event  BY DEF Event
<1>2. Len(events) < EventMax /\ events' = Append(events, [kind |-> k, cab |-> c, ok |-> ok])
  BY DEF Notify
<1>3. events' \in Seq(Event) /\ Len(events') = Len(events) + 1
  BY <1>1, <1>2, AppendProperties DEF TypeQueues
<1> QED  BY <1>2, <1>3, BoundsAssumption DEF TypeQueues

LEMMA DispatchTyped ==
  ASSUME TypeParts, Dispatch
  PROVE  TypeParts'
<1> DEFINE e == Head(events)
<1>1. /\ events # << >> /\ events \in Seq(Event) /\ Len(events) <= EventMax
      /\ swap \in SwapRecord /\ TypeQueues
  BY DEF Dispatch, TypeParts, TypeQueues
<1>2. /\ e \in Event /\ Tail(events) \in Seq(Event) /\ Len(Tail(events)) <= EventMax
  BY <1>1, BoundsAssumption
<1>3. e.cab \in Cabs /\ e.ok \in BOOLEAN /\ e.kind \in {"door", "connected", "assigned"}
  BY <1>2 DEF Event
<1> HIDE DEF e
<1>4. /\ doorEvent' \in Cabs \cup {None} /\ connected' \in Cabs \cup {None}
      /\ UNCHANGED <<backend, sync, cut, world, seen, shown, odd, remote>>
  BY <1>3 DEF Dispatch, Taken, TypeParts, TypeRest, e
<1>5. TypeRest' /\ TypeDoors'  BY <1>4 DEF TypeParts, TypeRest, TypeDoors, world
<1>6. /\ call' \in {call, "confirm"} /\ swap' \in SwapRecord /\ TypeQueues'
  <2>1. CASE UNCHANGED <<swap, call, writes>> /\ events' = Tail(events)
    BY <1>1, <1>2, <2>1 DEF TypeQueues
  <2>2. CASE /\ swap.fails < 3 /\ swap' = [swap EXCEPT !.fails = @ + 1] /\ UNCHANGED call
             /\ Assign(e.cab, "vehicle", Tail(events))
    <3>1. TypeQueues'  BY <1>1, <1>2, <1>3, <2>2, AssignTyped
    <3>2. swap' \in SwapRecord  BY <1>1, <2>2, SwapForms
    <3> QED  BY <2>2, <3>1, <3>2
  <2>3. CASE /\ swap' = [swap EXCEPT !.fails = 0, !.asked = TRUE] /\ call' \in {call, "confirm"}
             /\ UNCHANGED writes /\ events' = Tail(events)
    <3>1. swap' \in SwapRecord  BY <1>1, <2>3, SwapForms
    <3> QED  BY <1>1, <1>2, <2>3, <3>1 DEF TypeQueues
  <2>4. CASE Assigned(e)
    BY <2>1, <2>2, <2>3, <2>4 DEF Assigned, Confirm
  <2> QED  BY <2>1, <2>4 DEF Dispatch, Taken, e
<1> QED  BY <1>4, <1>5, <1>6 DEF TypeParts

LEMMA StationTyped ==
  ASSUME TypeParts, NEW c \in Cabs
  PROVE  (Poll(c) \/ Connect(c) \/ Lose(c) \/ RemoteOpen(c) \/ PutIn(c) \/ TakeOut(c) \/ CloseDoor(c))
         => TypeParts'
<1> USE DEF TypeParts, TypeRest, ui, app, world, station
<1>0. odd \in 0..OddMax /\ OddMax \in Nat /\ (Alone => odd' \in 0..OddMax)
  BY BoundsAssumption DEF TypeDoors, Alone
<1>1. ASSUME Poll(c) PROVE TypeParts'
  <2>1. events' \in Seq(Event) /\ Len(events') <= EventMax
    BY <1>1, NotifyTyped DEF Poll
  <2> QED  BY <1>1, <2>1 DEF Poll, TypeQueues, TypeDoors
<1>2. ASSUME Connect(c) PROVE TypeParts'
  <2>1. events' \in Seq(Event) /\ Len(events') <= EventMax
    BY <1>2, NotifyTyped DEF Connect
  <2> QED  BY <1>2, <2>1 DEF Connect, TypeQueues, TypeDoors
<1>3. ASSUME Lose(c) PROVE TypeParts'  BY <1>0, <1>3 DEF Lose, TypeQueues, TypeDoors
<1>4. ASSUME RemoteOpen(c) PROVE TypeParts'  BY <1>0, <1>4 DEF RemoteOpen, TypeQueues, TypeDoors
<1>5. ASSUME PutIn(c) PROVE TypeParts'  BY <1>5 DEF PutIn, TypeQueues, TypeDoors
<1>6. ASSUME TakeOut(c) PROVE TypeParts'  BY <1>6 DEF TakeOut, TypeQueues, TypeDoors
<1>7. ASSUME CloseDoor(c) PROVE TypeParts'  BY <1>7 DEF CloseDoor, TypeQueues, TypeDoors
<1> QED  BY <1>1, <1>2, <1>3, <1>4, <1>5, <1>6, <1>7

LEMMA WrittenTyped ==
  ASSUME TypeParts, Written
  PROVE  TypeParts'
<1> DEFINE w == Head(writes)
<1>1. writes # << >> /\ writes \in Seq(Writes) /\ TypeQueues  BY DEF Written, TypeParts, TypeQueues
<1>2. w \in Writes /\ Tail(writes) \in Seq(Writes) /\ Len(Tail(writes)) <= WriteMax
  BY <1>1, BoundsAssumption DEF TypeQueues
<1>3. w.cab \in Cabs /\ w.to \in {"vehicle", "bss"}  BY <1>2 DEF Writes
<1> HIDE DEF w
<1>4. PICK ok \in {shown[w.cab] # None, FALSE} :
        /\ owner' = IF ok THEN [owner EXCEPT ![shown[w.cab]] = w.to] ELSE owner
        /\ Notify("assigned", w.cab, ok)
  BY DEF Written, w
<1>5. events' \in Seq(Event) /\ Len(events') <= EventMax  BY <1>1, <1>3, <1>4, NotifyTyped
<1>6. owner' \in [Packs -> {"vehicle", "bss"}]  BY <1>3, <1>4 DEF TypeParts, TypeRest
<1>7. writes' = Tail(writes) /\ UNCHANGED <<ui, app, door, pack, hand, seen, shown, odd, remote>>
  BY DEF Written
<1> QED
  BY <1>2, <1>5, <1>6, <1>7 DEF TypeParts, TypeRest, TypeQueues, TypeDoors, ui, app

LEMMA RestartTyped ==
  ASSUME TypeParts, Restart
  PROVE  TypeParts'
<1>1. swap \in SwapRecord /\ TypeDoors /\ TypeRest  BY DEF TypeParts
<1>2. Alone /\ Started /\ UNCHANGED <<world, remote>>  BY DEF Restart
<1>3. NoSwap \in SwapRecord  BY <1>1, SwapForms
<1>4. TypeQueues'
  <2>1. << >> \in Seq(Event) /\ << >> \in Seq(Writes) /\ Len(<< >>) = 0  OBVIOUS
  <2>2. events' = << >> /\ writes' = << >>  BY <1>2 DEF Started
  <2> QED  BY <2>1, <2>2, BoundsAssumption DEF TypeQueues
<1>5. TypeDoors'  BY <1>1, <1>2, BoundsAssumption DEF TypeDoors, Alone, world
<1>6. TypeRest'  BY <1>1, <1>2 DEF TypeRest, TypeDoors, Started, world
<1> QED  BY <1>2, <1>3, <1>4, <1>5, <1>6 DEF TypeParts, Started

LEMMA PartsTyped == TypeOK => TypeParts
BY DEF TypeOK, TypeParts, TypeRest, TypeQueues, TypeDoors, SwapRecord, Writes

LEMMA TypedParts == TypeParts /\ ScreenPart => TypeOK
<1> SUFFICES ASSUME TypeParts, ScreenPart PROVE TypeOK  OBVIOUS
<1>1. stack \in Seq({"qr", "account", "main"} \cup Exchange) /\ Len(stack) <= 4
  BY ShapeSeq DEF ScreenPart, ScreenShape
<1>2. timers \subseteq Timers  BY DEF ScreenPart, OwnTimers, Timers
<1> QED
  BY <1>1, <1>2 DEF TypeOK, TypeParts, TypeRest, TypeQueues, TypeDoors, SwapRecord, Writes

LEMMA TypedNext == TypeParts' /\ ScreenPart' => TypeOK'
BY TypedParts, PTL

LEMMA ScreenInit == Init => ScreenInv
<1> SUFFICES ASSUME Init PROVE ScreenInv  OBVIOUS
<1>1. stack \in Shapes /\ Top = "standby"  BY DEF Init, Shapes, Top
<1>2. ScreenPart
  BY <1>1 DEF Init, NoSwap, ScreenPart, ScreenShape, OwnCall, OneByOne, KnownSwap, KnownConfirm,
    OwnTimers, QuietExchange, Exchange
<1>3. NoSwap \in SwapRecord  BY BoundsAssumption DEF NoSwap, SwapRecord
<1>4. TypeQueues
  <2>1. << >> \in Seq(Event) /\ << >> \in Seq(Writes) /\ Len(<< >>) = 0  OBVIOUS
  <2> QED  BY <2>1, BoundsAssumption DEF Init, TypeQueues
<1>5. TypeDoors  BY BoundsAssumption DEF Init, TypeDoors
<1>6. TypeRest  BY HomeAssumption DEF Init, TypeRest
<1>7. TypeParts  BY <1>3, <1>4, <1>5, <1>6 DEF Init, TypeParts
<1> QED  BY <1>2, <1>7, TypedParts DEF ScreenInv

LEMMA ScreenStutter ==
  ASSUME ScreenInv, UNCHANGED vars
  PROVE  ScreenInv'
<1>1. ScreenPart'  BY OtherMoves DEF ScreenInv, vars
<1>2. TypeParts'
  BY PartsTyped
  DEF ScreenInv, vars, ui, app, world, station, TypeParts, TypeRest, TypeQueues, TypeDoors
<1> QED  BY <1>1, <1>2, TypedNext DEF ScreenInv

LEMMA ScreenNext ==
  ASSUME ScreenInv, Next
  PROVE  ScreenInv'
<1>1. TypeOK /\ TypeParts /\ ScreenPart  BY PartsTyped DEF ScreenInv
<1>2. CASE Screens
  <2>1. ScreenPart'  BY <1>1, <1>2, ScreenMoves, ValidateMoves, EndMoves DEF Screens
  <2> QED  BY <1>1, <1>2, <2>1, ScreensTyped, TypedNext DEF ScreenInv
<1>3. CASE TimerFires
  <2>1. ScreenPart'
    BY <1>1, <1>3, ScreenMoves, ErrorMoves, ValidateMoves, EndMoves DEF TimerFires
  <2> QED  BY <1>1, <1>3, <2>1, TimersTyped, TypedNext DEF ScreenInv
<1>4. CASE Answer
  <2>1. ScreenPart'  BY <1>1, <1>4, ScreenMoves, ErrorMoves, ValidateMoves DEF Answer
  <2> QED  BY <1>1, <1>4, <2>1, AnswersTyped, TypedNext DEF ScreenInv
<1>5. CASE Restart
  BY <1>1, <1>5, EndMoves, RestartTyped, TypedNext DEF ScreenInv
<1>6. CASE Dispatch
  BY <1>1, <1>6, DispatchMoves, DispatchTyped, TypedNext DEF ScreenInv
<1>7. CASE Written
  BY <1>1, <1>7, OtherMoves, WrittenTyped, TypedNext DEF Written, ScreenInv
<1>8. ASSUME NEW c \in Cabs,
             Poll(c) \/ Connect(c) \/ Lose(c) \/ RemoteOpen(c) \/ PutIn(c) \/ TakeOut(c) \/ CloseDoor(c)
      PROVE  ScreenInv'
  <2>1. ScreenPart'
    BY <1>1, <1>8, OtherMoves DEF Poll, Connect, Lose, RemoteOpen, PutIn, TakeOut, CloseDoor
  <2> QED  BY <1>1, <1>8, <2>1, StationTyped, TypedNext DEF ScreenInv
<1> QED  BY <1>2, <1>3, <1>4, <1>5, <1>6, <1>7, <1>8 DEF Next, Polls

THEOREM ScreensCorrect == Spec => []ScreenInv
<1>1. ScreenInv /\ [Next]_vars => ScreenInv'  BY ScreenNext, ScreenStutter
<1> QED  BY ScreenInit, <1>1, PTL DEF Spec

(* Type correctness.                                                          *)
THEOREM ExchangeTypeCorrect == Spec => []TypeOK
<1>1. ScreenInv => TypeOK  BY DEF ScreenInv
<1> QED  BY ScreensCorrect, <1>1, PTL

(* A count-down timer runs only while its screen is on top, whatever order    *)
(* the timers, the answers, the clicks and a restart come in.                 *)
THEOREM AlwaysOwnTimers == Spec => []OwnTimers
<1>1. ScreenInv => OwnTimers  BY DEF ScreenInv, ScreenPart
<1> QED  BY ScreensCorrect, <1>1, PTL

(* An exchange is not ended by the no-action timer, nor by a report.          *)
THEOREM AlwaysQuietExchange == Spec => []QuietExchange
<1>1. ScreenInv => QuietExchange  BY DEF ScreenInv, ScreenPart
<1> QED  BY ScreensCorrect, <1>1, PTL

-----------------------------------------------------------------------------
(* What the steps do to the doors.                                            *)
Opened(c) == door[c] = "closed" /\ door'[c] = "open"
DoorsOpenedBy(a) == \A c \in Cabs : Opened(c) => c = a

LEMMA OpenDoorOpens ==
  ASSUME TypeDoors, NEW a, NEW n, OpenDoor(a, n)
  PROVE  DoorsOpenedBy(a)
BY DEF TypeDoors, OpenDoor, DoorsOpenedBy, Opened

LEMMA ScreensOpen ==
  ASSUME ScreenInv, Screens \/ TimerFires \/ Answer \/ Restart
  PROVE  \/ UNCHANGED door
         \/ EmptyFound /\ backend' = "open"
         \/ Top = "error" /\ DoorsOpenedBy(swap.old) /\ backend' = backend /\ cut' = cut
         \/ BackClick
         \/ Top = "validate" /\ DoorsOpenedBy(swap.old) /\ (CutConfirm \/ UNCHANGED <<cut, backend>>)
         \/ Confirmed
         \/ Top = "result" /\ DoorsOpenedBy(swap.new)
<1>1. TypeDoors /\ ScreenPart  BY PartsTyped DEF ScreenInv, TypeParts
<1>2. CASE Screens
  <2>1. ASSUME OpenClick PROVE Top = "error" /\ OpenDoor(swap.old, 1) /\ backend' = backend /\ cut' = cut
    BY <2>1 DEF OpenClick, GiveBack
  <2> QED
    BY <1>1, <1>2, <2>1, OpenDoorOpens
    DEF Screens, BannerTap, StatusTaps, OtherLogin, LoginBack, QrConfirmed, AccountLogin, MainOpens,
      NoAction, StartClick, MainLogout, RetryClick, ContinueClick, AskNext, Quiet, world
<1>3. CASE TimerFires
  <2>1. ASSUME GiveTick PROVE Top = "error" /\ OpenDoor(swap.old, 0) /\ backend' = backend /\ cut' = cut
    BY <1>1, <2>1, TimerTops DEF GiveTick, GiveBack
  <2>2. ASSUME ReadEnd \/ ValidateEnd
        PROVE  /\ Top = "validate" /\ (UNCHANGED door \/ OpenDoor(swap.old, 0))
               /\ CutConfirm \/ UNCHANGED <<cut, backend>>
    BY <1>1, <2>2, TimerTops DEF ReadEnd, ValidateEnd, ToError, GiveBack
  <2> QED
    BY <1>1, <1>3, <2>1, <2>2, OpenDoorOpens
    DEF TimerFires, WaitOpen, FillTick, FillEnd, ReadTick, IdleEnd, OpenLook, ToResult, Settle,
      ResultTick, ResultEnd, AskNext, Quiet
<1>4. CASE Answer
  <2>1. ASSUME EmptyFound PROVE backend' = "open"  BY <2>1 DEF EmptyFound, Began
  <2>2. ASSUME NewRefused \/ NotConfirmed
        PROVE  /\ Top = "validate" /\ (UNCHANGED door \/ OpenDoor(swap.old, 1))
               /\ CutConfirm \/ UNCHANGED <<cut, backend>>
    BY <1>1, <2>2 DEF NewRefused, NotConfirmed, ToError, GiveBack, ScreenPart, OwnCall
  <2>3. ASSUME NextFound \/ NextRefused
        PROVE  /\ Top = "result"
               /\ UNCHANGED door \/ OpenDoor(swap.new, 0) \/ OpenDoor(swap.new, 1)
    BY <1>1, <2>3 DEF NextFound, NextRefused, ScreenPart, OwnCall
  <2> QED
    BY <1>1, <1>4, <2>1, <2>2, <2>3, OpenDoorOpens DEF Answer, EmptyRefused, NewFound
<1>5. CASE Restart  BY <1>5 DEF Restart, world
<1> QED  BY <1>2, <1>3, <1>4, <1>5

(* The old pack of a confirmed exchange: every step that opens its door while *)
(* the backend has the confirm had the answer cut off, or was asked for from   *)
(* outside.                                                                   *)
LEMMA GivenBackStep ==
  ASSUME ScreenInv, Next, NEW c \in Cabs, Opened(c), c = swap.old, backend' = "confirmed"
  PROVE  cut' \/ remote'
<1>0. TypeDoors /\ ScreenPart  BY PartsTyped DEF ScreenInv, TypeParts
<1>1. door' # door  BY DEF Opened
<1>2. CASE Screens \/ TimerFires \/ Answer \/ Restart
  <2>1. ~ BackClick  BY DEF BackClick
  <2>2. ~ EmptyFound  BY DEF EmptyFound, Began
  <2>3. ASSUME Confirmed PROVE FALSE
    <3>1. DoorsOpenedBy(swap.new) /\ Top = "validate" /\ swap.new # swap.old
      BY <1>0, <2>3, OpenDoorOpens DEF Confirmed, ScreenPart, OwnCall, KnownSwap
    <3> QED  BY <3>1 DEF DoorsOpenedBy
  <2>4. ASSUME Top = "result" /\ DoorsOpenedBy(swap.new) PROVE FALSE
    BY <1>0, <2>4 DEF DoorsOpenedBy, ScreenPart, KnownSwap
  <2>5. ASSUME Top \in {"error", "validate"}, CutConfirm \/ UNCHANGED <<cut, backend>> PROVE cut'
    BY <1>0, <2>5 DEF CutConfirm, ScreenPart, KnownConfirm
  <2> QED  BY <1>1, <1>2, <2>1, <2>2, <2>3, <2>4, <2>5, ScreensOpen
<1>3. CASE Polls \/ Written \/ Dispatch
  BY <1>1, <1>3 DEF Polls, Poll, Written, Dispatch, world
<1>4. ASSUME NEW d \in Cabs, Connect(d) \/ Lose(d) \/ PutIn(d) \/ TakeOut(d) PROVE FALSE
  BY <1>1, <1>4 DEF Connect, Lose, PutIn, TakeOut, world
<1>5. ASSUME NEW d \in Cabs, CloseDoor(d) PROVE FALSE
  BY <1>0, <1>5 DEF CloseDoor, Opened, TypeDoors
<1>6. ASSUME NEW d \in Cabs, RemoteOpen(d) PROVE remote'  BY <1>6 DEF RemoteOpen
<1> QED  BY <1>2, <1>3, <1>4, <1>5, <1>6 DEF Next

THEOREM GivenBackIsCut == Spec => GivenBackOnlyCut
<1>1. ScreenInv /\ [Next]_vars
        => [\A c \in Cabs : door[c] = "closed" /\ door'[c] = "open"
                         /\ c = swap.old /\ backend' = "confirmed"
                       => cut' \/ remote']_vars
  BY GivenBackStep DEF Opened
<1> QED  BY ScreensCorrect, <1>1, PTL DEF Spec, GivenBackOnlyCut

(* Which steps bring the screens to a validation, or leave them there, which   *)
(* one opens the new cabinet, and which one leaves its screen.                 *)
LEMMA ScreenPaths ==
  ASSUME ScreenInv, Screens \/ TimerFires \/ Answer \/ Restart
  PROVE  /\ \/ Top' # "validate" /\ "fill60" \notin timers'
            \/ WaitOpen \/ FillTick \/ RetryClick \/ NextFound \/ ReadTick \/ NewFound
         /\ Top = "open" => Top' = "open" \/ ToResult \/ Restart
         /\ Top = "validate" /\ Top' = "open" => Confirmed
         /\ call' = "confirm" => call = "confirm"
<1> DEFINE Away == Top' # "validate" /\ "fill60" \notin timers'
           Stays == Top = "open" => Top' = "open"
           Shut == ~(Top = "validate" /\ Top' = "open")
           Asks == call' = "confirm" => call = "confirm"
<1>0. ScreenPart /\ ScreenShape /\ OwnTimers  BY DEF ScreenInv, ScreenPart
<1>a. "fill60" \in timers => Top = "empty"  BY <1>0, TimerTops
<1> USE <1>0, <1>a, Moves, Goes, TimerTops
<1>1. ASSUME BannerTap PROVE Away /\ Stays /\ Shut /\ Asks
  BY <1>1 DEF BannerTap, NoActionOn, Quiet, Rest, ScreenPart, OwnCall, Exchange
<1>2. ASSUME StatusTaps PROVE Away /\ Stays /\ Shut /\ Asks
  BY <1>2 DEF StatusTaps, NoActionOn, Quiet, Rest, ScreenPart, OwnCall, Exchange
<1>3. ASSUME OtherLogin PROVE Away /\ Stays /\ Shut /\ Asks
  BY <1>3 DEF OtherLogin, Polled, NoActionOn, Quiet, Rest, ScreenPart, OwnCall, Exchange
<1>4. ASSUME LoginBack PROVE Away /\ Stays /\ Shut /\ Asks
  BY <1>4 DEF LoginBack, Polled, Pop, Quiet, Rest, Cancelled, ScreenPart, OwnCall, Exchange
<1>5. ASSUME QrConfirmed PROVE Away /\ Stays /\ Shut /\ Asks
  BY <1>5 DEF QrConfirmed, Polled, MainOpens, NoActionOff, NoActionOn, ScreenPart, OwnCall,
    Exchange
<1>6. ASSUME AccountLogin PROVE Away /\ Stays /\ Shut /\ Asks
  BY <1>6 DEF AccountLogin, Polled, MainOpens, NoActionOff, NoActionOn, ScreenPart, OwnCall,
    Exchange
<1>7. ASSUME NoAction PROVE Away /\ Stays /\ Shut /\ Asks
  BY <1>7 DEF NoAction, Standby, NoActionOff, ScreenPart, QuietExchange, Exchange
<1>8. ASSUME StartClick PROVE Away /\ Stays /\ Shut /\ Asks
  BY <1>8 DEF StartClick, Polled, NoActionOff, Quiet, Rest, ScreenPart, OwnCall, Exchange
<1>9. ASSUME MainLogout PROVE Away /\ Stays /\ Shut /\ Asks
  BY <1>9 DEF MainLogout, Polled, Logout, Quiet, Rest, Standby, Cancelled, ScreenPart,
    OwnCall, Exchange
<1>10. ASSUME RetryClick PROVE Stays /\ Shut /\ Asks
  BY <1>10 DEF RetryClick, Polled, Odd, ToValidate, Rest, Replace, Cancelled, ScreenPart,
    OwnCall, Exchange
<1>11. ASSUME OpenClick PROVE Away /\ Stays /\ Shut /\ Asks
  BY <1>11 DEF OpenClick, Polled, Rest, ScreenPart, OwnCall, Exchange
<1>12. ASSUME BackClick PROVE Away /\ Stays /\ Shut /\ Asks
  BY <1>12 DEF BackClick, Polled, Pop, Rest, Cancelled, ScreenPart, OwnCall, Exchange
<1>13. ASSUME ContinueClick PROVE Away /\ Stays /\ Shut /\ Asks
  BY <1>13 DEF ContinueClick, Polled, AskNext, Odd, Rest, ScreenPart, OwnCall, Exchange
<1>14. ASSUME WaitOpen PROVE Stays /\ Shut /\ Asks
  BY <1>14 DEF WaitOpen, Polled, Quiet, Rest, ScreenPart, OwnCall, Exchange
<1>15. ASSUME FillTick PROVE Stays /\ Shut /\ Asks
  BY <1>15 DEF FillTick, ToValidate, Quiet, Rest, Replace, Cancelled, ScreenPart, OwnCall,
    Exchange
<1>16. ASSUME FillEnd PROVE Away /\ Stays /\ Shut /\ Asks
  BY <1>16 DEF FillEnd, Logout, Quiet, Rest, Standby, Cancelled, ScreenPart, OwnCall, Exchange
<1>17. ASSUME ReadTick PROVE Stays /\ Shut /\ Asks
  BY <1>17 DEF ReadTick, Quiet, Rest, ScreenPart, OwnCall, Exchange
<1>18. ASSUME ReadEnd PROVE Away /\ Stays /\ Shut /\ Asks
  BY <1>18 DEF ReadEnd, Polled, ToError, Rest, Cancelled, ScreenPart, OwnCall, Exchange
<1>19. ASSUME ValidateEnd PROVE Away /\ Stays /\ Shut /\ Asks
  BY <1>19 DEF ValidateEnd, ToError, Rest, Cancelled, ScreenPart, OwnCall, Exchange
<1>20. ASSUME GiveTick PROVE Away /\ Stays /\ Shut /\ Asks
  BY <1>20 DEF GiveTick, Rest, ScreenPart, OwnCall, Exchange
<1>21. ASSUME IdleEnd PROVE Away /\ Stays /\ Shut /\ Asks
  BY <1>21 DEF IdleEnd, Logout, Quiet, Rest, Standby, Cancelled, ScreenPart, OwnCall, Exchange
<1>22. ASSUME OpenLook PROVE Away /\ Stays /\ Shut /\ Asks
  BY <1>22 DEF OpenLook, Polled, Quiet, Rest, ScreenPart, OwnCall, Exchange
<1>23. ASSUME ToResult PROVE Away /\ Shut /\ Asks
  BY <1>23 DEF ToResult, Quiet, Rest, ScreenPart, OwnCall, Exchange
<1>24. ASSUME Settle PROVE Away /\ Stays /\ Shut /\ Asks
  BY <1>24 DEF Settle, Quiet, Rest, ScreenPart, OwnCall, Exchange
<1>25. ASSUME ResultTick PROVE Away /\ Stays /\ Shut /\ Asks
  BY <1>25 DEF ResultTick, AskNext, Normal, Rest, ScreenPart, OwnCall, Exchange
<1>26. ASSUME ResultEnd PROVE Away /\ Stays /\ Shut /\ Asks
  BY <1>26 DEF ResultEnd, Logout, Quiet, Rest, Standby, Cancelled, ScreenPart, OwnCall,
    Exchange
<1>27. ASSUME EmptyFound PROVE Away /\ Stays /\ Shut /\ Asks
  BY <1>27 DEF EmptyFound, Polled, Rest, ScreenPart, OwnCall, Exchange
<1>28. ASSUME EmptyRefused PROVE Away /\ Stays /\ Shut /\ Asks
  BY <1>28 DEF EmptyRefused, Normal, Odd, NoActionOn, Rest, ScreenPart, OwnCall, Exchange
<1>29. ASSUME NewFound PROVE Stays /\ Shut /\ Asks
  BY <1>29 DEF NewFound, Polled, Rest, ScreenPart, OwnCall, Exchange
<1>30. ASSUME NewRefused PROVE Away /\ Stays /\ Shut /\ Asks
  BY <1>30 DEF NewRefused, ToError, Rest, Cancelled, ScreenPart, OwnCall, Exchange
<1>31. ASSUME Confirmed PROVE Away /\ Stays /\ Asks
  BY <1>31 DEF Confirmed, Polled, Replace, Rest, Cancelled, ScreenPart, OwnCall, Exchange
<1>32. ASSUME NotConfirmed PROVE Away /\ Stays /\ Shut /\ Asks
  BY <1>32 DEF NotConfirmed, ToError, Rest, Cancelled, ScreenPart, OwnCall, Exchange
<1>33. ASSUME NextFound PROVE Stays /\ Shut /\ Asks
  BY <1>33 DEF NextFound, Polled, Replace, ToValidate, Normal, Rest, Cancelled, ScreenPart,
    OwnCall, Exchange
<1>34. ASSUME NextRefused PROVE Away /\ Stays /\ Shut /\ Asks
  BY <1>34 DEF NextRefused, Rest, ScreenPart, OwnCall, Exchange
<1>35. ASSUME Restart PROVE Away /\ Shut /\ Asks
  BY <1>35 DEF Restart, Started, ScreenPart, OwnCall, Exchange
<1> HIDE Moves, Goes, TimerTops
<1> DEFINE Known == WaitOpen \/ FillTick \/ RetryClick \/ NextFound \/ ReadTick \/ NewFound
           Leaves == Top = "open" => Top' = "open" \/ ToResult \/ Restart
           Opening == Top = "validate" /\ Top' = "open" => Confirmed
<1>x. (Stays => Leaves) /\ (Shut => Opening)  OBVIOUS
<1>36. ASSUME Screens PROVE (Away \/ Known) /\ Leaves /\ Opening /\ Asks
  BY <1>36, <1>1, <1>2, <1>3, <1>4, <1>5, <1>6, <1>7, <1>8, <1>9, <1>10, <1>11, <1>12, <1>13 DEF Screens
<1>37. ASSUME TimerFires PROVE (Away \/ Known) /\ Leaves /\ Opening /\ Asks
  BY <1>37, <1>14, <1>15, <1>16, <1>17, <1>18, <1>19, <1>20, <1>21, <1>22, <1>23, <1>24, <1>25, <1>26 DEF TimerFires
<1>38. ASSUME Answer PROVE (Away \/ Known) /\ Leaves /\ Opening /\ Asks
  BY <1>38, <1>27, <1>28, <1>29, <1>30, <1>31, <1>32, <1>33, <1>34 DEF Answer
<1>39. ASSUME Restart PROVE (Away \/ Known) /\ Leaves /\ Opening /\ Asks
  BY <1>39, <1>35
<1> QED  BY <1>36, <1>37, <1>38, <1>39 DEF Away, Stays

-----------------------------------------------------------------------------
(* With prompt polls: what a person does to a cabinet has been polled before. *)
LEMMA PersonPolled ==
  ASSUME Prompt, ScreenInv, ReadIsThere, NEW c \in Cabs, PutIn(c) \/ TakeOut(c) \/ CloseDoor(c)
  PROVE  seen[c] = "open" /\ seen = door /\ shown[c] = None /\ events = << >>
<1>1. door[c] = "open" /\ seen = door /\ events = << >>
  BY DEF PutIn, TakeOut, CloseDoor, Polled
<1> QED  BY <1>1 DEF ReadIsThere

(* What a step of the screens leaves alone.                                   *)
LEMMA ScreensKeep ==
  ASSUME ScreenInv, Screens \/ TimerFires \/ Answer
  PROVE  UNCHANGED <<pack, hand, owner, seen, shown>> /\ (remote' = remote \/ Top' = "main")
<1>1. ScreenPart /\ ScreenShape  BY DEF ScreenInv, ScreenPart
<1>2. ASSUME QrConfirmed \/ AccountLogin PROVE Top' = "main"
  BY <1>2, Goes DEF QrConfirmed, AccountLogin, MainOpens
<1>3. CASE Screens
  BY <1>2, <1>3
  DEF Screens, BannerTap, StatusTaps, OtherLogin, LoginBack, QrConfirmed, AccountLogin, MainOpens,
    NoAction, StartClick, MainLogout, RetryClick, OpenClick, BackClick, ContinueClick, AskNext, Rest,
    world, station
<1>4. CASE TimerFires
  BY <1>4
  DEF TimerFires, WaitOpen, FillTick, FillEnd, ReadTick, ReadEnd, ValidateEnd, GiveTick, IdleEnd,
    OpenLook, ToResult, Settle, ResultTick, ResultEnd, AskNext, Rest
<1>5. CASE Answer
  BY <1>5
  DEF Answer, EmptyFound, EmptyRefused, NewFound, NewRefused, Confirmed, NotConfirmed, NextFound,
    NextRefused, Rest
<1> QED  BY <1>3, <1>4, <1>5

LEMMA ReadIsThereStep ==
  ASSUME Prompt, ScreenInv, ReadIsThere, Next
  PROVE  ReadIsThere'
<1>0. TypeRest /\ TypeDoors  BY PartsTyped DEF ScreenInv, TypeParts
<1>1. CASE UNCHANGED <<pack, seen, shown>>  BY <1>1 DEF ReadIsThere
<1>2. CASE Screens \/ TimerFires \/ Answer  BY <1>1, <1>2, ScreensKeep
<1>3. CASE Restart  BY <1>3 DEF Restart, Started, ReadIsThere
<1>4. CASE Written \/ Dispatch  BY <1>1, <1>4 DEF Written, Dispatch, world
<1>5. ASSUME NEW c \in Cabs, Poll(c) PROVE ReadIsThere'
  BY <1>0, <1>5 DEF Poll, world, ReadIsThere, TypeRest
<1>6. ASSUME NEW c \in Cabs, Connect(c) PROVE ReadIsThere'
  BY <1>0, <1>6 DEF Connect, world, ReadIsThere, TypeRest
<1>7. ASSUME NEW c \in Cabs, Lose(c) PROVE ReadIsThere'
  BY <1>0, <1>7 DEF Lose, world, ReadIsThere, TypeRest
<1>8. ASSUME NEW c \in Cabs, PutIn(c) \/ TakeOut(c) PROVE ReadIsThere'
  <2>1. shown[c] = None  BY <1>8, PersonPolled
  <2> QED  BY <1>0, <1>8, <2>1 DEF PutIn, TakeOut, station, ReadIsThere, TypeRest
<1>9. ASSUME NEW c \in Cabs, RemoteOpen(c) \/ CloseDoor(c) PROVE ReadIsThere'
  BY <1>1, <1>9 DEF RemoteOpen, CloseDoor, station
<1> QED  BY <1>2, <1>3, <1>4, <1>5, <1>6, <1>7, <1>8, <1>9 DEF Next, Polls

(* The doors and packs of the exchange under a step of the screens.           *)
LEMMA WatchedStep ==
  ASSUME Prompt, ScreenInv, HeldInv, Screens \/ TimerFires \/ Answer
  PROVE  SeenIsClosed' /\ SerialHeld'
<1>0. /\ TypeRest /\ TypeDoors /\ ScreenPart /\ swap \in SwapRecord /\ ScreenShape
      /\ SeenIsClosed /\ SerialHeld /\ ReadIsThere
  BY PartsTyped DEF ScreenInv, TypeParts, HeldInv, ScreenPart
<1>1. UNCHANGED <<pack, seen, shown>> /\ (remote' = remote \/ Top' = "main")  BY ScreensKeep
<1>2. CASE Top' # "validate" /\ "fill60" \notin timers'  BY <1>2 DEF SeenIsClosed, SerialHeld
<1>3. CASE WaitOpen
  <2>1. Top = "empty" /\ Top' = Top /\ swap.old \in Cabs
    BY <1>0, <1>3, TimerTops, Goes DEF WaitOpen, ScreenPart, KnownSwap, Exchange
  <2>2. UNCHANGED <<swap, door, remote>> /\ (seen[swap.old] = "open" \/ seen = door)
    BY <1>3 DEF WaitOpen, DoorState, Polled, Quiet, Rest
  <2>3. door[swap.old] \in {"open", "closed"}  BY <1>0, <2>1 DEF TypeDoors
  <2> QED  BY <1>1, <2>1, <2>2, <2>3 DEF SeenIsClosed, SerialHeld
<1>4. ASSUME NEW o \in Cabs, NEW n, ToValidate(o, n), UNCHANGED door,
             remote' \/ door[o] = "closed" \/ seen[o] = "open"
      PROVE  SeenIsClosed' /\ SerialHeld'
  <2>1. swap'.old = o /\ swap'.serial = None  BY <1>4 DEF ToValidate, NoSwap
  <2> QED  BY <1>1, <1>4, <2>1 DEF SeenIsClosed, SerialHeld
<1>5. CASE FillTick
  <2>1. Top = "empty" /\ swap.old \in Cabs /\ "fill60" \in timers
    BY <1>0, <1>5, TimerTops DEF FillTick, ScreenPart, KnownSwap, Exchange
  <2>2. ToValidate(swap.old, swap.nr) /\ UNCHANGED <<door, remote>>
    BY <1>5 DEF FillTick, Quiet, Rest
  <2>3. remote \/ door[swap.old] = "closed" \/ seen[swap.old] = "open"
    BY <1>0, <2>1 DEF SeenIsClosed
  <2> QED  BY <1>4, <2>1, <2>2, <2>3
<1>6. CASE RetryClick
  <2>1. Top = "error" /\ swap.old \in Cabs
    BY <1>0, <1>6 DEF RetryClick, ScreenPart, KnownSwap, Exchange
  <2>2. ToValidate(swap.old, swap.nr) /\ UNCHANGED door /\ seen = door
    BY <1>6 DEF RetryClick, Polled
  <2>3. door[swap.old] = "closed" \/ seen[swap.old] = "open"  BY <1>0, <2>1, <2>2 DEF TypeDoors
  <2> QED  BY <1>4, <2>1, <2>2, <2>3
<1>7. CASE NextFound
  <2>1. Top = "result" /\ swap.new \in Cabs /\ seen = door
    BY <1>0, <1>7 DEF NextFound, Polled, ScreenPart, OwnCall, KnownSwap
  <2>2. CASE ToValidate(swap.new, swap.nr + 1) /\ UNCHANGED door
    <3>1. door[swap.new] = "closed" \/ seen[swap.new] = "open"  BY <1>0, <2>1 DEF TypeDoors
    <3> QED  BY <1>4, <2>1, <2>2, <3>1
  <2>3. CASE Replace("empty", {"open10"})
    <3>1. stack' = <<"main", "empty">> /\ timers' = (timers \ {"result120"}) \cup {"open10"}
      BY <1>0, <2>1, <2>3, Moves DEF Replace, Cancelled, Exchange
    <3>2. Top' = "empty"  BY <3>1, Goes DEF Exchange
    <3>3. "fill60" \notin timers  BY <1>0, <2>1, TimerTops
    <3> QED  BY <1>2, <3>1, <3>2, <3>3
  <2> QED  BY <1>7, <2>2, <2>3 DEF NextFound
<1>8. CASE ReadTick
  <2>1. Top = "validate" /\ Top' = Top /\ swap.old \in Cabs
    BY <1>0, <1>8, TimerTops, Goes DEF ReadTick, ScreenPart, KnownSwap, Exchange
  <2>2. /\ swap' = [swap EXCEPT !.serial = Serial(swap.old)] /\ UNCHANGED <<door, remote>>
        /\ Serial(swap.old) # None
    BY <1>8 DEF ReadTick, Quiet, Rest
  <2>3. swap'.old = swap.old /\ swap'.serial = Serial(swap.old)  BY <1>0, <2>2 DEF SwapRecord
  <2>4. /\ seen[swap.old] = "closed" /\ shown[swap.old] # None
        /\ Serial(swap.old) = shown[swap.old]
    BY <2>2 DEF Serial, DoorState, BatteryRead
  <2>5. pack[swap.old] = shown[swap.old] /\ (remote \/ door[swap.old] = "closed")
    BY <1>0, <2>1, <2>4 DEF ReadIsThere, SeenIsClosed
  <2> QED  BY <1>1, <2>1, <2>2, <2>3, <2>4, <2>5 DEF SeenIsClosed, SerialHeld
<1>9. CASE NewFound
  <2>1. Top = "validate" /\ Top' = Top
    BY <1>0, <1>9, Goes DEF NewFound, ScreenPart, OwnCall
  <2>2. swap'.old = swap.old /\ swap'.serial = swap.serial /\ UNCHANGED <<door, remote>>
    BY <1>0, <1>9 DEF NewFound, SwapRecord, Rest
  <2> QED  BY <1>0, <1>1, <2>1, <2>2 DEF SeenIsClosed, SerialHeld
<1> QED  BY <1>2, <1>3, <1>5, <1>6, <1>7, <1>8, <1>9, ScreenPaths

LEMMA WatchedElse ==
  ASSUME Prompt, ScreenInv, HeldInv, Next, ~(Screens \/ TimerFires \/ Answer)
  PROVE  SeenIsClosed' /\ SerialHeld'
<1>0. /\ TypeRest /\ TypeDoors /\ ScreenPart /\ swap \in SwapRecord
      /\ SeenIsClosed /\ SerialHeld /\ ReadIsThere /\ TypeParts
  BY PartsTyped DEF ScreenInv, TypeParts, HeldInv
<1>1. CASE Restart
  <2>1. Top' = "standby" /\ timers' = {}  BY <1>1, Goes DEF Restart, Started
  <2> QED  BY <2>1 DEF SeenIsClosed, SerialHeld
<1>2. CASE Dispatch
  <2>1. UNCHANGED <<stack, timers, door, pack, seen, remote>> /\ Top' = Top
    BY <1>2, Goes DEF Dispatch, world
  <2>2. \/ swap' = swap \/ swap' = [swap EXCEPT !.fails = @ + 1]
        \/ swap' = [swap EXCEPT !.fails = 0, !.asked = TRUE]
    BY <1>2 DEF Dispatch, Assigned
  <2>3. swap'.old = swap.old /\ swap'.serial = swap.serial  BY <1>0, <2>2 DEF SwapRecord
  <2> QED  BY <1>0, <2>1, <2>3 DEF SeenIsClosed, SerialHeld
<1>3. ASSUME UNCHANGED ui PROVE UNCHANGED <<swap, timers>> /\ Top' = Top
  BY <1>3, Goes DEF ui
<1>4. CASE Written
  BY <1>0, <1>3, <1>4 DEF Written, SeenIsClosed, SerialHeld
<1>5. ASSUME NEW c \in Cabs, Connect(c) \/ Lose(c) PROVE SeenIsClosed' /\ SerialHeld'
  BY <1>0, <1>3, <1>5 DEF Connect, Lose, world, SeenIsClosed, SerialHeld
<1>6. ASSUME NEW c \in Cabs, RemoteOpen(c) PROVE SeenIsClosed' /\ SerialHeld'
  BY <1>6 DEF RemoteOpen, SeenIsClosed, SerialHeld
<1>a. (Top = "validate" \/ "fill60" \in timers) => swap.old \in Cabs
  BY <1>0, TimerTops DEF ScreenPart, KnownSwap, Exchange
<1>7. ASSUME NEW c \in Cabs, Poll(c) PROVE SeenIsClosed' /\ SerialHeld'
  <2>1. /\ seen' = [seen EXCEPT ![c] = door[c]] /\ UNCHANGED <<swap, timers, door, pack, remote>>
        /\ Top' = Top
    BY <1>3, <1>7 DEF Poll, world
  <2>2. ASSUME swap.old \in Cabs PROVE door[swap.old] = "closed" \/ seen[swap.old] = "open" =>
                                    door[swap.old] = "closed" \/ seen'[swap.old] = "open"
    BY <1>0, <2>1, <2>2 DEF TypeDoors, TypeRest
  <2> QED  BY <1>0, <1>a, <2>1, <2>2 DEF SeenIsClosed, SerialHeld
<1>8. ASSUME NEW c \in Cabs, PutIn(c) \/ TakeOut(c) \/ CloseDoor(c)
      PROVE  SeenIsClosed' /\ SerialHeld'
  <2>1. seen[c] = "open" /\ seen = door  BY <1>0, <1>8, PersonPolled
  <2>2. UNCHANGED <<swap, timers, seen, remote>> /\ Top' = Top
    BY <1>3, <1>8 DEF PutIn, TakeOut, CloseDoor, station
  <2>3. /\ \A d \in Cabs : door[d] = "closed" => door'[d] = "closed"
        /\ \A d \in Cabs : door[d] = "closed" => pack'[d] = pack[d]
    BY <1>0, <1>8, <2>1 DEF PutIn, TakeOut, CloseDoor, TypeDoors, TypeRest
  <2> QED  BY <1>0, <1>a, <2>2, <2>3 DEF SeenIsClosed, SerialHeld
<1> QED  BY <1>1, <1>2, <1>4, <1>5, <1>6, <1>7, <1>8 DEF Next, Polls

-----------------------------------------------------------------------------
(* The queues: which steps write, and what an answer says.                    *)
LEMMA ScreensQueue ==
  ASSUME ScreenInv, Screens \/ TimerFires \/ Answer
  PROVE  UNCHANGED <<events, writes>> \/ NewFound \/ Confirmed
<1>1. CASE Screens
  BY <1>1
  DEF Screens, BannerTap, StatusTaps, OtherLogin, LoginBack, QrConfirmed, AccountLogin, MainOpens,
    NoAction, StartClick, MainLogout, RetryClick, OpenClick, BackClick, ContinueClick, AskNext, Quiet,
    station
<1>2. CASE TimerFires
  BY <1>2
  DEF TimerFires, WaitOpen, FillTick, FillEnd, ReadTick, ReadEnd, ValidateEnd, GiveTick, IdleEnd,
    OpenLook, ToResult, Settle, ResultTick, ResultEnd, AskNext, Quiet, ToError
<1>3. CASE Answer
  BY <1>3
  DEF Answer, EmptyFound, EmptyRefused, NewRefused, NotConfirmed, NextFound, NextRefused, ToError
<1> QED  BY <1>1, <1>2, <1>3

LEMMA AppendedAt ==
  ASSUME NEW S, NEW q \in Seq(S), NEW x \in S, NEW i \in DOMAIN Append(q, x)
  PROVE  (i \in DOMAIN q /\ Append(q, x)[i] = q[i]) \/ Append(q, x)[i] = x
BY AppendProperties

LEMMA TailAt ==
  ASSUME NEW S, NEW q \in Seq(S), q # << >>, NEW i \in DOMAIN Tail(q)
  PROVE  i + 1 \in DOMAIN q /\ Tail(q)[i] = q[i + 1]
BY HeadTailProperties

LEMMA VehicleWritesAppend ==
  ASSUME TypeQueues, VehicleWrites, Top # "open", NEW c \in Cabs, NEW es, Assign(c, "vehicle", es)
  PROVE  VehicleWrites'
<1>1. CASE UNCHANGED writes  BY <1>1 DEF VehicleWrites
<1>2. CASE writes' = Append(writes, [cab |-> c, to |-> "vehicle"])
  <2>1. writes \in Seq(Writes) /\ [cab |-> c, to |-> "vehicle"] \in Writes
    BY DEF TypeQueues, Writes
  <2>2. ASSUME NEW i \in DOMAIN writes' PROVE writes'[i].to = "vehicle"
    <3>1. (i \in DOMAIN writes /\ writes'[i] = writes[i]) \/ writes'[i] = [cab |-> c, to |-> "vehicle"]
      BY <1>2, <2>1, AppendedAt
    <3> QED  BY <3>1 DEF VehicleWrites
  <2> QED  BY <2>2 DEF VehicleWrites
<1> QED  BY <1>1, <1>2 DEF Assign

LEMMA VehicleWritesStep ==
  ASSUME Prompt, ScreenInv, VehicleWrites, Next
  PROVE  VehicleWrites'
<1>0. TypeQueues /\ ScreenPart /\ TypeParts  BY PartsTyped DEF ScreenInv, TypeParts
<1>1. CASE UNCHANGED writes /\ (Top = "open" => Top' = "open")  BY <1>1 DEF VehicleWrites
<1>2. CASE Screens \/ TimerFires \/ Answer
  <2>1. CASE NewFound
    <3>1. PICK n \in Cabs : Assign(n, "vehicle", events)  BY <2>1 DEF NewFound
    <3>2. Top = "validate"  BY <1>0, <2>1 DEF NewFound, ScreenPart, OwnCall
    <3> QED  BY <1>0, <3>1, <3>2, VehicleWritesAppend
  <2>2. CASE Confirmed
    <3>1. stack' = <<"main", "open">>
      BY <1>0, <2>2, Moves DEF Confirmed, Replace, ScreenPart, OwnCall, Exchange
    <3> QED  BY <3>1, Goes DEF VehicleWrites, Exchange
  <2>3. CASE ToResult  BY <2>3 DEF ToResult, Answered, Quiet, VehicleWrites
  <2>4. CASE Restart  BY <2>4 DEF Restart, Started, VehicleWrites
  <2> QED  BY <1>1, <1>2, <2>1, <2>2, <2>3, <2>4, ScreensQueue, ScreenPaths
<1>3. CASE Restart  BY <1>3 DEF Restart, Started, VehicleWrites
<1>4. CASE Dispatch
  <2>1. Top' = Top /\ Head(events) \in Event  BY <1>0, <1>4, Goes DEF Dispatch, TypeQueues
  <2>2. CASE /\ Top = "validate"
             /\ Assign(Head(events).cab, "vehicle", Tail(events))
    BY <1>0, <2>1, <2>2, VehicleWritesAppend DEF Event
  <2> QED  BY <1>1, <1>4, <2>1, <2>2 DEF Dispatch, Taken, Assigned
<1>5. CASE Written
  <2>1. writes \in Seq(Writes) /\ writes # << >> /\ writes' = Tail(writes) /\ Top' = Top
    BY <1>0, <1>5, Goes DEF Written, TypeQueues, ui
  <2>2. \A i \in DOMAIN Tail(writes) : i + 1 \in DOMAIN writes /\ Tail(writes)[i] = writes[i + 1]
    BY <2>1, TailAt
  <2> QED  BY <2>1, <2>2 DEF VehicleWrites
<1>6. ASSUME NEW c \in Cabs,
             Poll(c) \/ Connect(c) \/ Lose(c) \/ RemoteOpen(c) \/ PutIn(c) \/ TakeOut(c) \/ CloseDoor(c)
      PROVE  VehicleWrites'
  BY <1>1, <1>6, Goes DEF Poll, Connect, Lose, RemoteOpen, PutIn, TakeOut, CloseDoor, station, ui
<1> QED  BY <1>2, <1>3, <1>4, <1>5, <1>6 DEF Next, Polls

(* An event after which nothing about its cabinet changed.                    *)
Fits(e) == e.kind = "assigned" /\ e.ok =>
             pack[e.cab] # None /\ (Top = "open" \/ owner[pack[e.cab]] = "vehicle")

LEMMA AnsweredEvents == AnsweredIsThere <=> \A i \in DOMAIN events : Fits(events[i])
BY DEF AnsweredIsThere, Fits

FitsNext(e) == e.kind = "assigned" /\ e.ok =>
                 pack'[e.cab] # None /\ (Top' = "open" \/ owner'[pack'[e.cab]] = "vehicle")

LEMMA AnsweredNext == AnsweredIsThere' <=> \A i \in DOMAIN events' : FitsNext(events'[i])
BY DEF AnsweredIsThere, FitsNext

LEMMA AnsweredKept ==
  ASSUME TypeQueues, AnsweredIsThere, \A e \in Event : Fits(e) => FitsNext(e),
         NEW q \in Seq(Event), \A i \in DOMAIN q : \E j \in DOMAIN events : q[i] = events[j]
  PROVE  \A i \in DOMAIN q : FitsNext(q[i])
<1>1. \A j \in DOMAIN events : events[j] \in Event /\ Fits(events[j])
  BY AnsweredEvents DEF TypeQueues
<1> QED  BY <1>1

LEMMA AnsweredSame ==
  ASSUME TypeQueues, AnsweredIsThere, \A e \in Event : Fits(e) => FitsNext(e), UNCHANGED events
  PROVE  AnsweredIsThere'
BY AnsweredKept, AnsweredNext DEF TypeQueues

LEMMA AnsweredAppend ==
  ASSUME TypeQueues, AnsweredIsThere, \A e \in Event : Fits(e) => FitsNext(e),
         NEW q \in Seq(Event), \A i \in DOMAIN q : \E j \in DOMAIN events : q[i] = events[j],
         NEW x \in Event, FitsNext(x), events' = Append(q, x)
  PROVE  AnsweredIsThere'
<1>1. \A i \in DOMAIN q : FitsNext(q[i])  BY AnsweredKept
<1>2. ASSUME NEW i \in DOMAIN events' PROVE FitsNext(events'[i])
  <2>1. (i \in DOMAIN q /\ events'[i] = q[i]) \/ events'[i] = x  BY AppendedAt
  <2> QED  BY <1>1, <2>1
<1> QED  BY <1>2, AnsweredNext

LEMMA AnsweredAssign ==
  ASSUME TypeQueues, AnsweredIsThere, \A e \in Event : Fits(e) => FitsNext(e),
         NEW q \in Seq(Event), \A i \in DOMAIN q : \E j \in DOMAIN events : q[i] = events[j],
         NEW c \in Cabs, NEW to, Assign(c, to, q)
  PROVE  AnsweredIsThere'
<1> DEFINE x == [kind |-> "assigned", cab |-> c, ok |-> FALSE]
<1>1. x \in Event /\ FitsNext(x)  BY DEF Event, FitsNext
<1>2. CASE events' = Append(q, x)  BY <1>1, <1>2, AnsweredAppend
<1>3. CASE events' = q  BY <1>3, AnsweredKept, AnsweredNext
<1> QED  BY <1>2, <1>3 DEF Assign

LEMMA AnsweredNotify ==
  ASSUME TypeQueues, AnsweredIsThere, \A e \in Event : Fits(e) => FitsNext(e),
         NEW k \in {"door", "connected", "assigned"}, NEW c \in Cabs, NEW ok \in BOOLEAN,
         Notify(k, c, ok),
         FitsNext([kind |-> k, cab |-> c, ok |-> ok])
  PROVE  AnsweredIsThere'
<1>1. [kind |-> k, cab |-> c, ok |-> ok] \in Event  BY DEF Event
<1>2. \A i \in DOMAIN events : \E j \in DOMAIN events : events[i] = events[j]  OBVIOUS
<1>3. events' = Append(events, [kind |-> k, cab |-> c, ok |-> ok]) /\ events \in Seq(Event)
  BY DEF Notify, TypeQueues
<1> QED  BY <1>1, <1>2, <1>3, AnsweredAppend

LEMMA AnsweredStep ==
  ASSUME Prompt, ScreenInv, HeldInv, Next
  PROVE  AnsweredIsThere'
<1>0. /\ TypeQueues /\ TypeRest /\ ScreenPart /\ AnsweredIsThere /\ VehicleWrites /\ ReadIsThere
      /\ events \in Seq(Event) /\ TypeDoors
  BY PartsTyped DEF ScreenInv, TypeParts, HeldInv, TypeQueues
<1>a. ASSUME UNCHANGED <<pack, owner>>, Top = "open" => Top' = "open"
      PROVE  \A e \in Event : Fits(e) => FitsNext(e)
  BY <1>a DEF Fits, FitsNext
<1>b. \A i \in DOMAIN events : \E j \in DOMAIN events : events[i] = events[j]  OBVIOUS
<1>c. ASSUME events' = << >> PROVE AnsweredIsThere'  BY <1>c, AnsweredNext
<1>2. CASE Screens \/ TimerFires \/ Answer
  <2>1. UNCHANGED <<pack, owner>>  BY <1>2, ScreensKeep
  <2>2. CASE ToResult  BY <2>2, <1>c DEF ToResult, Answered, Polled, Quiet
  <2>3. CASE Restart  BY <2>3, <1>c DEF Restart, Started
  <2>4. ASSUME Top = "open" => Top' = "open" PROVE AnsweredIsThere'
    <3>1. CASE UNCHANGED events  BY <1>0, <1>a, <2>1, <2>4, <3>1, AnsweredSame
    <3>2. ASSUME NEW c \in Cabs, NEW to, Assign(c, to, events) PROVE AnsweredIsThere'
      BY <1>0, <1>a, <1>b, <2>1, <2>4, <3>2, AnsweredAssign
    <3>3. CASE NewFound  BY <3>2, <3>3 DEF NewFound
    <3>4. CASE Confirmed
      BY <1>0, <3>2, <3>4 DEF Confirmed, ScreenPart, OwnCall, KnownSwap, Exchange
    <3> QED  BY <1>2, <3>1, <3>3, <3>4, ScreensQueue
  <2> QED  BY <1>2, <2>2, <2>3, <2>4, ScreenPaths
<1>3. CASE Restart  BY <1>3, <1>c DEF Restart, Started
<1>4. CASE Dispatch
  <2>1. /\ Top' = Top /\ Head(events) \in Event /\ UNCHANGED <<pack, owner>>
        /\ events # << >> /\ Tail(events) \in Seq(Event)
    BY <1>0, <1>4, Goes DEF Dispatch, world
  <2>2. \A i \in DOMAIN Tail(events) : \E j \in DOMAIN events : Tail(events)[i] = events[j]
    BY <1>0, <2>1, TailAt
  <2>3. \A e \in Event : Fits(e) => FitsNext(e)  BY <1>a, <2>1
  <2>4. CASE events' = Tail(events)  BY <1>0, <2>1, <2>2, <2>3, <2>4, AnsweredKept, AnsweredNext
  <2>5. CASE Assign(Head(events).cab, "vehicle", Tail(events))
    BY <1>0, <2>1, <2>2, <2>3, <2>5, AnsweredAssign DEF Event
  <2> QED  BY <1>4, <2>4, <2>5 DEF Dispatch, Taken, Assigned
<1>5. CASE Written
  <2> DEFINE w == Head(writes)
  <2>1. w \in Writes /\ writes # << >> /\ w = writes[1] /\ 1 \in DOMAIN writes
    BY <1>0, <1>5 DEF Written, TypeQueues
  <2>2. w.cab \in Cabs /\ w.to \in {"vehicle", "bss"} /\ (Top # "open" => w.to = "vehicle")
    BY <1>0, <2>1 DEF Writes, VehicleWrites
  <2>3. UNCHANGED <<pack, shown>> /\ Top' = Top  BY <1>5, Goes DEF Written, ui
  <2>4. PICK ok \in {shown[w.cab] # None, FALSE} :
          /\ owner' = IF ok THEN [owner EXCEPT ![shown[w.cab]] = w.to] ELSE owner
          /\ Notify("assigned", w.cab, ok)
    BY <1>5 DEF Written
  <2> HIDE DEF w
  <2>5. ok => shown[w.cab] # None /\ pack[w.cab] = shown[w.cab] /\ shown[w.cab] \in Packs
    BY <1>0, <2>2, <2>4 DEF ReadIsThere, TypeRest
  <2>6. owner \in [Packs -> {"vehicle", "bss"}]  BY <1>0 DEF TypeRest
  <2>7. \A e \in Event : Fits(e) => FitsNext(e)
    <3>1. CASE Top = "open"  BY <2>3, <3>1 DEF Fits, FitsNext
    <3>2. CASE Top # "open" /\ ok
      <4>1. \A p \in Packs : owner[p] = "vehicle" => owner'[p] = "vehicle"
        BY <2>2, <2>4, <2>6, <3>2
      <4>2. \A c \in Cabs : pack[c] # None => pack[c] \in Packs  BY <1>0 DEF TypeRest
      <4> QED  BY <2>3, <3>2, <4>1, <4>2 DEF Fits, FitsNext, Event
    <3>3. CASE ~ok  BY <2>3, <2>4, <3>3 DEF Fits, FitsNext
    <3> QED  BY <3>1, <3>2, <3>3
  <2>8. FitsNext([kind |-> "assigned", cab |-> w.cab, ok |-> ok])
    <3>1. CASE ~ok  BY <3>1 DEF FitsNext
    <3>2. CASE ok
      <4>1. owner'[pack'[w.cab]] = w.to /\ pack'[w.cab] # None
        BY <2>3, <2>4, <2>5, <2>6, <3>2
      <4> QED  BY <2>2, <2>3, <4>1 DEF FitsNext
    <3> QED  BY <3>1, <3>2
  <2> QED  BY <1>0, <2>2, <2>4, <2>7, <2>8, AnsweredNotify
<1>6. ASSUME NEW c \in Cabs, NEW k \in {"door", "connected"}, NEW ok \in BOOLEAN,
             Notify(k, c, ok), UNCHANGED <<ui, pack, owner>>
      PROVE  AnsweredIsThere'
  <2>1. \A e \in Event : Fits(e) => FitsNext(e)  BY <1>6, <1>a, Goes DEF ui
  <2>2. FitsNext([kind |-> k, cab |-> c, ok |-> ok])  BY <1>6 DEF FitsNext
  <2> QED  BY <1>0, <1>6, <2>1, <2>2, AnsweredNotify
<1>7. ASSUME NEW c \in Cabs, Poll(c) PROVE AnsweredIsThere'
  BY <1>6, <1>7 DEF Poll, world
<1>8. ASSUME NEW c \in Cabs, Connect(c) PROVE AnsweredIsThere'
  BY <1>6, <1>8 DEF Connect, world
<1>9. ASSUME NEW c \in Cabs, Lose(c) \/ RemoteOpen(c) \/ CloseDoor(c) PROVE AnsweredIsThere'
  <2>1. UNCHANGED <<pack, owner, events>> /\ Top' = Top
    BY <1>9, Goes DEF Lose, RemoteOpen, CloseDoor, world, station, ui
  <2> QED  BY <1>0, <1>a, <2>1, AnsweredSame
<1>10. ASSUME NEW c \in Cabs, PutIn(c) \/ TakeOut(c) PROVE AnsweredIsThere'
  <2>1. events = << >>  BY <1>0, <1>10, PersonPolled
  <2>2. UNCHANGED events  BY <1>10 DEF PutIn, TakeOut, station
  <2> QED  BY <1>c, <2>1, <2>2
<1> QED  BY <1>2, <1>3, <1>4, <1>5, <1>7, <1>8, <1>9, <1>10 DEF Next, Polls

LEMMA HeldInit == Init => HeldInv
<1> SUFFICES ASSUME Init PROVE HeldInv  OBVIOUS
<1>1. Top = "standby" /\ timers = {} /\ events = << >> /\ writes = << >>  BY DEF Init, Top
<1>2. ReadIsThere  BY DEF Init, ReadIsThere
<1> QED
  BY <1>1, <1>2 DEF HeldInv, SeenIsClosed, SerialHeld, VehicleWrites, AnsweredIsThere

LEMMA HeldStutter ==
  ASSUME ScreenInv, HeldInv, UNCHANGED vars
  PROVE  HeldInv'
BY Goes DEF vars, ui, app, world, station, HeldInv, ReadIsThere, SeenIsClosed, SerialHeld,
  VehicleWrites, AnsweredIsThere

THEOREM HeldAlways ==
  ASSUME Prompt
  PROVE  Spec => []HeldInv
<1>1. ScreenInv /\ HeldInv /\ [Next]_vars => HeldInv'
  <2> SUFFICES ASSUME ScreenInv, HeldInv, [Next]_vars PROVE HeldInv'  OBVIOUS
  <2>1. CASE Next
    <3>1. SeenIsClosed' /\ SerialHeld'  BY <2>1, WatchedStep, WatchedElse
    <3>2. ReadIsThere'  BY <2>1, ReadIsThereStep DEF HeldInv
    <3>3. VehicleWrites'  BY <2>1, VehicleWritesStep DEF HeldInv
    <3>4. AnsweredIsThere'  BY <2>1, AnsweredStep
    <3> QED  BY <3>1, <3>2, <3>3, <3>4 DEF HeldInv
  <2> QED  BY <2>1, HeldStutter
<1> QED  BY HeldInit, ScreensCorrect, <1>1, PTL DEF Spec

-----------------------------------------------------------------------------
(* The step that opens the new cabinet.                                       *)
LEMMA OpeningStep ==
  ASSUME ScreenInv, SerialHeld, Next, Top = "validate", Top' = "open"
  PROVE  remote \/ (door[swap.old] = "closed" /\ pack[swap.old] = swap.serial)
<1>0. ScreenPart  BY DEF ScreenInv
<1>1. CASE Screens \/ TimerFires \/ Answer \/ Restart
  <2>1. Confirmed  BY <1>1, ScreenPaths
  <2>2. swap.serial # None  BY <1>0, <2>1 DEF Confirmed, ScreenPart, OwnCall
  <2> QED  BY <2>2 DEF SerialHeld
<1>2. CASE UNCHANGED stack  BY <1>2, Goes
<1>3. UNCHANGED stack \/ Screens \/ TimerFires \/ Answer \/ Restart
  BY DEF Next, Polls, Poll, Written, Dispatch, Connect, Lose, RemoteOpen, PutIn, TakeOut, CloseDoor, ui
<1> QED  BY <1>1, <1>2, <1>3

(* With prompt polls the new cabinet opens only while the old pack, the one   *)
(* whose serial the backend was told, is locked up.                           *)
THEOREM OldPackIsHeld ==
  ASSUME Prompt
  PROVE  Spec => OldPackHeld
<1>1. ScreenInv /\ HeldInv /\ [Next]_vars
        => [Top = "validate" /\ Top' = "open"
              => \/ remote
                 \/ door[swap.old] = "closed" /\ pack[swap.old] = swap.serial]_vars
  BY OpeningStep DEF HeldInv
<1> QED  BY ScreensCorrect, HeldAlways, <1>1, PTL DEF Spec, OldPackHeld

-----------------------------------------------------------------------------
(* The step that confirms.                                                    *)
LEMMA ConfirmingStep ==
  ASSUME ScreenInv, AnsweredIsThere, Next, call # "confirm", call' = "confirm"
  PROVE  swap.fails = 3 \/ (pack[swap.new] # None /\ owner[pack[swap.new]] = "vehicle")
<1>0. TypeQueues /\ swap \in SwapRecord  BY PartsTyped DEF ScreenInv, TypeParts
<1>1. ~ (Screens \/ TimerFires \/ Answer \/ Restart)  BY ScreenPaths
<1>2. Dispatch
  BY <1>1 DEF Next, Polls, Poll, Written, Connect, Lose, RemoteOpen, PutIn, TakeOut, CloseDoor, ui
<1> DEFINE e == Head(events)
<1>3. e \in Event /\ e = events[1] /\ 1 \in DOMAIN events  BY <1>0, <1>2 DEF TypeQueues, Dispatch
<1>4. /\ e.kind = "assigned" /\ Top = "validate" /\ swap.new = e.cab
      /\ ~(~e.ok /\ swap.fails < 3)
  BY <1>2 DEF Dispatch, Taken, Assigned
<1> HIDE DEF e
<1>5. Fits(e)  BY <1>3, AnsweredEvents
<1>6. CASE e.ok  BY <1>4, <1>5, <1>6 DEF Fits
<1>7. CASE ~(swap.fails < 3)
  BY <1>0, <1>7 DEF SwapRecord
<1> QED  BY <1>4, <1>6, <1>7

(* With prompt polls and answers a confirm follows a write that succeeded and *)
(* was not undone, or the last of four that failed.                           *)
THEOREM ConfirmedIsWritten ==
  ASSUME Prompt
  PROVE  Spec => WrittenWhenConfirmed
<1>1. ScreenInv /\ HeldInv /\ [Next]_vars
        => [call # "confirm" /\ call' = "confirm"
              => \/ remote \/ swap.fails = 3
                 \/ pack[swap.new] # None /\ owner[pack[swap.new]] = "vehicle"]_vars
  BY ConfirmingStep DEF HeldInv
<1> QED  BY ScreensCorrect, HeldAlways, <1>1, PTL DEF Spec, WrittenWhenConfirmed
=============================================================================
