---------------------------- MODULE PollerProofs ----------------------------
(* Theorems about the two modules of wmbiff.c: Poller, for every configuration *)
(* of the mailboxes, and Config, for every file. *)
EXTENDS Poller, Config, WellFoundedInduction, TLAPS

LEMMA BoxesAreInts == Boxes \subseteq Int /\ Boxes \subseteq Nat /\ 0 \in Boxes
  BY BoxesAssumption DEF Boxes

LEMMA BitsInRange ==
    ASSUME NEW i \in Boxes
    PROVE  Bit(i) \subseteq 0 .. IntBits - 1
<1>1. CASE i < IntBits
  BY <1>1, BoxesAreInts, NumbersAssumption DEF Bit
<1>2. CASE ~(i < IntBits) /\ ShiftWraps
  <2>1. i % IntBits \in 0 .. IntBits - 1
    BY BoxesAreInts, NumbersAssumption
  <2> QED
    BY <1>2, <2>1 DEF Bit
<1>3. CASE ~(i < IntBits) /\ ~ShiftWraps
  BY <1>3 DEF Bit
<1> QED
  BY <1>1, <1>2, <1>3

LEMMA RenderType ==
    ASSUME NEW t \in Int, NEW u \in Int, NEW x \in Texts, NEW b
    PROVE  Render(t, u, x, b) \in Shown
<1>1. RenderLit(t, u, x, b) \in Shown
  BY DataAssumption DEF RenderLit, Drawn, Shown
<1>2. Dark \in Shown
  BY DEF Dark, Drawn, Shown
<1> QED
  BY <1>1, <1>2 DEF Render

LEMMA BackoffType ==
    ASSUME TypeOK
    PROVE  -(Backoff + lag) \in Int
<1>1. Backoff \in Int /\ lag \in Int
  BY NumbersAssumption DEF TypeOK
<1>2. Backoff + lag \in Int
  BY <1>1
<1> QED
  BY <1>2

LEMMA BlinkRange == BlinkStart \in Nat /\ BlinkStart > 0
  BY NumbersAssumption DEF BlinkStart

LEMMA BlinkNat ==
    ASSUME NEW f \in [Boxes -> 0 .. BlinkStart], NEW i \in Boxes
    PROVE  f[i] \in Nat /\ f[i] <= BlinkStart
<1>1. f[i] \in 0 .. BlinkStart
  OBVIOUS
<1> QED
  BY <1>1, BlinkRange

LEMMA BlinkDown ==
    ASSUME NEW f \in [Boxes -> 0 .. BlinkStart], NEW i \in Boxes, f[i] > 0
    PROVE  [f EXCEPT ![i] = @ - 1] \in [Boxes -> 0 .. BlinkStart]
<1>1. f[i] - 1 \in 0 .. BlinkStart
  BY BlinkNat, BlinkRange
<1> QED
  BY <1>1

LEMMA BlinkEnd == 0 \in 0 .. BlinkStart /\ BlinkStart \in 0 .. BlinkStart
  BY BlinkRange

LEMMA SampleType ==
    ASSUME NEW s \in [Boxes -> Int], NEW f \in [Boxes -> Int], lag \in 0 .. MaxLag,
           SampleClock(s, f)
    PROVE  /\ since' \in [Boxes -> Int]
           /\ sinceFetch' \in [Boxes -> Int]
           /\ lag' \in 0 .. MaxLag
  BY BoxesAssumption, NumbersAssumption DEF SampleClock

LEMMA VerdictType ==
    ASSUME TypeOK, NEW stat \in {-1, 0, 1, 2}, ShowVerdict(stat),
           total' \in [Boxes -> Int], unread' \in [Boxes -> Int], text' \in [Boxes -> Texts]
    PROVE  /\ blinkStat' \in [Boxes -> 0 .. BlinkStart]
           /\ blinkMode' \subseteq 0 .. IntBits - 1
           /\ row' \in [Boxes -> Shown]
           /\ newMail' \in BOOLEAN
           /\ runs' \in Seq(Command)
           /\ cur' \in Boxes /\ sleep' = sleep
           /\ pc' = "after"
<1> USE DEF TypeOK
<1>1. blinkStat' \in [Boxes -> 0 .. BlinkStart]
  BY BlinkEnd DEF ShowVerdict, DisplayMsgCounters
<1>2. blinkMode' \subseteq 0 .. IntBits - 1
  BY BitsInRange DEF ShowVerdict, DisplayMsgCounters
<1>3. row' \in [Boxes -> Shown]
  <2>1. Error \in Shown
    BY DEF Error, Drawn, Shown
  <2>2. Render(total'[cur], unread'[cur], text'[cur], blinkStat'[cur]) \in Shown
    BY RenderType
  <2> QED
    BY <2>1, <2>2 DEF ShowVerdict, DisplayMsgCounters
<1>4. newMail' \in BOOLEAN
  BY DEF ShowVerdict
<1>5. runs' \in Seq(Command)
  <2>1. Notify(cur) \in Command
    BY DEF Notify, Command
  <2> QED
    BY <2>1 DEF ShowVerdict, DisplayMsgCounters
<1> QED
  BY <1>1, <1>2, <1>3, <1>4, <1>5 DEF ShowVerdict

LEMMA MailStatRange ==
    ASSUME NEW t, NEW u, NEW ot, NEW ou
    PROVE  MailStat(t, u, ot, ou) \in {0, 1, 2}
  BY DEF MailStat

LEMMA RecordType ==
    ASSUME TypeOK, NEW c \in Int \X Int \X Texts, Record(c)
    PROVE  /\ total' \in [Boxes -> Int] /\ unread' \in [Boxes -> Int]
           /\ text' \in [Boxes -> Texts]
           /\ oldTotal' \in [Boxes -> Int] /\ oldUnread' \in [Boxes -> Int]
           /\ seen' \in [Boxes -> Int]
           /\ ShowVerdict(MailStat(c[1], c[2], oldTotal[cur], oldUnread[cur]))
  BY DEF TypeOK, Record

LEMMA ForgetType ==
    ASSUME TypeOK, Forget
    PROVE  /\ total' \in [Boxes -> Int] /\ unread' \in [Boxes -> Int]
           /\ text' \in [Boxes -> Texts]
           /\ oldTotal' \in [Boxes -> Int] /\ oldUnread' \in [Boxes -> Int]
           /\ ShowVerdict(-1)
  BY DataAssumption DEF TypeOK, Forget

LEMMA NextBoxType ==
    ASSUME cur \in Boxes, NextBox
    PROVE  cur' \in Boxes /\ pc' \in {"box", "tail"}
  BY BoxesAssumption DEF NextBox, Boxes

LEMMA StepBlinkType ==
    ASSUME TypeOK, StepBlink
    PROVE  /\ blinkStat' \in [Boxes -> 0 .. BlinkStart]
           /\ blinkMode' \subseteq 0 .. IntBits - 1
           /\ row' \in [Boxes -> Shown]
<1> USE DEF TypeOK
<1>1. CASE blinkStat[cur] > 0
  <2>1. blinkStat' \in [Boxes -> 0 .. BlinkStart]
    <3>1. blinkStat' = [blinkStat EXCEPT ![cur] = @ - 1]
      BY <1>1 DEF StepBlink
    <3> QED
      BY <1>1, <3>1, BlinkDown
  <2>2. blinkMode' \subseteq 0 .. IntBits - 1
    BY <1>1 DEF StepBlink
  <2>3. Render(total[cur], unread[cur], text[cur], blinkStat'[cur]) \in Shown
    BY RenderType
  <2> QED
    BY <1>1, <2>1, <2>2, <2>3 DEF StepBlink
<1>2. CASE ~(blinkStat[cur] > 0)
  BY <1>2 DEF StepBlink, screen
<1> QED
  BY <1>1, <1>2

\* A check leaves every variable within its type, whichever way it ends.
LEMMA CheckType ==
    ASSUME TypeOK, Check
    PROVE  TypeOK'
<1>1. SampleClock(since, sinceFetch) \/ SampleClock([since EXCEPT ![cur] = -(Backoff + lag)], sinceFetch)
  BY DEF Check, CheckDisabled, CheckReturns, CheckFails, CheckDisables, CheckTimesOut
<1>2. since \in [Boxes -> Int] /\ sinceFetch \in [Boxes -> Int] /\ lag \in 0 .. MaxLag
      /\ [since EXCEPT ![cur] = -(Backoff + lag)] \in [Boxes -> Int]
  BY BackoffType DEF TypeOK
<1>3. since' \in [Boxes -> Int] /\ sinceFetch' \in [Boxes -> Int] /\ lag' \in 0 .. MaxLag
  BY <1>1, <1>2, SampleType
<1>4. CASE CheckDisabled
  <2>1. ShowVerdict(-1)
    BY <1>4 DEF CheckDisabled
  <2>2. UNCHANGED <<counts, enabled, seen>>
    BY <1>4 DEF CheckDisabled
  <2>3. /\ total' \in [Boxes -> Int] /\ unread' \in [Boxes -> Int]
        /\ text' \in [Boxes -> Texts]
        /\ oldTotal' \in [Boxes -> Int] /\ oldUnread' \in [Boxes -> Int]
        /\ enabled' \in [Boxes -> BOOLEAN] /\ seen' \in [Boxes -> Int]
    BY <2>2 DEF TypeOK, counts
  <2> QED
    BY <1>3, <2>1, <2>3, VerdictType DEF TypeOK
<1>5. CASE CheckReturns
  <2>1. PICK c \in Int \X Int \X Texts : Record(c)
    BY <1>5, DataAssumption DEF CheckReturns, TypeOK
  <2>2. enabled' \in [Boxes -> BOOLEAN]
    BY <1>5 DEF CheckReturns, TypeOK
  <2>3. MailStat(c[1], c[2], oldTotal[cur], oldUnread[cur]) \in {-1, 0, 1, 2}
    BY MailStatRange
  <2> QED
    BY <1>3, <2>1, <2>2, <2>3, RecordType, VerdictType DEF TypeOK
<1>6. CASE CheckFails \/ CheckDisables \/ CheckTimesOut
  <2>1. Forget /\ UNCHANGED seen
    BY <1>6 DEF CheckFails, CheckDisables, CheckTimesOut
  <2>2. enabled' \in [Boxes -> BOOLEAN] /\ seen' \in [Boxes -> Int]
    BY <1>6, <2>1 DEF CheckFails, CheckDisables, CheckTimesOut, TypeOK
  <2> QED
    BY <1>3, <2>1, <2>2, ForgetType, VerdictType DEF TypeOK
<1> QED
  BY <1>4, <1>5, <1>6 DEF Check

LEMMA NextType ==
    ASSUME TypeOK, [Next]_vars
    PROVE  TypeOK'
<1> USE DEF TypeOK, clock, counts, screen, loop
<1>1. CASE StartPass
  <2>1. since' \in [Boxes -> Int] /\ sinceFetch' \in [Boxes -> Int] /\ lag' \in 0 .. MaxLag
    BY <1>1, SampleType DEF StartPass
  <2>2. runs' \in Seq(Command)
    BY <1>1 DEF StartPass
  <2> QED
    BY <1>1, <2>1, <2>2 DEF StartPass
<1>2. CASE SkipUnlabelled
  BY <1>2, NextBoxType DEF SkipUnlabelled
<1>3. CASE BeginCheck
  BY <1>3 DEF BeginCheck
<1>4. CASE NotDue
  BY <1>4 DEF NotDue
<1>5. CASE Check
  BY <1>5, CheckType
<1>6. CASE BlinkAndFetch
  <2>1. cur' \in Boxes /\ pc' \in {"box", "tail"}
    BY <1>6, NextBoxType DEF BlinkAndFetch
  <2>2. /\ blinkStat' \in [Boxes -> 0 .. BlinkStart]
        /\ blinkMode' \subseteq 0 .. IntBits - 1
        /\ row' \in [Boxes -> Shown]
    BY <1>6, StepBlinkType DEF BlinkAndFetch
  <2>3. runs' \in Seq(Command) /\ sinceFetch' \in [Boxes -> Int]
    <3>1. Fetch(cur) \in Command
      BY DEF Fetch, Command
    <3>2. CASE FetchDue(cur)
      <4>1. runs' = Append(runs, Fetch(cur)) /\ sinceFetch' = [sinceFetch EXCEPT ![cur] = 0]
        BY <1>6, <3>2 DEF BlinkAndFetch
      <4> QED
        BY <3>1, <4>1
    <3>3. CASE ~FetchDue(cur)
      <4>1. UNCHANGED <<runs, sinceFetch>>
        BY <1>6, <3>3 DEF BlinkAndFetch
      <4> QED
        BY <4>1
    <3> QED
      BY <3>2, <3>3
  <2> QED
    BY <1>6, <2>1, <2>2, <2>3 DEF BlinkAndFetch
<1>7. CASE EndPass
  <2>1. Global \in Command
    BY BoxesAreInts DEF Global, Command
  <2>2. runs' \in Seq(Command)
    BY <1>7, <2>1 DEF EndPass
  <2>3. blinkStat' \in [Boxes -> 0 .. BlinkStart] /\ sleep' \in {"none", "blink", "long"}
    BY <1>7, BlinkEnd DEF EndPass
  <2> QED
    BY <1>7, <2>2, <2>3 DEF EndPass
<1>8. CASE Tick
  BY <1>8, NumbersAssumption DEF Tick
<1>9. CASE Popup
  <2>1. PICK i \in Boxes : PopupTimesOut(i) \/ PopupDisables(i) \/ PopupHangs(i)
    BY <1>9 DEF Popup
  <2>2. CASE PopupTimesOut(i)
    BY <2>2, BackoffType DEF PopupTimesOut
  <2>3. CASE PopupDisables(i)
    BY <2>3 DEF PopupDisables
  <2>4. CASE PopupHangs(i)
    BY <2>4 DEF PopupHangs
  <2> QED
    BY <2>1, <2>2, <2>3, <2>4
<1>10. CASE UNCHANGED vars
  BY <1>10 DEF vars
<1>11. CASE CheckHangs
  BY <1>11 DEF CheckHangs
<1>12. CASE Hung
  BY <1>10, <1>12 DEF Hung
<1> QED
  BY <1>1, <1>2, <1>3, <1>4, <1>5, <1>6, <1>7, <1>8, <1>9, <1>10, <1>11, <1>12 DEF Next, Loop

\* Whatever the mailboxes answer and however many there are, every variable of
\* the loop keeps its type; blink_stat stays within 0 .. 2 * BLINK_TIMES.
THEOREM TypeCorrect == Spec => []TypeOK
<1>1. Init => TypeOK
  <2> SUFFICES ASSUME Init PROVE TypeOK
    OBVIOUS
  <2>1. Label \in Shown
    BY DEF Label, Drawn, Shown
  <2>2. since \in [Boxes -> Int] /\ sinceFetch \in [Boxes -> Int]
    BY BoxesAssumption DEF Init
  <2>3. runs \in Seq(Command)
    BY DEF Init
  <2>4. blinkStat \in [Boxes -> 0 .. BlinkStart] /\ cur \in Boxes /\ lag \in 0 .. MaxLag
    BY BlinkEnd, BoxesAreInts, NumbersAssumption DEF Init
  <2> QED
    BY <2>1, <2>2, <2>3, <2>4, DataAssumption DEF Init, TypeOK
<1> QED
  BY <1>1, NextType, PTL DEF Spec

-----------------------------------------------------------------------------
\* Blinking, when every mailbox has a bit of its own in Blink_Mode.

\* A mailbox blinks exactly while its bit is set, the long sleep is chosen only
\* when nothing blinks, and only a row at an odd blink_stat is dark.
BlinkInv ==
    /\ \A i \in Boxes : blinkStat[i] > 0 <=> i \in blinkMode
    /\ pc = "idle" /\ sleep = "long" => \A i \in Boxes : blinkStat[i] = 0
    /\ \A i \in Boxes : row[i] = Dark => blinkStat[i] % 2 # 0

LEMMA OwnBit ==
    ASSUME NumBoxes <= IntBits, NEW i \in Boxes
    PROVE  Bit(i) = {i}
<1>1. i < IntBits
  BY BoxesAssumption, NumbersAssumption DEF Boxes
<1> QED
  BY <1>1 DEF Bit

LEMMA DarkIsOdd ==
    ASSUME NEW t, NEW u, NEW x, NEW b, Render(t, u, x, b) = Dark
    PROVE  b % 2 # 0
<1>1. RenderLit(t, u, x, b).kind \in {"text", "num"}
  BY DEF RenderLit, Drawn
<1>2. Dark.kind = "dark"
  BY DEF Dark, Drawn
<1> QED
  BY <1>1, <1>2 DEF Render

LEMMA ErrorIsNotDark == Error # Dark /\ Label # Dark
  BY DEF Error, Dark, Label, Drawn

\* Only a returning check, the blink step and the end of a pass touch the
\* counters or the screen.
LEMMA ScreenFrame ==
    ASSUME [Next]_vars
    PROVE  \/ Check
           \/ BlinkAndFetch
           \/ EndPass
           \/ /\ UNCHANGED <<total, unread, text, oldTotal, oldUnread, seen>>
              /\ UNCHANGED <<blinkStat, blinkMode, row, sleep>>
              /\ enabled' = enabled \/ \E i \in Boxes : enabled' = [enabled EXCEPT ![i] = FALSE]
              /\ pc' = pc \/ pc' # "idle"
              /\ runs' = runs \/ (runs' = <<>> /\ StartPass)
<1> USE DEF vars, clock, counts, screen, loop
<1>1. CASE StartPass
  BY <1>1 DEF StartPass
<1>2. CASE SkipUnlabelled
  BY <1>2 DEF SkipUnlabelled, NextBox
<1>3. CASE BeginCheck
  BY <1>3 DEF BeginCheck
<1>4. CASE NotDue
  BY <1>4 DEF NotDue
<1>5. CASE Tick
  BY <1>5 DEF Tick
<1>6. CASE Popup
  BY <1>6 DEF Popup, PopupTimesOut, PopupDisables, PopupHangs
<1>7. CASE UNCHANGED vars
  BY <1>7
<1>8. CASE CheckHangs
  BY <1>8 DEF CheckHangs
<1>9. CASE Hung
  BY <1>9 DEF Hung
<1> QED
  BY <1>1, <1>2, <1>3, <1>4, <1>5, <1>6, <1>7, <1>8, <1>9 DEF Next, Loop

\* The verdict of a check that showed it.
LEMMA CheckShows ==
    ASSUME TypeOK, Check
    PROVE  /\ \E stat \in {-1, 0, 1, 2} : ShowVerdict(stat)
           /\ pc' = "after"
<1>1. ASSUME NEW c, Record(c) PROVE \E stat \in {-1, 0, 1, 2} : ShowVerdict(stat)
  <2>1. MailStat(c[1], c[2], oldTotal[cur], oldUnread[cur]) \in {-1, 0, 1, 2}
    BY MailStatRange
  <2> QED
    BY <1>1, <2>1 DEF Record
<1>2. ASSUME Forget PROVE ShowVerdict(-1)
  BY <1>2 DEF Forget
<1>3. \E stat \in {-1, 0, 1, 2} : ShowVerdict(stat)
  BY <1>1, <1>2 DEF Check, CheckDisabled, CheckReturns, CheckFails, CheckDisables, CheckTimesOut
<1> QED
  BY <1>3 DEF ShowVerdict

LEMMA BlinkStep ==
    ASSUME NumBoxes <= IntBits, TypeOK, TypeOK', BlinkInv, [Next]_vars
    PROVE  BlinkInv'
<1> USE DEF BlinkInv
<1>1. CASE Check
  <2>1. PICK stat \in {-1, 0, 1, 2} : ShowVerdict(stat)
    BY <1>1, CheckShows
  <2>2. pc' = "after"
    BY <1>1, CheckShows
  <2>3. ASSUME NEW i \in Boxes PROVE blinkStat'[i] > 0 <=> i \in blinkMode'
    <3>1. cur \in Boxes /\ Bit(cur) = {cur}
      BY OwnBit DEF TypeOK
    <3>2. CASE stat = 2
      <4>1. BlinkStart > 0
        BY BlinkRange
      <4>2. blinkStat' = [blinkStat EXCEPT ![cur] = BlinkStart] /\ blinkMode' = blinkMode \union {cur}
        BY <2>1, <3>1, <3>2 DEF ShowVerdict, DisplayMsgCounters
      <4> QED
        BY <3>1, <4>1, <4>2, BlinkRange DEF TypeOK
    <3>3. CASE stat # 2
      BY <2>1, <3>3 DEF ShowVerdict, DisplayMsgCounters
    <3> QED
      BY <3>2, <3>3
  <2>4. ASSUME NEW i \in Boxes, row'[i] = Dark PROVE blinkStat'[i] % 2 # 0
    <3>1. CASE i = cur /\ stat # 0
      BY <2>1, <2>4, <3>1, DarkIsOdd, ErrorIsNotDark DEF ShowVerdict, DisplayMsgCounters, TypeOK
    <3>2. CASE i # cur
      BY <2>1, <2>4, <3>2 DEF ShowVerdict, DisplayMsgCounters, TypeOK
    <3>3. CASE stat = 0
      BY <2>1, <2>4, <3>3 DEF ShowVerdict, DisplayMsgCounters
    <3> QED
      BY <3>1, <3>2, <3>3
  <2> QED
    BY <2>2, <2>3, <2>4
<1>2. CASE BlinkAndFetch
  <2>1. pc' # "idle"
    BY <1>2 DEF BlinkAndFetch, NextBox
  <2>2. CASE blinkStat[cur] > 0
    <3>1. cur \in Boxes /\ Bit(cur) = {cur}
      BY OwnBit DEF TypeOK
    <3>2. /\ blinkStat' = [blinkStat EXCEPT ![cur] = @ - 1]
          /\ blinkMode' = IF blinkStat'[cur] = 0 THEN blinkMode \ {cur} ELSE blinkMode
          /\ row' = [row EXCEPT ![cur] = Render(total[cur], unread[cur], text[cur], blinkStat'[cur])]
      BY <1>2, <2>2, <3>1 DEF BlinkAndFetch, StepBlink
    <3>3. ASSUME NEW i \in Boxes PROVE blinkStat'[i] > 0 <=> i \in blinkMode'
      <4>1. blinkStat \in [Boxes -> 0 .. BlinkStart] /\ blinkStat[i] \in Nat /\ blinkStat[cur] \in Nat
        BY <3>1, BlinkNat DEF TypeOK
      <4>2. CASE i = cur
        BY <2>2, <3>1, <3>2, <4>1, <4>2
      <4>3. CASE i # cur
        BY <3>1, <3>2, <4>1, <4>3
      <4> QED
        BY <4>2, <4>3
    <3>4. ASSUME NEW i \in Boxes, row'[i] = Dark PROVE blinkStat'[i] % 2 # 0
      BY <3>2, <3>4, DarkIsOdd DEF TypeOK
    <3> QED
      BY <2>1, <3>3, <3>4
  <2>3. CASE ~(blinkStat[cur] > 0)
    BY <1>2, <2>1, <2>3 DEF BlinkAndFetch, StepBlink, screen
  <2> QED
    BY <2>2, <2>3
<1>3. CASE EndPass
  <2>1. blinkStat' = blinkStat /\ blinkMode' = blinkMode /\ row' = row
    <3>1. CASE blinkMode = {}
      <4>1. \A i \in Boxes : blinkStat[i] = 0
        <5> SUFFICES ASSUME NEW i \in Boxes PROVE blinkStat[i] = 0
          OBVIOUS
        <5>1. blinkStat[i] \in Nat
          BY BlinkNat DEF TypeOK
        <5>2. ~(blinkStat[i] > 0)
          BY <3>1
        <5> QED
          BY <5>1, <5>2
      <4>2. blinkStat' = [i \in Boxes |-> 0]
        BY <1>3, <3>1 DEF EndPass
      <4> QED
        BY <1>3, <4>1, <4>2 DEF EndPass, TypeOK
    <3>2. CASE blinkMode # {}
      BY <1>3, <3>2 DEF EndPass
    <3> QED
      BY <3>1, <3>2
  <2>2. ASSUME sleep' = "long" PROVE \A i \in Boxes : blinkStat'[i] = 0
    BY <1>3, <2>1, <2>2 DEF EndPass, TypeOK
  <2> QED
    BY <2>1, <2>2
<1>4. CASE /\ UNCHANGED <<blinkStat, blinkMode, row, sleep>>
           /\ pc' = pc \/ pc' # "idle"
  BY <1>4
<1> QED
  BY <1>1, <1>2, <1>3, <1>4, ScreenFrame

LEMMA BlinkInvariant ==
    ASSUME NumBoxes <= IntBits
    PROVE  Spec => []BlinkInv
<1>1. Init => BlinkInv
  BY ErrorIsNotDark DEF Init, BlinkInv
<1>2. TypeOK /\ TypeOK' /\ BlinkInv /\ [Next]_vars => BlinkInv'
  BY BlinkStep
<1> QED
  BY <1>1, <1>2, TypeCorrect, PTL DEF Spec

\* With at most as many mailboxes as an int has bits, the loop never goes to
\* its long sleep while a row is in the dark phase of a blink.
THEOREM DarkRowsAreRedrawn ==
    ASSUME NumBoxes <= IntBits
    PROVE  Spec => []NoRowLeftDark
<1>1. TypeOK /\ BlinkInv => NoRowLeftDark
  <2> SUFFICES ASSUME TypeOK, BlinkInv, pc = "idle", sleep = "long",
                      NEW i \in Boxes, row[i] = Dark
               PROVE  FALSE
    BY DEF NoRowLeftDark
  <2>1. blinkStat[i] = 0 /\ blinkStat[i] % 2 # 0
    BY DEF BlinkInv
  <2> QED
    BY <2>1
<1> QED
  BY <1>1, BlinkInvariant, TypeCorrect, PTL

\* ... and no mailbox's blinking is cut short by another one.
THEOREM BlinkingIsPrivate ==
    ASSUME NumBoxes <= IntBits
    PROVE  Spec => BlinkRunsItsCourse
<1>1. ASSUME TypeOK, BlinkInv, [Next]_vars
      PROVE  [\A i \in Boxes : blinkStat'[i] < blinkStat[i] => blinkStat'[i] = blinkStat[i] - 1]_vars
  <2> SUFFICES ASSUME NEW i \in Boxes, blinkStat'[i] < blinkStat[i]
               PROVE  blinkStat'[i] = blinkStat[i] - 1
    OBVIOUS
  <2>0. blinkStat \in [Boxes -> 0 .. BlinkStart] /\ cur \in Boxes
    BY <1>1 DEF TypeOK
  <2>a. blinkStat[i] \in Nat /\ blinkStat[i] <= BlinkStart /\ BlinkStart \in Nat
    BY <2>0, BlinkNat, BlinkRange
  <2>1. CASE Check
    <3>1. PICK stat \in {-1, 0, 1, 2} : ShowVerdict(stat)
      BY <2>1, <1>1, CheckShows
    <3>2. blinkStat' = blinkStat \/ blinkStat' = [blinkStat EXCEPT ![cur] = BlinkStart]
      BY <3>1 DEF ShowVerdict, DisplayMsgCounters
    <3> QED
      BY <2>0, <2>a, <3>2
  <2>2. CASE BlinkAndFetch
    <3>1. blinkStat' = blinkStat \/ blinkStat' = [blinkStat EXCEPT ![cur] = @ - 1]
      BY <2>2 DEF BlinkAndFetch, StepBlink, screen
    <3> QED
      BY <2>0, <2>a, <3>1
  <2>3. CASE EndPass
    <3>1. CASE blinkMode = {}
      BY <1>1, <2>0, <2>a, <2>3, <3>1 DEF EndPass, BlinkInv
    <3>2. CASE blinkMode # {}
      BY <2>a, <2>3, <3>2 DEF EndPass
    <3> QED
      BY <3>1, <3>2
  <2>4. CASE UNCHANGED blinkStat
    BY <2>a, <2>4
  <2> QED
    BY <1>1, <2>1, <2>2, <2>3, <2>4, ScreenFrame
<1> QED
  BY <1>1, BlinkInvariant, TypeCorrect, PTL DEF Spec, BlinkRunsItsCourse

-----------------------------------------------------------------------------
\* Announcing new mail.

\* The baseline a count is compared with is the last one seen, or the -1 that a
\* failed check left.
BaselineInv == \A i \in Boxes : oldUnread[i] = -1 \/ oldUnread[i] = seen[i]

\* A check either records an answer, or forgets, or found no check function.
LEMMA CheckEnds ==
    ASSUME TypeOK, Check
    PROVE  \/ \E c \in Int \X Int \X Texts :
                 /\ Record(c)
                 /\ \/ c \in Counts
                    \/ oldTotal[cur] >= 0 /\ c = <<total[cur], unread[cur], text[cur]>>
           \/ Forget /\ UNCHANGED seen
           \/ CheckDisabled
<1>1. CASE CheckReturns
  <2>1. CASE \E c \in Counts : Record(c)
    BY <2>1, DataAssumption
  <2>2. CASE oldTotal[cur] >= 0 /\ Record(<<total[cur], unread[cur], text[cur]>>)
    <3>1. <<total[cur], unread[cur], text[cur]>> \in Int \X Int \X Texts
      BY DEF TypeOK
    <3> QED
      BY <2>2, <3>1
  <2> QED
    BY <1>1, <2>1, <2>2 DEF CheckReturns
<1>2. CASE CheckFails \/ CheckDisables \/ CheckTimesOut
  BY <1>2 DEF CheckFails, CheckDisables, CheckTimesOut
<1> QED
  BY <1>1, <1>2 DEF Check

LEMMA BaselineStep ==
    ASSUME TypeOK, BaselineInv, [Next]_vars
    PROVE  BaselineInv'
<1> USE DEF BaselineInv
<1>1. CASE Check
  <2>1. ASSUME NEW c, Record(c) PROVE BaselineInv'
    BY <2>1 DEF Record, TypeOK
  <2>2. ASSUME Forget, UNCHANGED seen PROVE BaselineInv'
    BY <2>2 DEF Forget, TypeOK
  <2>3. ASSUME CheckDisabled PROVE BaselineInv'
    BY <2>3 DEF CheckDisabled, counts
  <2> QED
    BY <1>1, <2>1, <2>2, <2>3, CheckEnds
<1>2. CASE BlinkAndFetch
  BY <1>2 DEF BlinkAndFetch, counts
<1>3. CASE EndPass
  BY <1>3 DEF EndPass, counts
<1>4. CASE UNCHANGED <<total, unread, text, oldTotal, oldUnread, seen>>
  BY <1>4
<1> QED
  BY <1>1, <1>2, <1>3, <1>4, ScreenFrame

\* However many checks failed in between, a check that finds more unread mail
\* than the last one that worked runs the notify command and starts the blink.
THEOREM NewMailIsAnnounced == Spec => NewMailAnnounced
<1>1. Init => BaselineInv
  BY DEF Init, BaselineInv
<1>2. TypeOK /\ BaselineInv /\ [Next]_vars => BaselineInv'
  BY BaselineStep
<1>3. ASSUME TypeOK, BaselineInv, [Next]_vars
      PROVE  [\A i \in Boxes :
                 seen'[i] > seen[i] /\ seen'[i] > 0 =>
                   /\ runs' = Append(runs, Notify(i))
                   /\ blinkStat'[i] = BlinkStart]_vars
  <2> SUFFICES ASSUME NEW i \in Boxes, seen'[i] > seen[i], seen'[i] > 0
               PROVE  runs' = Append(runs, Notify(i)) /\ blinkStat'[i] = BlinkStart
    OBVIOUS
  <2>0. seen[i] \in Int
    BY <1>3 DEF TypeOK
  <2>1. ~(seen' = seen)
    BY <2>0
  <2>2. Check
    <3>1. ~BlinkAndFetch /\ ~EndPass
      BY <2>1 DEF BlinkAndFetch, EndPass
    <3> QED
      BY <1>3, <2>1, <3>1, ScreenFrame
  <2>3. PICK c \in Int \X Int \X Texts : Record(c)
    BY <1>3, <2>1, <2>2, CheckEnds DEF CheckDisabled
  <2>4. i = cur /\ seen'[cur] = c[2]
    BY <1>3, <2>0, <2>3 DEF Record, TypeOK
  <2>5. oldUnread[cur] = -1 \/ oldUnread[cur] = seen[cur]
    BY <1>3 DEF BaselineInv, TypeOK
  <2>6. c[2] > oldUnread[cur] /\ c[2] > 0
    BY <2>4, <2>5
  <2>7. MailStat(c[1], c[2], oldTotal[cur], oldUnread[cur]) = 2
    BY <2>6 DEF MailStat
  <2>8. ShowVerdict(2)
    BY <2>3, <2>7 DEF Record
  <2> QED
    BY <1>3, <2>4, <2>8 DEF ShowVerdict, DisplayMsgCounters, TypeOK
<1> QED
  BY <1>1, <1>2, <1>3, TypeCorrect, PTL DEF Spec, NewMailAnnounced

-----------------------------------------------------------------------------
\* What a row shows.

\* The mailboxes that count messages: every answer is a pair of naturals.
CountsOnly == \A c \in Counts : c[1] >= 0 /\ c[2] >= 0 /\ c[3] = NoText

\* No text is ever set, and the Old members are either -1 or equal to the
\* current ones.
CountInv ==
    \A i \in Boxes :
        /\ text[i] = NoText
        /\ \/ oldTotal[i] = -1
           \/ /\ oldTotal[i] = total[i] /\ total[i] >= 0
              /\ oldUnread[i] = unread[i] /\ unread[i] >= 0

LEMMA CountEnds ==
    ASSUME CountsOnly, TypeOK, CountInv, Check
    PROVE  \/ \E c \in Int \X Int \X Texts :
                 Record(c) /\ c[1] >= 0 /\ c[2] >= 0 /\ c[3] = NoText
           \/ Forget
           \/ CheckDisabled
<1>1. ASSUME NEW c \in Int \X Int \X Texts,
             oldTotal[cur] >= 0, c = <<total[cur], unread[cur], text[cur]>>
      PROVE  c[1] >= 0 /\ c[2] >= 0 /\ c[3] = NoText
  BY <1>1 DEF CountInv, TypeOK
<1> QED
  BY <1>1, CheckEnds DEF CountsOnly

LEMMA CountStep ==
    ASSUME CountsOnly, TypeOK, CountInv, [Next]_vars
    PROVE  CountInv'
<1> USE DEF CountInv
<1>1. CASE Check
  <2>1. ASSUME NEW c \in Int \X Int \X Texts, Record(c),
               c[1] >= 0, c[2] >= 0, c[3] = NoText
        PROVE  CountInv'
    BY <2>1 DEF Record, TypeOK
  <2>2. ASSUME Forget PROVE CountInv'
    BY <2>2 DEF Forget, TypeOK
  <2>3. ASSUME CheckDisabled PROVE CountInv'
    BY <2>3 DEF CheckDisabled, counts
  <2> QED
    BY <1>1, <2>1, <2>2, <2>3, CountEnds
<1>2. CASE BlinkAndFetch
  BY <1>2 DEF BlinkAndFetch, counts
<1>3. CASE EndPass
  BY <1>3 DEF EndPass, counts
<1>4. CASE UNCHANGED <<total, unread, text, oldTotal, oldUnread, seen>>
  BY <1>4
<1> QED
  BY <1>1, <1>2, <1>3, <1>4, ScreenFrame

\* RowCurrent, for one mailbox.
RowOf(i) ==
    \/ row[i] = Render(total[i], unread[i], text[i], blinkStat[i])
    \/ row[i] = Error /\ (total[i] = -1 \/ ~enabled[i])
    \/ row[i] = Label /\ oldTotal[i] = -1

LEMMA VerdictRow ==
    ASSUME TypeOK, NEW stat \in {-1, 0, 1, 2}, ShowVerdict(stat), NEW i \in Boxes
    PROVE  /\ i # cur => row'[i] = row[i] /\ blinkStat'[i] = blinkStat[i]
           /\ stat = 0 => row' = row /\ blinkStat' = blinkStat
           /\ stat = -1 => row'[cur] = Error
           /\ stat \in {1, 2} =>
                row'[cur] = Render(total'[cur], unread'[cur], text'[cur], blinkStat'[cur])
<1> DEFINE drawn == IF stat = -1 THEN Error
                    ELSE Render(total'[cur], unread'[cur], text'[cur], blinkStat'[cur])
<1>1. cur \in Boxes /\ row \in [Boxes -> Shown] /\ blinkStat \in [Boxes -> 0 .. BlinkStart]
  BY DEF TypeOK
<1>2. blinkStat' = IF stat = 2 THEN [blinkStat EXCEPT ![cur] = BlinkStart] ELSE blinkStat
  BY DEF ShowVerdict, DisplayMsgCounters
<1>3. row' = IF stat = 0 THEN row ELSE [row EXCEPT ![cur] = drawn]
  BY DEF ShowVerdict, DisplayMsgCounters
<1> HIDE DEF drawn
<1>4. i # cur => row'[i] = row[i] /\ blinkStat'[i] = blinkStat[i]
  BY <1>1, <1>2, <1>3
<1>5. stat # 0 => row'[cur] = drawn
  BY <1>1, <1>3
<1> QED
  BY <1>2, <1>3, <1>4, <1>5 DEF drawn

\* The loop calls no check function that is not there.
DisabledInv == pc = "disabled" => ~enabled[cur]

LEMMA DisabledStep ==
    ASSUME TypeOK, DisabledInv, [Next]_vars
    PROVE  DisabledInv'
<1> USE DEF DisabledInv
<1>1. CASE StartPass \/ SkipUnlabelled \/ NotDue \/ BlinkAndFetch \/ EndPass
  BY <1>1 DEF StartPass, SkipUnlabelled, NotDue, BlinkAndFetch, EndPass, NextBox
<1>2. CASE BeginCheck
  BY <1>2 DEF BeginCheck
<1>3. CASE Check
  BY <1>3, CheckShows
<1>4. CASE Tick \/ UNCHANGED vars
  BY <1>4 DEF Tick, loop, vars
<1>5. CASE Popup
  BY <1>5 DEF Popup, PopupTimesOut, PopupDisables, PopupHangs, loop, TypeOK
<1>6. CASE CheckHangs \/ Hung
  BY <1>6 DEF CheckHangs, Hung, loop, vars
<1> QED
  BY <1>1, <1>2, <1>3, <1>4, <1>5, <1>6 DEF Next, Loop

\* An answer that changes neither the row nor the verdict found the counters
\* as the row shows them.
LEMMA QuietAnswer ==
    ASSUME CountInv, TypeOK, NEW c \in Int \X Int \X Texts,
           c[1] >= 0, c[2] >= 0, c[3] = NoText,
           MailStat(c[1], c[2], oldTotal[cur], oldUnread[cur]) = 0
    PROVE  total[cur] = c[1] /\ unread[cur] = c[2] /\ text[cur] = c[3] /\ oldTotal[cur] # -1
<1>1. oldTotal[cur] = c[1]
  BY DEF MailStat
<1>2. cur \in Boxes /\ oldTotal[cur] # -1
  BY <1>1 DEF TypeOK
<1>3. total[cur] = c[1] /\ oldUnread[cur] = unread[cur] /\ unread[cur] >= 0 /\ text[cur] = NoText
  BY <1>1, <1>2 DEF CountInv
<1>4. c[2] = oldUnread[cur]
  BY <1>3 DEF MailStat, TypeOK
<1> QED
  BY <1>2, <1>3, <1>4

LEMMA RowStep ==
    ASSUME CountsOnly, NumBoxes <= IntBits,
           TypeOK, TypeOK', CountInv, BlinkInv, DisabledInv, RowCurrent, [Next]_vars,
           NEW i \in Boxes
    PROVE  RowOf(i)'
<1>0. RowOf(i)
  BY DEF RowCurrent, RowOf
<1>1. CASE Check
  <2>0. enabled' = enabled \/ enabled' = [enabled EXCEPT ![cur] = FALSE]
    BY <1>1 DEF Check, CheckDisabled, CheckReturns, CheckFails, CheckDisables, CheckTimesOut
  <2>1. ASSUME NEW c \in Int \X Int \X Texts, Record(c),
               c[1] >= 0, c[2] >= 0, c[3] = NoText
        PROVE  RowOf(i)'
    <3> DEFINE stat == MailStat(c[1], c[2], oldTotal[cur], oldUnread[cur])
    <3>1. ShowVerdict(stat) /\ stat \in {0, 1, 2}
      BY <2>1, MailStatRange DEF Record
    <3>2. /\ total' = [total EXCEPT ![cur] = c[1]]
          /\ unread' = [unread EXCEPT ![cur] = c[2]]
          /\ text' = [text EXCEPT ![cur] = c[3]]
          /\ oldTotal' = [oldTotal EXCEPT ![cur] = c[1]]
      BY <2>1 DEF Record
    <3>3. CASE i # cur
      <4>1. row'[i] = row[i] /\ blinkStat'[i] = blinkStat[i]
        BY <3>1, <3>3, VerdictRow
      <4>2. total'[i] = total[i] /\ unread'[i] = unread[i] /\ text'[i] = text[i]
            /\ oldTotal'[i] = oldTotal[i] /\ (enabled'[i] = enabled[i])
        BY <2>0, <3>2, <3>3, ZenonT(40) DEF TypeOK
      <4> QED
        BY <1>0, <4>1, <4>2 DEF RowOf
    <3>4. CASE i = cur /\ stat = 0
      <4>1. total[cur] = c[1] /\ unread[cur] = c[2] /\ text[cur] = c[3] /\ oldTotal[cur] # -1
        BY <2>1, <3>4, QuietAnswer
      <4>2. total' = total /\ unread' = unread /\ text' = text
        BY <3>2, <4>1 DEF TypeOK
      <4>3. row' = row /\ blinkStat' = blinkStat
        BY <3>1, <3>4, VerdictRow
      <4>4. enabled'[i] => enabled[i]
        BY <2>0 DEF TypeOK
      <4> QED
        BY <1>0, <3>4, <4>1, <4>2, <4>3, <4>4 DEF RowOf
    <3>5. CASE i = cur /\ stat # 0
      <4>1. row'[cur] = Render(total'[cur], unread'[cur], text'[cur], blinkStat'[cur])
        BY <3>1, <3>5, VerdictRow
      <4> QED
        BY <3>5, <4>1 DEF RowOf
    <3> QED
      BY <3>3, <3>4, <3>5
  <2>2. ASSUME Forget PROVE RowOf(i)'
    <3>1. ShowVerdict(-1)
      BY <2>2 DEF Forget
    <3>2. CASE i # cur
      <4>1. row'[i] = row[i] /\ blinkStat'[i] = blinkStat[i]
        BY <3>1, <3>2, VerdictRow
      <4>2. total'[i] = total[i] /\ unread'[i] = unread[i] /\ text'[i] = text[i]
            /\ oldTotal'[i] = oldTotal[i] /\ (enabled'[i] = enabled[i])
        BY <2>0, <2>2, <3>2 DEF TypeOK, Forget
      <4> QED
        BY <1>0, <4>1, <4>2 DEF RowOf
    <3>3. CASE i = cur
      <4>1. row'[cur] = Error
        BY <3>1, VerdictRow
      <4>2. total'[cur] = -1
        BY <2>2 DEF Forget, TypeOK
      <4> QED
        BY <3>3, <4>1, <4>2 DEF RowOf
    <3> QED
      BY <3>2, <3>3
  <2>3. ASSUME CheckDisabled PROVE RowOf(i)'
    <3>1. ShowVerdict(-1) /\ ~enabled[cur] /\ UNCHANGED <<counts, enabled>>
      BY <2>3 DEF CheckDisabled, DisabledInv
    <3>2. CASE i # cur
      <4>1. row'[i] = row[i] /\ blinkStat'[i] = blinkStat[i]
        BY <3>1, <3>2, VerdictRow
      <4> QED
        BY <1>0, <3>1, <4>1 DEF RowOf, counts
    <3>3. CASE i = cur
      <4>1. row'[cur] = Error
        BY <3>1, VerdictRow
      <4> QED
        BY <3>1, <3>3, <4>1 DEF RowOf
    <3> QED
      BY <3>2, <3>3
  <2> QED
    BY <1>1, <2>1, <2>2, <2>3, CountEnds
<1>2. CASE BlinkAndFetch
  <2>1. StepBlink /\ UNCHANGED <<counts, enabled>>
    BY <1>2 DEF BlinkAndFetch
  <2>2. CASE blinkStat[cur] > 0 /\ i = cur
    <3>1. row'[i] = Render(total'[i], unread'[i], text'[i], blinkStat'[i])
      BY <2>1, <2>2 DEF StepBlink, counts, TypeOK
    <3> QED
      BY <3>1 DEF RowOf
  <2>3. CASE ~(blinkStat[cur] > 0 /\ i = cur)
    <3>1. row'[i] = row[i] /\ blinkStat'[i] = blinkStat[i]
      BY <2>1, <2>3, ZenonT(40) DEF StepBlink, screen, TypeOK
    <3> QED
      BY <1>0, <2>1, <3>1 DEF RowOf, counts
  <2> QED
    BY <2>2, <2>3
<1>3. CASE EndPass
  <2>1. UNCHANGED <<counts, enabled, row>> /\ blinkStat'[i] = blinkStat[i]
    <3>1. CASE blinkMode = {}
      <4>1. ~(blinkStat[i] > 0) /\ blinkStat[i] \in Nat
        BY <3>1, BlinkNat DEF BlinkInv, TypeOK
      <4> QED
        BY <1>3, <3>1, <4>1 DEF EndPass
    <3>2. CASE blinkMode # {}
      BY <1>3, <3>2 DEF EndPass
    <3> QED
      BY <3>1, <3>2
  <2> QED
    BY <1>0, <2>1 DEF RowOf, counts
<1>4. CASE /\ UNCHANGED <<total, unread, text, oldTotal, oldUnread, seen>>
           /\ UNCHANGED <<blinkStat, blinkMode, row, sleep>>
           /\ enabled' = enabled \/ \E b \in Boxes : enabled' = [enabled EXCEPT ![b] = FALSE]
  <2>1. enabled'[i] => enabled[i]
    BY <1>4 DEF TypeOK
  <2> QED
    BY <1>0, <1>4, <2>1 DEF RowOf
<1> QED
  BY <1>1, <1>2, <1>3, <1>4, ScreenFrame

\* For mailboxes that count messages, the row is never out of date: it shows
\* the counters in the current phase of the blink, or XX while the last check
\* failed, however checks, failures, blinking and popups interleave.
THEOREM RowsAreCurrent ==
    ASSUME CountsOnly, NumBoxes <= IntBits
    PROVE  Spec => []RowCurrent
<1>1. Init => CountInv /\ DisabledInv /\ RowCurrent
  BY DEF Init, CountInv, DisabledInv, RowCurrent
<1>2. TypeOK /\ CountInv /\ [Next]_vars => CountInv'
  BY CountStep
<1>3. TypeOK /\ DisabledInv /\ [Next]_vars => DisabledInv'
  BY DisabledStep
<1>4. TypeOK /\ TypeOK' /\ CountInv /\ BlinkInv /\ DisabledInv /\ RowCurrent /\ [Next]_vars
        => RowCurrent'
  <2> SUFFICES ASSUME TypeOK, TypeOK', CountInv, BlinkInv, DisabledInv, RowCurrent,
                      [Next]_vars, NEW i \in Boxes
               PROVE  RowOf(i)'
    BY DEF RowCurrent, RowOf
  <2> QED
    BY RowStep
<1> QED
  BY <1>1, <1>2, <1>3, <1>4, TypeCorrect, BlinkInvariant, PTL DEF Spec

-----------------------------------------------------------------------------
\* The commands of a pass.

Has(c) == \E k \in DOMAIN runs : runs[k].cmd = c

\* NewMail tells, during a pass, whether a mailbox was announced in it; only
\* the end of the pass starts the global notification.
PassInv ==
    pc # "hung" => IF pc = "idle" THEN GlobalNotifyOnce
                                  ELSE ~Has("global") /\ (newMail <=> Has("notify"))

LEMMA OneMoreCommand ==
    ASSUME TypeOK, NEW e \in Command, runs' = Append(runs, e), NEW c
    PROVE  /\ Has(c)' <=> Has(c) \/ e.cmd = c
           /\ ~Has(c) => Ran(c)' = IF e.cmd = c THEN {Len(runs')} ELSE {}
<1>1. runs \in Seq(Command) /\ Len(runs) \in Nat /\ DOMAIN runs = 1 .. Len(runs)
  BY DEF TypeOK
<1>2. /\ Len(runs') = Len(runs) + 1 /\ DOMAIN runs' = 1 .. Len(runs) + 1
      /\ \A k \in 1 .. Len(runs) : runs'[k] = runs[k]
      /\ runs'[Len(runs) + 1] = e
  BY <1>1
<1>3. Has(c)' <=> Has(c) \/ e.cmd = c
  BY <1>1, <1>2 DEF Has
<1>4. \A k \in DOMAIN runs' : k = Len(runs') \/ (k \in DOMAIN runs /\ runs'[k] = runs[k])
  BY <1>1, <1>2
<1>5. Len(runs') \in DOMAIN runs' /\ runs'[Len(runs')] = e
  BY <1>1, <1>2
<1> QED
  BY <1>3, <1>4, <1>5 DEF Has, Ran

LEMMA PassStep ==
    ASSUME TypeOK, PassInv, [Next]_vars
    PROVE  PassInv'
<1> USE DEF PassInv
<1>1. CASE StartPass
  BY <1>1 DEF StartPass, Has
<1>2. CASE SkipUnlabelled \/ BeginCheck \/ NotDue
  BY <1>2 DEF SkipUnlabelled, BeginCheck, NotDue, NextBox, Has
<1>3. CASE Check
  <2>1. pc \notin {"idle", "hung"} /\ pc' = "after"
    BY <1>3, CheckShows DEF Check, CheckDisabled, CheckReturns, CheckFails, CheckDisables,
      CheckTimesOut
  <2>2. PICK stat \in {-1, 0, 1, 2} : ShowVerdict(stat)
    BY <1>3, CheckShows
  <2>3. newMail' = (newMail \/ stat = 2)
        /\ runs' = IF stat = 2 THEN Append(runs, Notify(cur)) ELSE runs
    BY <2>2 DEF ShowVerdict, DisplayMsgCounters
  <2>4. CASE stat = 2
    <3>1. Notify(cur) \in Command /\ Notify(cur).cmd = "notify"
      BY DEF Notify, Command, TypeOK
    <3>2. Has("notify")' /\ (Has("global")' <=> Has("global"))
      BY <2>3, <2>4, <3>1, OneMoreCommand
    <3> QED
      BY <2>1, <2>3, <2>4, <3>2
  <2>5. CASE stat # 2
    <3>1. newMail' = newMail
      BY <2>3, <2>5 DEF TypeOK
    <3>2. runs' = runs
      BY <2>3, <2>5
    <3> QED
      BY <2>1, <3>1, <3>2 DEF Has
  <2> QED
    BY <2>4, <2>5
<1>4. CASE BlinkAndFetch
  <2>1. pc \notin {"idle", "hung"} /\ pc' # "idle" /\ newMail' = newMail
        /\ (runs' = runs \/ runs' = Append(runs, Fetch(cur)))
    BY <1>4 DEF BlinkAndFetch, NextBox
  <2>2. Fetch(cur) \in Command /\ Fetch(cur).cmd = "fetch"
    BY DEF Fetch, Command, TypeOK
  <2>3. (Has("notify")' <=> Has("notify")) /\ (Has("global")' <=> Has("global"))
    <3>1. CASE runs' = runs
      BY <3>1 DEF Has
    <3>2. CASE runs' = Append(runs, Fetch(cur))
      BY <2>2, <3>2, OneMoreCommand
    <3> QED
      BY <2>1, <3>1, <3>2
  <2> QED
    BY <2>1, <2>3
<1>5. CASE EndPass
  <2>1. pc \notin {"idle", "hung"} /\ pc' = "idle"
        /\ runs' = IF newMail THEN Append(runs, Global) ELSE runs
    BY <1>5 DEF EndPass
  <2>2. Global \in Command /\ Global.cmd = "global"
    BY BoxesAreInts DEF Global, Command
  <2>3. CASE newMail
    <3>1. Has("notify")' /\ Ran("global")' = {Len(runs')}
      BY <2>1, <2>2, <2>3, OneMoreCommand
    <3> QED
      BY <2>1, <3>1 DEF GlobalNotifyOnce, Ran, Has
  <2>4. CASE ~newMail
    BY <2>1, <2>4 DEF GlobalNotifyOnce, Ran, Has
  <2> QED
    BY <2>3, <2>4
<1>6. CASE UNCHANGED <<pc, newMail, runs>>
  BY <1>6 DEF GlobalNotifyOnce, Ran, Has
<1>7. CASE pc' = "hung" /\ UNCHANGED <<newMail, runs>>
  BY <1>7
<1>8. CASE Tick \/ Hung \/ UNCHANGED vars
  BY <1>6, <1>8 DEF Tick, Hung, loop, vars
<1>9. CASE CheckHangs
  BY <1>7, <1>9 DEF CheckHangs
<1>10. ASSUME NEW i \in Boxes, PopupTimesOut(i) \/ PopupDisables(i) PROVE PassInv'
  BY <1>6, <1>10 DEF PopupTimesOut, PopupDisables, loop
<1>11. ASSUME NEW i \in Boxes, PopupHangs(i) PROVE PassInv'
  BY <1>7, <1>11 DEF PopupHangs
<1> QED
  BY <1>1, <1>2, <1>3, <1>4, <1>5, <1>8, <1>9, <1>10, <1>11 DEF Next, Loop, Popup

\* Whatever checks, failures and popups a pass mixes, the global notification
\* runs once, last, when some mailbox was announced, and not otherwise.
THEOREM GlobalNotificationRunsOnce == Spec => []GlobalNotifyOnce
<1>1. Init => PassInv
  BY DEF Init, PassInv, GlobalNotifyOnce, Ran
<1>2. TypeOK /\ PassInv /\ [Next]_vars => PassInv'
  BY PassStep
<1>3. PassInv => GlobalNotifyOnce
  BY DEF PassInv, GlobalNotifyOnce
<1> QED
  BY <1>1, <1>2, <1>3, TypeCorrect, PTL DEF Spec

-----------------------------------------------------------------------------
(* The configuration: the last line about something.                        *)

\* The lines of s that are in W, by their places.
Places(s, W) == {k \in DOMAIN s : s[k] \in W}

\* The value of the last of them.
Latest(s, W, d) == IF Places(s, W) = {} THEN d ELSE s[Max(Places(s, W))].value

\* A set of places in a file has a last one.
LEMMA LastPlace ==
    ASSUME NEW n \in Nat, NEW P, P \subseteq 1 .. n, P # {}
    PROVE  \E m \in P : \A k \in P : m >= k
<1> DEFINE T == {n - k : k \in P}
<1>1. \A k \in P : n - k \in Nat
  OBVIOUS
<1>2. T \in SUBSET Nat /\ T # {}
  BY <1>1
<1>3. \E x \in T : \A y \in T : ~ (<<y, x>> \in OpToRel(<, Nat))
  BY <1>2, NatLessThanWellFounded, WFMin
<1>4. PICK x \in T : \A y \in T : ~ (<<y, x>> \in OpToRel(<, Nat))
  BY <1>3
<1>5. \A y \in T : ~ (y < x)
  BY <1>2, <1>4 DEF OpToRel
<1>6. PICK m \in P : x = n - m
  BY <1>4
<1>7. \A k \in P : ~ (n - k < n - m)
  BY <1>5, <1>6
<1> QED
  BY <1>7

LEMMA MaxIs ==
    ASSUME NEW n \in Nat, NEW P, P \subseteq 1 .. n, NEW m \in P, \A k \in P : m >= k
    PROVE  Max(P) = m
<1>1. PICK x : x = Max(P)
  OBVIOUS
<1>2. x \in P /\ \A k \in P : x >= k
  BY <1>1 DEF Max
<1>3. x \in Int /\ m \in Int /\ x >= m /\ m >= x
  BY <1>2
<1> QED
  BY <1>1, <1>3

\* So the Max of a set of places is one of them.
LEMMA MaxInside ==
    ASSUME NEW n \in Nat, NEW P, P \subseteq 1 .. n, P # {}
    PROVE  Max(P) \in P
BY LastPlace, MaxIs

\* One more line.
LEMMA LatestStep ==
    ASSUME NEW s \in Seq(Lines), NEW l \in Lines, NEW W, NEW d
    PROVE  Latest(Append(s, l), W, d) = IF l \in W THEN l.value ELSE Latest(s, W, d)
<1> DEFINE t == Append(s, l)
           n == Len(s)
<1>1. /\ n \in Nat /\ DOMAIN s = 1 .. n /\ DOMAIN t = 1 .. n + 1
      /\ t[n + 1] = l /\ \A k \in 1 .. n : t[k] = s[k]
  OBVIOUS
<1>2. Places(s, W) \subseteq 1 .. n /\ Places(t, W) \subseteq 1 .. n + 1
  BY <1>1 DEF Places
<1>3. CASE l \in W
  <2>1. n + 1 \in Places(t, W)
    BY <1>1, <1>3 DEF Places
  <2>2. Max(Places(t, W)) = n + 1
    BY <1>1, <1>2, <2>1, MaxIs
  <2> QED
    BY <1>1, <1>3, <2>1, <2>2 DEF Latest
<1>4. CASE l \notin W
  <2>1. Places(t, W) = Places(s, W)
    BY <1>1, <1>4 DEF Places
  <2>2. Places(s, W) # {} => Max(Places(s, W)) \in 1 .. n
    BY <1>1, <1>2, MaxInside
  <2> QED
    BY <1>1, <1>4, <2>1, <2>2 DEF Latest
<1> QED
  BY <1>3, <1>4

LEMMA PlacesStep ==
    ASSUME NEW s \in Seq(Lines), NEW l \in Lines, NEW W
    PROVE  Places(Append(s, l), W) = {} <=> (l \notin W /\ Places(s, W) = {})
<1>1. /\ Len(s) \in Nat /\ DOMAIN s = 1 .. Len(s) /\ DOMAIN Append(s, l) = 1 .. Len(s) + 1
      /\ Append(s, l)[Len(s) + 1] = l /\ \A k \in 1 .. Len(s) : Append(s, l)[k] = s[k]
  OBVIOUS
<1> QED
  BY <1>1 DEF Places

-----------------------------------------------------------------------------
(* What the lines read so far say, in these terms: the lines about a        *)
(* setting of a mailbox, the ones that fit, the ones about all mailboxes.   *)

Settings(w, i) == {l \in Lines : l.word = w /\ l.dot /\ l.index = i}
Fitting(w, i) == {l \in Settings(w, i) : ~TooLong(fieldOf[w], l.value)}
Undot(w) == {l \in Lines : l.word = w /\ (l.dot => l.index = NONE)}
Asks(i) == {l \in Undot("askpass") : l.index \in {NONE, i}}
Number(s, W, d) == IF Places(s, W) = {} THEN d ELSE atoi(Latest(s, W, NONE))

LEMMA Meaning ==
    ASSUME read \in Seq(Lines)
    PROVE  /\ \A w \in DOMAIN fieldOf, i \in Indexes : Written(w, i) = Latest(read, Fitting(w, i), "")
           /\ \A w, i : OwnNumber(w, i) = Number(read, Settings(w, i), 0)
           /\ \A w, i : Last(About(w, i), "") = Latest(read, Settings(w, i), "")
           /\ \A w : Last(Undotted(w), NONE) = Latest(read, Undot(w), NONE)
           /\ \A i \in Indexes : AskpassOf(i) = Latest(read, Asks(i), DEFAULT_ASKPASS)
           /\ GlobalInterval = Number(read, Undot("interval"), DEFAULT_LOOP)
<1>1. \A k \in DOMAIN read : read[k] \in Lines
  OBVIOUS
<1>2. ASSUME NEW w, NEW i PROVE About(w, i) = Places(read, Settings(w, i))
  BY <1>1 DEF About, Places, Settings
<1>3. ASSUME NEW w PROVE Undotted(w) = Places(read, Undot(w))
  BY <1>1 DEF Undotted, Places, Undot
<1>4. ASSUME NEW w, NEW i PROVE Written(w, i) = Latest(read, Fitting(w, i), "")
  <2>1. {k \in About(w, i) : ~TooLong(fieldOf[w], read[k].value)} = Places(read, Fitting(w, i))
    BY <1>1, <1>2 DEF Places, Fitting, Settings
  <2> QED
    BY <2>1 DEF Written, Last, Latest
<1>5. ASSUME NEW w, NEW i PROVE OwnNumber(w, i) = Number(read, Settings(w, i), 0)
  BY <1>2 DEF OwnNumber, Number, Last, Latest
<1>6. ASSUME NEW i PROVE AskpassOf(i) = Latest(read, Asks(i), DEFAULT_ASKPASS)
  <2>1. {k \in Undotted("askpass") : read[k].index \in {NONE, i}} = Places(read, Asks(i))
    BY <1>1, <1>3 DEF Places, Asks, Undot
  <2> QED
    BY <2>1 DEF AskpassOf, Last, Latest
<1>7. GlobalInterval = Number(read, Undot("interval"), DEFAULT_LOOP)
  BY <1>3 DEF GlobalInterval, Number, Last, Latest
<1>8. ASSUME NEW w, NEW i PROVE Last(About(w, i), "") = Latest(read, Settings(w, i), "")
  BY <1>2 DEF Last, Latest
<1>9. ASSUME NEW w PROVE Last(Undotted(w), NONE) = Latest(read, Undot(w), NONE)
  BY <1>3 DEF Last, Latest
<1> QED
  BY <1>4, <1>5, <1>6, <1>7, <1>8, <1>9

LEMMA NumberStep ==
    ASSUME NEW s \in Seq(Lines), NEW l \in Lines, NEW W, NEW d
    PROVE  Number(Append(s, l), W, d) = IF l \in W THEN atoi(l.value) ELSE Number(s, W, d)
BY LatestStep, PlacesStep DEF Number

-----------------------------------------------------------------------------
(* What a line does.                                                        *)

Values == {l.value : l \in Lines} \union {""}

\* A mailbox that no creator has seen.
Raw == [text : [Fields -> Values], loopinterval : Int, fetchinterval : Int, all : BOOLEAN,
        askpass : Values \union {DEFAULT_ASKPASS}, checkMail : {NONE}, dossl : {FALSE},
        wantCacheHeaders : {FALSE}]

LEMMA FieldNames ==
    /\ \A w \in DOMAIN fieldOf : fieldOf[w] \in Fields
    /\ \A v, w \in DOMAIN fieldOf : fieldOf[v] = fieldOf[w] => v = w
    /\ \A w \in {"interval", "fetchinterval", "debug", "askpass"} : w \notin DOMAIN fieldOf
BY DEF fieldOf, Fields

\* A line writes the setting it names, and no other.
LEMMA SetMeans ==
    ASSUME NEW b \in Raw, NEW l \in Lines
    PROVE  /\ Set(b, l) \in Raw
           /\ \A w \in DOMAIN fieldOf : Set(b, l).text[fieldOf[w]] =
                IF l.word = w /\ ~TooLong(fieldOf[w], l.value) THEN l.value ELSE b.text[fieldOf[w]]
           /\ Set(b, l).loopinterval = IF l.word = "interval" THEN atoi(l.value) ELSE b.loopinterval
           /\ Set(b, l).fetchinterval =
                IF l.word = "fetchinterval" THEN atoi(l.value) ELSE b.fetchinterval
           /\ Set(b, l).all <=> IF l.word = "debug" THEN l.value = "all" ELSE b.all
           /\ Set(b, l).askpass = b.askpass
<1> DEFINE field == fieldOf[l.word]
<1>1. l.value \in Values /\ atoi(l.value) \in Int
  BY ConfigAssumption DEF Values
<1>2. CASE l.word \in DOMAIN fieldOf /\ ~TooLong(fieldOf[l.word], l.value)
  <2>1. Set(b, l) = [b EXCEPT !.text[field] = l.value]
    BY <1>2, FieldNames DEF Set
  <2>2. l.word \notin {"interval", "fetchinterval", "debug"} /\ field \in Fields
    BY <1>2, FieldNames
  <2>3. [b EXCEPT !.text[field] = l.value] \in Raw
    BY <1>1, <2>2 DEF Raw
  <2>4. \A f \in Fields : [b EXCEPT !.text[field] = l.value].text[f] =
           IF f = field THEN l.value ELSE b.text[f]
    BY <2>2 DEF Raw
  <2>5. \A w \in DOMAIN fieldOf : fieldOf[w] = field <=> l.word = w
    BY <1>2, FieldNames
  <2>6. /\ [b EXCEPT !.text[field] = l.value].loopinterval = b.loopinterval
        /\ [b EXCEPT !.text[field] = l.value].fetchinterval = b.fetchinterval
        /\ [b EXCEPT !.text[field] = l.value].all = b.all
        /\ [b EXCEPT !.text[field] = l.value].askpass = b.askpass
    BY DEF Raw
  <2>7. \A w \in DOMAIN fieldOf : Set(b, l).text[fieldOf[w]] =
                IF l.word = w /\ ~TooLong(fieldOf[w], l.value) THEN l.value ELSE b.text[fieldOf[w]]
    BY <1>2, <2>1, <2>4, <2>5, FieldNames
  <2> QED
    BY <2>1, <2>2, <2>3, <2>6, <2>7
<1>3. CASE ~ (l.word \in DOMAIN fieldOf /\ ~TooLong(fieldOf[l.word], l.value))
  <2>1. \A w \in DOMAIN fieldOf : ~ (l.word = w /\ ~TooLong(fieldOf[w], l.value))
    BY <1>3
  <2>2. CASE l.word = "interval"
    <3>1. Set(b, l) = [b EXCEPT !.loopinterval = atoi(l.value)]
      BY <1>3, <2>2, FieldNames DEF Set
    <3> QED
      BY <1>1, <2>1, <2>2, <3>1 DEF Raw
  <2>3. CASE l.word = "fetchinterval"
    <3>1. Set(b, l) = [b EXCEPT !.fetchinterval = atoi(l.value)]
      BY <1>3, <2>3, FieldNames DEF Set
    <3> QED
      BY <1>1, <2>1, <2>3, <3>1 DEF Raw
  <2>4. CASE l.word = "debug"
    <3>1. l.word # "interval" /\ l.word # "fetchinterval" /\ l.word \notin DOMAIN fieldOf
      BY <2>4, FieldNames
    <3>2. Set(b, l) = [b EXCEPT !.all = (l.value = "all")]
      BY <2>4, <3>1 DEF Set
    <3>3. CASE l.value = "all"
      <4>1. Set(b, l) = [b EXCEPT !.all = TRUE]
        BY <3>2, <3>3
      <4>2. /\ Set(b, l) \in Raw /\ Set(b, l).text = b.text /\ Set(b, l).askpass = b.askpass
            /\ Set(b, l).loopinterval = b.loopinterval /\ Set(b, l).fetchinterval = b.fetchinterval
            /\ Set(b, l).all = TRUE
        BY <4>1 DEF Raw
      <4> QED
        BY <2>1, <2>4, <3>1, <3>3, <4>2
    <3>4. CASE l.value # "all"
      <4>1. Set(b, l) = [b EXCEPT !.all = FALSE]
        BY <3>2, <3>4
      <4>2. /\ Set(b, l) \in Raw /\ Set(b, l).text = b.text /\ Set(b, l).askpass = b.askpass
            /\ Set(b, l).loopinterval = b.loopinterval /\ Set(b, l).fetchinterval = b.fetchinterval
            /\ Set(b, l).all = FALSE
        BY <4>1 DEF Raw
      <4> QED
        BY <2>1, <2>4, <3>1, <3>4, <4>2
    <3> QED
      BY <3>3, <3>4
  <2>5. CASE l.word \notin {"interval", "fetchinterval", "debug"}
    <3>1. Set(b, l) = b
      BY <1>3, <2>5 DEF Set
    <3> QED
      BY <2>1, <2>5, <3>1
  <2> QED
    BY <2>2, <2>3, <2>4, <2>5
<1> QED
  BY <1>2, <1>3

\* A mailbox is as the lines say.
As(box, s, i) ==
    /\ \A w \in DOMAIN fieldOf : box.text[fieldOf[w]] = Latest(s, Fitting(w, i), "")
    /\ box.loopinterval = Number(s, Settings("interval", i), 0)
    /\ box.fetchinterval = Number(s, Settings("fetchinterval", i), 0)
    /\ box.all <=> Latest(s, Settings("debug", i), "") = "all"
    /\ box.askpass = Latest(s, Asks(i), DEFAULT_ASKPASS)

\* What one more line must do to a mailbox.
Heeds(box, old, l, i) ==
    /\ \A w \in DOMAIN fieldOf :
          box.text[fieldOf[w]] = IF l \in Fitting(w, i) THEN l.value ELSE old.text[fieldOf[w]]
    /\ box.loopinterval = IF l \in Settings("interval", i) THEN atoi(l.value) ELSE old.loopinterval
    /\ box.fetchinterval =
          IF l \in Settings("fetchinterval", i) THEN atoi(l.value) ELSE old.fetchinterval
    /\ box.all <=> IF l \in Settings("debug", i) THEN l.value = "all" ELSE old.all
    /\ box.askpass = IF l \in Asks(i) THEN l.value ELSE old.askpass

\* Then the mailbox is as all the lines say.
LEMMA AsStep ==
    ASSUME NEW s \in Seq(Lines), NEW l \in Lines, NEW i, NEW old, NEW box,
           As(old, s, i), Heeds(box, old, l, i)
    PROVE  As(box, Append(s, l), i)
<1>1. \A W, d : Latest(Append(s, l), W, d) = IF l \in W THEN l.value ELSE Latest(s, W, d)
  BY LatestStep
<1>2. ASSUME NEW w \in DOMAIN fieldOf
      PROVE  box.text[fieldOf[w]] = Latest(Append(s, l), Fitting(w, i), "")
  <2>1. Latest(Append(s, l), Fitting(w, i), "") =
          IF l \in Fitting(w, i) THEN l.value ELSE Latest(s, Fitting(w, i), "")
    BY <1>1
  <2> QED
    BY <2>1 DEF As, Heeds
<1>3. box.loopinterval = Number(Append(s, l), Settings("interval", i), 0)
  <2>1. Number(Append(s, l), Settings("interval", i), 0) =
          IF l \in Settings("interval", i) THEN atoi(l.value) ELSE Number(s, Settings("interval", i), 0)
    BY NumberStep
  <2> QED
    BY <2>1 DEF As, Heeds
<1>4. box.askpass = Latest(Append(s, l), Asks(i), DEFAULT_ASKPASS)
  <2>1. Latest(Append(s, l), Asks(i), DEFAULT_ASKPASS) =
          IF l \in Asks(i) THEN l.value ELSE Latest(s, Asks(i), DEFAULT_ASKPASS)
    BY <1>1
  <2>2. /\ old.askpass = Latest(s, Asks(i), DEFAULT_ASKPASS)
        /\ box.askpass = IF l \in Asks(i) THEN l.value ELSE old.askpass
    BY DEF As, Heeds
  <2> HIDE DEF DEFAULT_ASKPASS
  <2> QED
    BY <2>1, <2>2
<1>5. box.fetchinterval = Number(Append(s, l), Settings("fetchinterval", i), 0)
  <2>1. Number(Append(s, l), Settings("fetchinterval", i), 0) =
          IF l \in Settings("fetchinterval", i) THEN atoi(l.value)
                                                ELSE Number(s, Settings("fetchinterval", i), 0)
    BY NumberStep
  <2> QED
    BY <2>1 DEF As, Heeds
<1>6. box.all <=> Latest(Append(s, l), Settings("debug", i), "") = "all"
  <2>1. Latest(Append(s, l), Settings("debug", i), "") =
          IF l \in Settings("debug", i) THEN l.value ELSE Latest(s, Settings("debug", i), "")
    BY <1>1
  <2> QED
    BY <2>1 DEF As, Heeds
<1> QED
  BY <1>2, <1>3, <1>4, <1>5, <1>6 DEF As

\* So is every mailbox.
Meant ==
    /\ \A i \in Indexes : As(mbox[i], read, i)
    /\ \A i \in Indexes : mbox[i].text["label"] # "" => i < num_mailboxes
    /\ loopinterval = Number(read, Undot("interval"), DEFAULT_LOOP)
    /\ global \in [GlobalWords -> Values \union {NONE}]
    /\ \A w \in GlobalWords : global[w] = Latest(read, Undot(w), NONE)

\* The invariant of the reading: no creator has seen a mailbox before the
\* program runs, and the settings are what the lines mean.
ConfigInv ==
    /\ phase \in {"start", "read", "nofile", "running", "exited"}
    /\ read \in Seq(Lines)
    /\ num_mailboxes \in 1 .. MAX_NUM_MAILBOXES
    /\ loopinterval \in Int
    /\ phase # "running" => mbox \in [Indexes -> Raw]
    /\ phase \in {"start", "nofile"} => read = <<>>
    /\ phase \in {"start", "nofile", "read"} => Meant

LEMMA IndexesAreInts ==
    Indexes \subseteq Int /\ NONE \notin Indexes /\ 0 \in Indexes /\ MAX_NUM_MAILBOXES \in Nat \ {0}
<1>1. MAX_NUM_MAILBOXES \in Nat \ {0} /\ NONE \notin Int
  BY ConfigAssumption
<1>2. Indexes \subseteq Int /\ 0 \in Indexes
  BY <1>1 DEF Indexes
<1> QED
  BY <1>1, <1>2

LEMMA InitMeant == ConfigInit => ConfigInv
<1> SUFFICES ASSUME ConfigInit PROVE ConfigInv
  OBVIOUS
<1>1. read = <<>> /\ phase = "start" /\ num_mailboxes = 1 /\ loopinterval = 5
  BY DEF ConfigInit, DEFAULT_LOOP
<1>2. NewBox \in Raw
  BY DEF NewBox, Raw, Values
<1>3. mbox \in [Indexes -> Raw]
  BY <1>2 DEF ConfigInit
<1>4. \A W : Places(read, W) = {}
  BY <1>1 DEF Places
<1>5. \A W, d : Latest(read, W, d) = d /\ Number(read, W, d) = d
  BY <1>4 DEF Latest, Number
<1>6. \A i \in Indexes : mbox[i] = NewBox
  BY DEF ConfigInit
<1>7. \A w \in DOMAIN fieldOf : NewBox.text[fieldOf[w]] = ""
  BY FieldNames DEF NewBox
<1>8. "label" \in DOMAIN fieldOf /\ fieldOf["label"] = "label"
  BY DEF fieldOf
<1>9. /\ NewBox.loopinterval = 0 /\ NewBox.fetchinterval = 0 /\ NewBox.all = FALSE
      /\ NewBox.askpass = DEFAULT_ASKPASS /\ NewBox.text["label"] = ""
  BY <1>7, <1>8 DEF NewBox
<1>10. Meant
  <2>1. \A i \in Indexes : As(mbox[i], read, i)
    <3>1. \A i : Latest(read, Settings("debug", i), "") = ""
      BY <1>5, Zenon
    <3>2. \A i : ~(Latest(read, Settings("debug", i), "") = "all")
      BY <3>1
    <3> QED
      BY <1>5, <1>6, <1>7, <1>9, <3>2, ZenonT(40) DEF As
  <2>2. global \in [GlobalWords -> Values \union {NONE}] /\ \A w \in GlobalWords : global[w] = NONE
    BY DEF ConfigInit
  <2> QED
    BY <1>1, <1>5, <1>6, <1>9, <2>1, <2>2, ZenonT(40) DEF Meant, DEFAULT_LOOP
<1> QED
  BY <1>1, <1>3, <1>10, IndexesAreInts DEF ConfigInv

\* A line is about one mailbox or about all of them.
LEMMA OneKind ==
    ASSUME NEW l \in Lines
    PROVE  /\ ~Dotted(l) => \A w, i : i \in Indexes => l \notin Settings(w, i)
           /\ Dotted(l) => \A w : l \notin Undot(w)
           /\ \A w, i : i # l.index => l \notin Settings(w, i)
           /\ ~IsGlobal(l) =>
                 \A w \in GlobalWords \union {"interval", "askpass"} : l \notin Undot(w)
BY IndexesAreInts DEF Settings, Undot, Dotted, IsGlobal, GlobalWords

LEMMA LineStep ==
    ASSUME ConfigInv, phase = "read", phase' = "read", NEW l \in Lines, read' = Append(read, l),
           l.index \in Indexes \union {NONE},
           GlobalSetting(l) \/ LocalSetting(l) \/ NoSetting(l)
    PROVE  ConfigInv'
<1>1. /\ read \in Seq(Lines) /\ num_mailboxes \in 1 .. MAX_NUM_MAILBOXES /\ loopinterval \in Int
      /\ mbox \in [Indexes -> Raw] /\ Meant /\ read' \in Seq(Lines)
      /\ \A i \in Indexes : mbox[i] \in Raw
  BY DEF ConfigInv
<1>2. Number(read, Undot("interval"), DEFAULT_LOOP)' =
        IF l \in Undot("interval") THEN atoi(l.value) ELSE loopinterval
  <2>1. Number(Append(read, l), Undot("interval"), DEFAULT_LOOP) =
          IF l \in Undot("interval") THEN atoi(l.value) ELSE Number(read, Undot("interval"), DEFAULT_LOOP)
    BY <1>1, NumberStep
  <2> QED
    BY <1>1, <2>1 DEF Meant
<1>3. l.value \in Values /\ atoi(l.value) \in Int
  BY ConfigAssumption DEF Values
<1>4. \A w, i : Fitting(w, i) \subseteq Settings(w, i) /\ Asks(i) \subseteq Undot("askpass")
  BY DEF Fitting, Asks
\* It is enough that the mailboxes heed the line.
<1>5. ASSUME mbox' \in [Indexes -> Raw], \A i \in Indexes : Heeds(mbox'[i], mbox[i], l, i),
             num_mailboxes' \in 1 .. MAX_NUM_MAILBOXES, num_mailboxes <= num_mailboxes',
             \A i \in Indexes : mbox'[i].text["label"] # "" => mbox[i].text["label"] # "" \/ i < num_mailboxes',
             loopinterval' = IF l \in Undot("interval") THEN atoi(l.value) ELSE loopinterval,
             \/ UNCHANGED global /\ \A w \in GlobalWords : l \notin Undot(w)
             \/ /\ l \in Undot(l.word) /\ l.word \in GlobalWords
                /\ global' = [global EXCEPT ![l.word] = l.value]
      PROVE  ConfigInv'
  <2>1. \A i \in Indexes : As(mbox[i], read, i)'
    <3>1. \A i \in Indexes : As(mbox'[i], Append(read, l), i)
      BY <1>1, <1>5, AsStep DEF Meant
    <3>2. \A i \in Indexes : As(mbox'[i], read', i)
      BY <3>1
    <3> QED
      BY <3>2
  <2>2. \A i \in Indexes : mbox'[i].text["label"] # "" => i < num_mailboxes'
    <3>1. /\ num_mailboxes \in 1 .. MAX_NUM_MAILBOXES /\ num_mailboxes' \in 1 .. MAX_NUM_MAILBOXES
          /\ num_mailboxes <= num_mailboxes'
      BY <1>1, <1>5, Zenon
    <3>2. \A i \in Indexes : i < num_mailboxes => i < num_mailboxes'
      BY <3>1, IndexesAreInts
    <3>3. \A i \in Indexes : mbox[i].text["label"] # "" => i < num_mailboxes
      BY <1>1 DEF Meant
    <3> QED
      BY <1>5, <3>2, <3>3
  <2>3. /\ global' \in [GlobalWords -> Values \union {NONE}]
        /\ \A w \in GlobalWords : global'[w] = IF l \in Undot(w) THEN l.value ELSE global[w]
    <3>1. global \in [GlobalWords -> Values \union {NONE}]
      BY <1>1 DEF Meant
    <3>2. CASE UNCHANGED global /\ \A w \in GlobalWords : l \notin Undot(w)
      BY <3>1, <3>2
    <3>3. CASE /\ l \in Undot(l.word) /\ l.word \in GlobalWords
               /\ global' = [global EXCEPT ![l.word] = l.value]
      <4>1. \A w : l \in Undot(w) => w = l.word
        BY DEF Undot
      <4> QED
        BY <1>3, <3>1, <3>3, <4>1
    <3> QED
      BY <1>5, <3>2, <3>3
  <2>4. \A w \in GlobalWords : global'[w] = Latest(Append(read, l), Undot(w), NONE)
    <3>1. \A w \in GlobalWords : global[w] = Latest(read, Undot(w), NONE)
      BY <1>1 DEF Meant
    <3>2. \A W, d : Latest(Append(read, l), W, d) = IF l \in W THEN l.value ELSE Latest(read, W, d)
      BY <1>1, LatestStep
    <3> QED
      BY <2>3, <3>1, <3>2
  <2>5. \A w \in GlobalWords : global'[w] = Latest(read', Undot(w), NONE)
    BY <2>4
  <2>6. Meant'
    BY <1>2, <1>5, <2>1, <2>2, <2>3, <2>5 DEF Meant
  <2>7. loopinterval' \in Int
    BY <1>1, <1>3, <1>5
  <2> QED
    BY <1>1, <1>5, <2>6, <2>7 DEF ConfigInv
\* A line that says nothing of a mailbox leaves it alone.
<1>6. ASSUME NEW i \in Indexes, mbox'[i] = mbox[i], \A w : l \notin Settings(w, i), l \notin Asks(i)
      PROVE  Heeds(mbox'[i], mbox[i], l, i)
  BY <1>4, <1>6 DEF Heeds
<1>7. CASE GlobalSetting(l)
  <2>1. ~Dotted(l) /\ UNCHANGED num_mailboxes
    BY <1>7 DEF GlobalSetting
  <2>2. \A w, i : i \in Indexes => l \notin Settings(w, i) /\ l \notin Fitting(w, i)
    BY <1>4, <2>1, OneKind
  <2>3. num_mailboxes' \in 1 .. MAX_NUM_MAILBOXES /\ num_mailboxes <= num_mailboxes'
    BY <1>1, <2>1
  <2>4. CASE l.word = "interval" /\ loopinterval' = atoi(l.value) /\ UNCHANGED <<mbox, global>>
    <3>1. l \in Undot("interval") /\ l \notin Undot("askpass")
      BY <2>1, <2>4 DEF Undot, Dotted
    <3>2. \A i \in Indexes : Heeds(mbox'[i], mbox[i], l, i)
      BY <1>4, <1>6, <2>2, <2>4, <3>1
    <3>3. \A i \in Indexes : mbox'[i].text["label"] # "" => mbox[i].text["label"] # "" \/ i < num_mailboxes'
      BY <2>4
    <3>4. loopinterval' = IF l \in Undot("interval") THEN atoi(l.value) ELSE loopinterval
      BY <2>4, <3>1
    <3>5. mbox' \in [Indexes -> Raw]
      BY <1>1, <2>4
    <3>6. UNCHANGED global /\ \A w \in GlobalWords : l \notin Undot(w)
      BY <2>4 DEF Undot, GlobalWords
    <3> QED
      BY <1>5, <2>3, <3>2, <3>3, <3>4, <3>5, <3>6
  <2>5. CASE l.word = "askpass" /\ Askpass(l) /\ UNCHANGED <<loopinterval, global>>
    <3>1. l \notin Undot("interval") /\ \A i : l \in Asks(i) <=> l.index \in {NONE, i}
      BY <2>1, <2>5 DEF Undot, Dotted, Asks
    <3>2. /\ mbox' \in [Indexes -> Raw]
          /\ \A i \in Indexes :
                /\ mbox'[i].text = mbox[i].text /\ mbox'[i].loopinterval = mbox[i].loopinterval
                /\ mbox'[i].fetchinterval = mbox[i].fetchinterval /\ mbox'[i].all = mbox[i].all
                /\ mbox'[i].askpass = IF l.index \in {NONE, i} THEN l.value ELSE mbox[i].askpass
      <4>1. mbox' = [i \in Indexes |-> IF l.index \in {NONE, i}
                                       THEN [mbox[i] EXCEPT !.askpass = l.value] ELSE mbox[i]]
        BY <2>5 DEF Askpass
      <4>2. \A b \in Raw : /\ [b EXCEPT !.askpass = l.value] \in Raw
                           /\ [b EXCEPT !.askpass = l.value].text = b.text
                           /\ [b EXCEPT !.askpass = l.value].loopinterval = b.loopinterval
                           /\ [b EXCEPT !.askpass = l.value].fetchinterval = b.fetchinterval
                           /\ [b EXCEPT !.askpass = l.value].all = b.all
                           /\ [b EXCEPT !.askpass = l.value].askpass = l.value
        BY <1>3 DEF Raw
      <4> QED
        BY <1>1, <4>1, <4>2
    <3>3. \A i \in Indexes : Heeds(mbox'[i], mbox[i], l, i)
      BY <2>2, <3>1, <3>2 DEF Heeds
    <3>4. \A i \in Indexes : mbox'[i].text["label"] # "" => mbox[i].text["label"] # "" \/ i < num_mailboxes'
      BY <3>2
    <3>5. loopinterval' = IF l \in Undot("interval") THEN atoi(l.value) ELSE loopinterval
      BY <2>5, <3>1
    <3>6. UNCHANGED global /\ \A w \in GlobalWords : l \notin Undot(w)
      BY <2>5 DEF Undot, GlobalWords
    <3> QED
      BY <1>5, <2>3, <3>2, <3>3, <3>4, <3>5, <3>6
  <2>6. CASE /\ l.word \in GlobalWords /\ global' = [global EXCEPT ![l.word] = l.value]
             /\ UNCHANGED <<loopinterval, mbox>>
    <3>1. l \notin Undot("interval") /\ l \notin Undot("askpass")
      BY <2>6 DEF Undot, GlobalWords
    <3>2. \A i \in Indexes : Heeds(mbox'[i], mbox[i], l, i)
      BY <1>4, <1>6, <2>2, <2>6, <3>1
    <3>3. \A i \in Indexes : mbox'[i].text["label"] # "" => mbox[i].text["label"] # "" \/ i < num_mailboxes'
      BY <2>6
    <3>4. loopinterval' = IF l \in Undot("interval") THEN atoi(l.value) ELSE loopinterval
      BY <2>6, <3>1
    <3>5. mbox' \in [Indexes -> Raw]
      BY <1>1, <2>6
    <3>6. l \in Undot(l.word) /\ l.word \in GlobalWords /\ global' = [global EXCEPT ![l.word] = l.value]
      BY <2>1, <2>6 DEF Undot, Dotted
    <3> QED
      BY <1>5, <2>3, <3>2, <3>3, <3>4, <3>5, <3>6
  <2> QED
    BY <1>7, <2>4, <2>5, <2>6 DEF GlobalSetting
<1>8. CASE LocalSetting(l)
  <2>1. /\ l.index \in Indexes /\ ~IsGlobal(l) /\ num_mailboxes' = Grow(l.index)
        /\ mbox' = (IF Dotted(l) THEN [mbox EXCEPT ![l.index] = Set(@, l)] ELSE mbox)
        /\ UNCHANGED <<loopinterval, global>>
    BY <1>8 DEF LocalSetting
  <2>2. num_mailboxes' \in 1 .. MAX_NUM_MAILBOXES /\ num_mailboxes <= num_mailboxes' /\ l.index < num_mailboxes'
    BY <1>1, <2>1, IndexesAreInts DEF Grow, Indexes
  <2>3. /\ l \notin Undot("interval") /\ \A i : l \notin Asks(i)
        /\ \A w \in GlobalWords : l \notin Undot(w)
    BY <1>4, <2>1, OneKind
  <2>4. \A i \in Indexes : i # l.index => Heeds(mbox'[i], mbox[i], l, i)
    <3>1. \A i \in Indexes : i # l.index => mbox'[i] = mbox[i]
      BY <1>1, <2>1
    <3> QED
      BY <1>6, <2>3, <3>1, OneKind
  <2>5. CASE Dotted(l)
    <3> DEFINE i == l.index
    <3>1. mbox'[i] = Set(mbox[i], l) /\ mbox' \in [Indexes -> Raw]
      BY <1>1, <2>1, <2>5, SetMeans
    <3>2. \A w : l \in Settings(w, i) <=> l.word = w
      BY <2>5 DEF Settings, Dotted
    <3>3. \A w : l \in Fitting(w, i) <=> (l.word = w /\ ~TooLong(fieldOf[w], l.value))
      BY <3>2 DEF Fitting
    <3>4. /\ \A w \in DOMAIN fieldOf : mbox'[i].text[fieldOf[w]] =
                IF l.word = w /\ ~TooLong(fieldOf[w], l.value) THEN l.value ELSE mbox[i].text[fieldOf[w]]
          /\ mbox'[i].loopinterval = IF l.word = "interval" THEN atoi(l.value) ELSE mbox[i].loopinterval
          /\ mbox'[i].fetchinterval =
                IF l.word = "fetchinterval" THEN atoi(l.value) ELSE mbox[i].fetchinterval
          /\ mbox'[i].all <=> IF l.word = "debug" THEN l.value = "all" ELSE mbox[i].all
          /\ mbox'[i].askpass = mbox[i].askpass
      BY <1>1, <2>1, <3>1, SetMeans
    <3>5. Heeds(mbox'[i], mbox[i], l, i)
      BY <2>3, <3>2, <3>3, <3>4 DEF Heeds
    <3>6. \A j \in Indexes : Heeds(mbox'[j], mbox[j], l, j)
      BY <2>4, <3>5
    <3>7. \A j \in Indexes : mbox'[j].text["label"] # "" => mbox[j].text["label"] # "" \/ j < num_mailboxes'
      BY <1>1, <2>1, <2>2
    <3>8. loopinterval' = IF l \in Undot("interval") THEN atoi(l.value) ELSE loopinterval
      BY <2>1, <2>3
    <3> QED
      BY <1>5, <2>1, <2>2, <2>3, <3>1, <3>6, <3>7, <3>8
  <2>6. CASE ~Dotted(l)
    <3>1. \A i \in Indexes : Heeds(mbox'[i], mbox[i], l, i)
      BY <1>6, <2>1, <2>3, <2>6, OneKind
    <3>2. \A i \in Indexes : mbox'[i].text["label"] # "" => mbox[i].text["label"] # "" \/ i < num_mailboxes'
      BY <2>1, <2>6
    <3>3. loopinterval' = IF l \in Undot("interval") THEN atoi(l.value) ELSE loopinterval
      BY <2>1, <2>3
    <3>4. mbox' \in [Indexes -> Raw]
      BY <1>1, <2>1, <2>6
    <3> QED
      BY <1>5, <2>1, <2>2, <2>3, <3>1, <3>2, <3>3, <3>4
  <2> QED
    BY <2>5, <2>6
<1>9. CASE NoSetting(l)
  <2>1. ~IsGlobal(l) /\ l.index = NONE /\ UNCHANGED <<num_mailboxes, mbox, loopinterval, global>>
    BY <1>9, ConfigAssumption DEF NoSetting
  <2>2. \A w, i : i \in Indexes => l \notin Settings(w, i)
    BY <2>1, IndexesAreInts DEF Settings
  <2>3. /\ l \notin Undot("interval") /\ \A i : l \notin Asks(i)
        /\ \A w \in GlobalWords : l \notin Undot(w)
    BY <1>4, <2>1, OneKind
  <2>4. \A i \in Indexes : Heeds(mbox'[i], mbox[i], l, i)
    BY <1>6, <2>1, <2>2, <2>3
  <2>5. \A i \in Indexes : mbox'[i].text["label"] # "" => mbox[i].text["label"] # "" \/ i < num_mailboxes'
    BY <2>1
  <2>6. loopinterval' = IF l \in Undot("interval") THEN atoi(l.value) ELSE loopinterval
    BY <2>1, <2>3
  <2>7. mbox' \in [Indexes -> Raw] /\ num_mailboxes' \in 1 .. MAX_NUM_MAILBOXES /\ num_mailboxes <= num_mailboxes'
    BY <1>1, <2>1
  <2> QED
    BY <1>5, <2>1, <2>3, <2>4, <2>5, <2>6, <2>7
<1> QED
  BY <1>7, <1>8, <1>9

LEMMA ConfigFrame ==
    ASSUME ConfigInv, UNCHANGED <<num_mailboxes, mbox, loopinterval, global, read>>,
           phase' \in {"start", "read", "nofile", "running", "exited"},
           phase' \in {"start", "nofile", "read"} => phase \in {"start", "nofile"} \/ phase' = phase,
           phase = "running" => phase' = "running"
    PROVE  ConfigInv'
BY DEF ConfigInv, Meant

LEMMA ConfigStep == ConfigInv /\ [ConfigNext]_configVars => ConfigInv'
<1> SUFFICES ASSUME ConfigInv, [ConfigNext]_configVars PROVE ConfigInv'
  OBVIOUS
<1>1. CASE FindFile
  BY <1>1, ConfigFrame DEF FindFile
<1>2. CASE NextLine
  <2>1. PICK l \in Lines :
          /\ read' = Append(read, l)
          /\ IF l.word # "" /\ l.index \notin Indexes \union {NONE}
             THEN phase' = "exited" /\ UNCHANGED <<num_mailboxes, mbox, loopinterval, global>>
             ELSE phase' = "read" /\ (GlobalSetting(l) \/ LocalSetting(l) \/ NoSetting(l))
    BY <1>2 DEF NextLine
  <2>2. phase = "read"
    BY <1>2 DEF NextLine
  <2>3. CASE l.word # "" /\ l.index \notin Indexes \union {NONE}
    <3>1. read' = Append(read, l) /\ read \in Seq(Lines)
      BY <2>1 DEF ConfigInv
    <3>2. read' \in Seq(Lines)
      BY <3>1
    <3> QED
      BY <2>1, <2>2, <2>3, <3>2 DEF ConfigInv
  <2>4. CASE ~ (l.word # "" /\ l.index \notin Indexes \union {NONE})
    <3>1. l.index \in Indexes \union {NONE}
      BY <2>4, ConfigAssumption
    <3> QED
      BY <2>1, <2>2, <2>4, <3>1, LineStep
  <2> QED
    BY <2>3, <2>4
<1>3. CASE EndOfFile
  BY <1>3 DEF EndOfFile, ConfigInv
<1>4. CASE DefaultBox
  BY <1>4 DEF DefaultBox, ConfigInv
<1>5. CASE UNCHANGED configVars
  BY <1>5 DEF configVars, ConfigInv, Meant
<1> QED
  BY <1>1, <1>2, <1>3, <1>4, <1>5 DEF ConfigNext

LEMMA ConfigAlways == ConfigSpec => []ConfigInv
BY InitMeant, ConfigStep, PTL DEF ConfigSpec

\* However the lines about several mailboxes and about all are mixed, each string,
\* interval, level of debugging and askpass program of each mailbox, and each
\* setting of the whole program, is what the last good line about it says, where an
\* "askpass" with a dot says nothing: Read_Config_File.
THEOREM SettingsSafety == ConfigSpec => []LastLineWins
<1>1. ASSUME ConfigInv, phase = "read" PROVE LastLineWins
  <2>1. read \in Seq(Lines) /\ Meant
    BY <1>1 DEF ConfigInv
  <2>2. ASSUME NEW i \in Indexes
        PROVE  /\ \A w \in DOMAIN fieldOf : mbox[i].text[fieldOf[w]] = Written(w, i)
               /\ mbox[i].loopinterval = OwnInterval(i)
               /\ mbox[i].fetchinterval = OwnNumber("fetchinterval", i)
               /\ mbox[i].all <=> Last(About("debug", i), "") = "all"
               /\ mbox[i].askpass = AskpassOf(i)
    <3>1. As(mbox[i], read, i)
      BY <2>1 DEF Meant
    <3> QED
      BY <2>1, <3>1, Meaning DEF As, OwnInterval
  <2>3. /\ \A w \in GlobalWords : global[w] = Last(Undotted(w), NONE)
        /\ loopinterval = GlobalInterval
    BY <2>1, Meaning DEF Meant
  <2> QED
    BY <2>2, <2>3 DEF LastLineWins
<1>2. ConfigInv => LastLineWins
  BY <1>1 DEF LastLineWins
<1> QED
  BY <1>2, ConfigAlways, PTL

-----------------------------------------------------------------------------
(* What the creators make of a mailbox.                                     *)

Tls == {"pop3s", "imaps", "sslimap"}
Refusable == {"pop3", "pop3s", "imap", "imaps", "sslimap"}
ShowsHeaders(box) == \E f \in {"action", "fetchcmd", "button2"} : box.text[f] = "msglst"

Members == {"text", "loopinterval", "fetchinterval", "all", "askpass", "checkMail", "dossl",
            "wantCacheHeaders"}

\* new is what becomes of a mailbox with a label.
Created(new, old) ==
    /\ DOMAIN new = Members /\ "label" \in DOMAIN new.text
    /\ new.text["label"] # "" =>
          /\ new.text["label"] = old.text["label"]
          /\ new.checkMail # NONE
          /\ new.wantCacheHeaders <=> (new.checkMail = "imap_checkmail" /\ ShowsHeaders(old))
          /\ Letters(old.text["path"]) # "ssl" => (new.dossl <=> Scheme(old.text["path"]) \in Tls)
    /\ new.text["label"] = "" =>
          /\ Scheme(old.text["path"]) \in Refusable
          /\ new.checkMail = NONE
    /\ new.loopinterval = old.loopinterval

LEMMA TextFields ==
    "label" \in Fields /\ "path" \in Fields /\ {"action", "fetchcmd", "button2"} \subseteq Fields
<1>1. {"label", "path", "action", "fetchcmd", "buttontwo"} \subseteq DOMAIN fieldOf
  BY DEF fieldOf
<1>2. /\ fieldOf["label"] = "label" /\ fieldOf["path"] = "path" /\ fieldOf["action"] = "action"
      /\ fieldOf["fetchcmd"] = "fetchcmd" /\ fieldOf["buttontwo"] = "button2"
  BY DEF fieldOf
<1> QED
  BY <1>1, <1>2, FieldNames

LEMMA NoneIsNoChecker == NONE \notin Checkers
BY ConfigAssumption

LEMMA Pop3Created ==
    ASSUME NEW b \in Raw, b.text["label"] # "", Scheme(b.text["path"]) \in {"pop3", "pop3s"}
    PROVE  Created(pop3Create(b), b)
<1> DEFINE path == b.text["path"]
           new == pop3Create(b)
<1>1. CASE Letters(path) = "lower" /\ WellFormed(path, Relax) /\ ~(Relax /\ Scheme(path) = "pop3s")
  <2>1. new = [b EXCEPT !.checkMail = "pop3CheckMail", !.dossl = Scheme(path) = "pop3s"]
    BY <1>1 DEF pop3Create
  <2>2. /\ new.text = b.text /\ new.checkMail = "pop3CheckMail" /\ new.loopinterval = b.loopinterval
        /\ new.wantCacheHeaders = FALSE /\ new.dossl = (Scheme(path) = "pop3s")
        /\ DOMAIN new = Members /\ "label" \in DOMAIN new.text
    BY <2>1, TextFields DEF Raw, Members
  <2>3. NONE # "pop3CheckMail" /\ b.text["label"] # ""
    BY NoneIsNoChecker DEF Checkers
  <2>4. new.dossl <=> Scheme(path) \in Tls
    BY <2>2 DEF Tls
  <2>5. new.wantCacheHeaders <=> (new.checkMail = "imap_checkmail" /\ ShowsHeaders(b))
    BY <2>2
  <2> QED
    BY <2>2, <2>3, <2>4, <2>5 DEF Created
<1>2. CASE ~ (Letters(path) = "lower" /\ WellFormed(path, Relax) /\ ~(Relax /\ Scheme(path) = "pop3s"))
  <2>1. new = [b EXCEPT !.text["label"] = ""]
    BY <1>2 DEF pop3Create
  <2>2. /\ new.text["label"] = "" /\ new.checkMail = NONE /\ new.loopinterval = b.loopinterval
        /\ DOMAIN new = Members /\ "label" \in DOMAIN new.text
    BY <2>1, TextFields DEF Raw, Members
  <2> QED
    BY <2>2 DEF Created, Refusable
<1> QED
  BY <1>1, <1>2

LEMMA ImapCreated ==
    ASSUME NEW b \in Raw, b.text["label"] # "", Scheme(b.text["path"]) \in {"imap", "imaps", "sslimap"}
    PROVE  Created(imap4Create(b), b)
<1> DEFINE path == b.text["path"]
           new == imap4Create(b)
           found == Letters(path) = "lower" \/ (Letters(path) = "ssl" /\ Scheme(path) = "sslimap")
           tls == Scheme(path) # "imap" /\ Letters(path) = "lower"
           made == [b EXCEPT !.dossl = tls, !.text["path"] = Rest(path)]
<1>1. /\ made.text = [b.text EXCEPT !["path"] = Rest(path)] /\ made.text["label"] = b.text["label"]
      /\ made.checkMail = NONE /\ made.loopinterval = b.loopinterval /\ made.dossl = tls
      /\ DOMAIN made = Members /\ DOMAIN made.text = Fields
  BY TextFields DEF Raw, Members
<1>2. CASE found /\ WellFormed(path, Relax)
  <2>1. new = [made EXCEPT !.checkMail = "imap_checkmail", !.wantCacheHeaders = ShowsHeaders(b)]
    BY <1>2 DEF imap4Create, ShowsHeaders
  <2>2. /\ new.text["label"] = b.text["label"] /\ new.checkMail = "imap_checkmail"
        /\ new.loopinterval = b.loopinterval
        /\ new.wantCacheHeaders = ShowsHeaders(b) /\ new.dossl = tls
        /\ DOMAIN new = Members /\ "label" \in DOMAIN new.text
    <3> HIDE DEF made
    <3> QED
      BY <1>1, <2>1, TextFields DEF Members
  <2>3. NONE # "imap_checkmail" /\ b.text["label"] # ""
    BY NoneIsNoChecker DEF Checkers
  <2>4. Letters(path) # "ssl" => (new.dossl <=> Scheme(path) \in Tls)
    BY <1>2, <2>2 DEF Tls
  <2>5. new.wantCacheHeaders <=> (new.checkMail = "imap_checkmail" /\ ShowsHeaders(b))
    BY <2>2
  <2> QED
    BY <2>2, <2>3, <2>4, <2>5 DEF Created
<1>3. CASE ~ (found /\ WellFormed(path, Relax))
  <2>1. new = [made EXCEPT !.text["label"] = "", !.text["path"] = "INBOX"]
    BY <1>3 DEF imap4Create
  <2>2. /\ new.text["label"] = "" /\ new.checkMail = NONE /\ new.loopinterval = b.loopinterval
        /\ DOMAIN new = Members /\ "label" \in DOMAIN new.text
    <3> HIDE DEF made
    <3> QED
      BY <1>1, <2>1, TextFields, ZenonT(40) DEF Members
  <2> QED
    BY <2>2 DEF Created, Refusable
<1> QED
  BY <1>2, <1>3

LEMMA OthersCreated ==
    ASSUME NEW b \in Raw, b.text["label"] # "", Scheme(b.text["path"]) \notin Refusable,
           NEW check \in Checkers, check # "imap_checkmail", NEW rest,
           NEW new, new = [b EXCEPT !.checkMail = check, !.text["path"] = rest]
    PROVE  Created(new, b)
<1>1. /\ new.text["label"] = b.text["label"] /\ new.checkMail = check
      /\ new.loopinterval = b.loopinterval /\ new.wantCacheHeaders = FALSE /\ new.dossl = FALSE
      /\ DOMAIN new = Members /\ "label" \in DOMAIN new.text
  BY TextFields DEF Raw, Members
<1> QED
  BY <1>1, NoneIsNoChecker DEF Created, Refusable, Tls

LEMMA AllCreated ==
    ASSUME NEW b \in Raw, b.text["label"] # ""
    PROVE  Created(parse_mbox_path(b), b)
<1> DEFINE kind == Scheme(b.text["path"])
           new == parse_mbox_path(b)
<1>1. CASE kind \in {"pop3", "pop3s"}
  BY <1>1, Pop3Created DEF parse_mbox_path
<1>2. CASE kind \in {"imap", "imaps", "sslimap"}
  BY <1>2, ImapCreated DEF parse_mbox_path
<1>3. CASE kind = "shell"
  <2>1. new = shellCreate(b)
    BY <1>3 DEF parse_mbox_path
  <2>2. \E rest : new = [b EXCEPT !.checkMail = "shellCmdCheck", !.text["path"] = rest]
    BY <2>1 DEF shellCreate
  <2>3. PICK rest : new = [b EXCEPT !.checkMail = "shellCmdCheck", !.text["path"] = rest]
    BY <2>2
  <2>4. kind \notin Refusable /\ "shellCmdCheck" \in Checkers /\ "shellCmdCheck" # "imap_checkmail"
    BY <1>3 DEF Refusable, Checkers
  <2> QED
    BY <2>3, <2>4, OthersCreated
<1>4. CASE kind = "maildir"
  <2>1. new = maildirCreate(b)
    BY <1>4 DEF parse_mbox_path
  <2>2. \E rest : new = [b EXCEPT !.checkMail = "maildirCheckHistory", !.text["path"] = rest]
    BY <2>1 DEF maildirCreate
  <2>3. PICK rest : new = [b EXCEPT !.checkMail = "maildirCheckHistory", !.text["path"] = rest]
    BY <2>2
  <2>4. kind \notin Refusable /\ "maildirCheckHistory" \in Checkers /\ "maildirCheckHistory" # "imap_checkmail"
    BY <1>4 DEF Refusable, Checkers
  <2> QED
    BY <2>3, <2>4, OthersCreated
<1>5. CASE kind \notin Refusable \union {"shell", "maildir"}
  <2>1. new = mboxCreate(b)
    BY <1>5 DEF parse_mbox_path, Refusable
  <2>2. \E rest : new = [b EXCEPT !.checkMail = "mboxCheckHistory", !.text["path"] = rest]
    BY <2>1 DEF mboxCreate
  <2>3. PICK rest : new = [b EXCEPT !.checkMail = "mboxCheckHistory", !.text["path"] = rest]
    BY <2>2
  <2>4. kind \notin Refusable /\ "mboxCheckHistory" \in Checkers /\ "mboxCheckHistory" # "imap_checkmail"
    BY <1>5 DEF Checkers
  <2> QED
    BY <2>3, <2>4, OthersCreated
<1> QED
  BY <1>1, <1>2, <1>3, <1>4, <1>5 DEF Refusable

\* init_biff then fills in the interval.
LEMMA IntervalFilled ==
    ASSUME NEW new, NEW old, Created(new, old)
    PROVE  /\ new.text["label"] # "" =>
                /\ WithInterval(new).text["label"] = Fitted(old.text["label"])
                /\ WithInterval(new).checkMail # NONE
                /\ WithInterval(new).wantCacheHeaders <=>
                      (WithInterval(new).checkMail = "imap_checkmail" /\ ShowsHeaders(old))
                /\ Letters(old.text["path"]) # "ssl" =>
                      (WithInterval(new).dossl <=> Scheme(old.text["path"]) \in Tls)
                /\ WithInterval(new).loopinterval =
                      IF old.loopinterval = 0 THEN loopinterval ELSE old.loopinterval
           /\ new.text["label"] = "" => WithInterval(new) = new
<1>1. new.text["label"] = "" => WithInterval(new) = new
  BY DEF WithInterval
<1>2. CASE new.text["label"] # ""
  <2> DEFINE label == Fitted(new.text["label"])
             seconds == IF new.loopinterval = 0 THEN loopinterval ELSE new.loopinterval
  <2>1. WithInterval(new) = [new EXCEPT !.text["label"] = label, !.loopinterval = seconds]
    BY <1>2 DEF WithInterval
  <2>2. DOMAIN new = Members /\ "label" \in DOMAIN new.text
    BY DEF Created
  <2> HIDE DEF label, seconds
  <2>3. /\ WithInterval(new).text["label"] = label
        /\ WithInterval(new).checkMail = new.checkMail
        /\ WithInterval(new).wantCacheHeaders = new.wantCacheHeaders
        /\ WithInterval(new).dossl = new.dossl
        /\ WithInterval(new).loopinterval = seconds
    BY <2>1, <2>2 DEF Members
  <2> QED
    BY <1>2, <2>3 DEF Created, label, seconds
<1> QED
  BY <1>1, <1>2

-----------------------------------------------------------------------------
(* The end of the file.                                                     *)

\* A mailbox is as it should be when the program runs, after the lines s.
Ready(box, s, i) ==
    LET written == [w \in DOMAIN fieldOf |-> Latest(s, Fitting(w, i), "")]
        own == Number(s, Settings("interval", i), 0)
    IN /\ box.text["label"] # "" =>
             /\ box.text["label"] = Fitted(written["label"])
             /\ box.checkMail # NONE
             /\ box.loopinterval =
                   IF own # 0 THEN own ELSE Number(s, Undot("interval"), DEFAULT_LOOP)
             /\ box.wantCacheHeaders <=>
                   /\ box.checkMail = "imap_checkmail"
                   /\ "msglst" \in {written[w] : w \in {"action", "fetchcmd", "buttontwo"}}
             /\ Letters(written["path"]) # "ssl" =>
                   (box.dossl <=> Scheme(written["path"]) \in Tls)
       /\ box.text["label"] = "" /\ written["label"] # "" =>
             /\ Scheme(written["path"]) \in Refusable
             /\ box.checkMail = NONE

\* What the end of the file makes of a mailbox.
LEMMA EndReady ==
    ASSUME ConfigInv, EndOfFile, NEW i \in Indexes
    PROVE  Ready(mbox'[i], read, i)
<1> DEFINE b == mbox[i]
           new == parse_mbox_path(b)
           written == [w \in DOMAIN fieldOf |-> Latest(read, Fitting(w, i), "")]
           own == Number(read, Settings("interval", i), 0)
<1>1. Meant /\ b \in Raw
  BY DEF ConfigInv, EndOfFile
<1>2. \A w \in DOMAIN fieldOf : b.text[fieldOf[w]] = written[w]
  BY <1>1 DEF Meant, As
<1>3. b.loopinterval = own /\ loopinterval = Number(read, Undot("interval"), DEFAULT_LOOP)
  BY <1>1 DEF Meant, As
<1> HIDE DEF written, own
<1>4. /\ b.text["label"] = written["label"] /\ b.text["path"] = written["path"]
      /\ b.text["action"] = written["action"] /\ b.text["fetchcmd"] = written["fetchcmd"]
      /\ b.text["button2"] = written["buttontwo"]
  BY <1>2 DEF fieldOf
<1>5. ShowsHeaders(b) <=> "msglst" \in {written[w] : w \in {"action", "fetchcmd", "buttontwo"}}
  BY <1>4 DEF ShowsHeaders
<1>6. b.text["label"] # "" => Fitted(b.text["label"]) # ""
  <2>1. b.text["label"] \in Values
    BY <1>1, TextFields DEF Raw
  <2>2. \A v \in Values : v # "" => Cut(v, 6) # "" /\ Cut(Padded(v, 5), 6) # ""
    BY ConfigAssumption DEF Values
  <2> QED
    BY <2>1, <2>2 DEF Fitted
<1>7. CASE b.text["label"] # ""
  <2>1. mbox'[i] = WithInterval(new)
    BY <1>1, <1>7 DEF Meant, EndOfFile
  <2>2. Created(new, b)
    BY <1>1, <1>7, AllCreated
  <2> HIDE DEF new
  <2>3. CASE new.text["label"] # ""
    <3>1. /\ mbox'[i].text["label"] = Fitted(b.text["label"])
          /\ mbox'[i].checkMail # NONE
          /\ mbox'[i].wantCacheHeaders <=> (mbox'[i].checkMail = "imap_checkmail" /\ ShowsHeaders(b))
          /\ Letters(b.text["path"]) # "ssl" => (mbox'[i].dossl <=> Scheme(b.text["path"]) \in Tls)
          /\ mbox'[i].loopinterval = IF b.loopinterval = 0 THEN loopinterval ELSE b.loopinterval
      <4>1. \A n, o : Created(n, o) /\ n.text["label"] # "" =>
                /\ WithInterval(n).text["label"] = Fitted(o.text["label"])
                /\ WithInterval(n).checkMail # NONE
                /\ WithInterval(n).wantCacheHeaders <=>
                      (WithInterval(n).checkMail = "imap_checkmail" /\ ShowsHeaders(o))
                /\ Letters(o.text["path"]) # "ssl" =>
                      (WithInterval(n).dossl <=> Scheme(o.text["path"]) \in Tls)
                /\ WithInterval(n).loopinterval = IF o.loopinterval = 0 THEN loopinterval ELSE o.loopinterval
        BY IntervalFilled, Zenon
      <4> HIDE DEF b
      <4> QED
        BY <2>1, <2>2, <2>3, <4>1, ZenonT(40)
    <3>2. mbox'[i].loopinterval =
             IF own # 0 THEN own ELSE Number(read, Undot("interval"), DEFAULT_LOOP)
      BY <1>3, <3>1
    <3> QED
      BY <1>4, <1>5, <1>7, <1>6, <3>1, <3>2 DEF Ready, written, own
  <2>4. CASE new.text["label"] = ""
    <3>1. mbox'[i] = new
      BY <2>1, <2>2, <2>4, IntervalFilled
    <3> QED
      BY <1>4, <2>2, <2>4, <3>1 DEF Ready, Created, written, own
  <2> QED
    BY <2>3, <2>4
<1>8. CASE b.text["label"] = ""
  <2>1. mbox'[i] = b
    BY <1>8 DEF EndOfFile
  <2> QED
    BY <1>4, <1>8, <2>1 DEF Ready, written, own
<1> QED
  BY <1>7, <1>8

\* Without a file no line was read, and no mailbox is to use TLS.
LEMMA DefaultPlain ==
    ASSUME ConfigInv, DefaultBox, phase' = "running"
    PROVE  \A i \in Indexes : mbox'[i].dossl = FALSE
<1>1. mbox \in [Indexes -> Raw] /\ \A i \in Indexes : mbox[i] \in Raw
  BY DEF ConfigInv, DefaultBox
<1>2. PICK spool \in Spools :
        mbox' = [mbox EXCEPT ![0] = WithInterval(mboxCreate(
                                 [@ EXCEPT !.text["label"] = "Spool", !.text["path"] = spool]))]
  BY DEF DefaultBox
<1> DEFINE spooled == [mbox[0] EXCEPT !.text["label"] = "Spool", !.text["path"] = spool]
<1>3. mbox[0] \in Raw /\ mbox'[0] = WithInterval(mboxCreate(spooled))
  BY <1>1, <1>2, IndexesAreInts
<1>4. DOMAIN spooled = Members /\ spooled.dossl = FALSE
  BY <1>3, TextFields DEF Raw, Members
<1> HIDE DEF spooled
<1>5. \E rest : mboxCreate(spooled) =
                  [spooled EXCEPT !.checkMail = "mboxCheckHistory", !.text["path"] = rest]
  BY DEF mboxCreate
<1>6. PICK rest : mboxCreate(spooled) =
                    [spooled EXCEPT !.checkMail = "mboxCheckHistory", !.text["path"] = rest]
  BY <1>5
<1>7. DOMAIN mboxCreate(spooled) = Members /\ mboxCreate(spooled).dossl = FALSE
  BY <1>4, <1>6 DEF Members
<1>8. WithInterval(mboxCreate(spooled)).dossl = FALSE
  BY <1>7 DEF WithInterval, Members
<1>9. \A i \in Indexes \ {0} : mbox'[i].dossl = FALSE
  BY <1>1, <1>2 DEF Raw
<1> QED
  BY <1>3, <1>8, <1>9

\* Either the file made the mailboxes, or the spool did.
ReadyInv ==
    /\ ConfigInv
    /\ phase = "running" =>
          \/ \A i \in Indexes : Ready(mbox[i], read, i)
          \/ read = <<>> /\ \A i \in Indexes : mbox[i].dossl = FALSE

LEMMA ReadyStep == ReadyInv /\ [ConfigNext]_configVars => ReadyInv'
<1> SUFFICES ASSUME ReadyInv, [ConfigNext]_configVars PROVE ReadyInv'
  OBVIOUS
<1>1. font' = font
  BY DEF ConfigNext, FindFile, NextLine, EndOfFile, DefaultBox, configVars
<1>3. ASSUME phase' = "running"
      PROVE  \/ \A i \in Indexes : Ready(mbox'[i], read', i)
             \/ read' = <<>> /\ \A i \in Indexes : mbox'[i].dossl = FALSE
  <2>1. CASE EndOfFile
    <3>1. read' = read
      BY <2>1 DEF EndOfFile
    <3> QED
      BY <2>1, <3>1, EndReady DEF ReadyInv
  <2>2. CASE DefaultBox
    <3>1. read' = <<>>
      BY <2>2 DEF DefaultBox, ReadyInv, ConfigInv
    <3> QED
      BY <1>3, <2>2, <3>1, DefaultPlain DEF ReadyInv
  <2>3. CASE UNCHANGED configVars
    BY <1>3, <2>3 DEF configVars, ReadyInv
  <2> QED
    BY <1>3, <2>1, <2>2, <2>3 DEF ConfigNext, FindFile, NextLine
<1>4. ASSUME phase' = "running"
      PROVE  \/ \A i \in Indexes : Ready(mbox[i], read, i)'
             \/ read' = <<>> /\ \A i \in Indexes : mbox'[i].dossl = FALSE
  <2>1. \A i \in Indexes : Ready(mbox'[i], read', i) => Ready(mbox[i], read, i)'
    BY <1>1 DEF Ready, Fitted
  <2> QED
    BY <1>3, <1>4, <2>1
<1> QED
  BY <1>4, ConfigStep DEF ReadyInv

LEMMA ReadyAlways == ConfigSpec => []ReadyInv
<1>1. ConfigInit => ReadyInv
  BY InitMeant DEF ReadyInv, ConfigInit
<1> QED
  BY <1>1, ReadyStep, PTL DEF ConfigSpec

\* Whatever the order of the lines, a mailbox that is shown has the checker of
\* its path, its own interval or the one for all, and headers fetched beforehand
\* if an IMAP one shows them; one whose path was refused is not shown: init_biff.
THEOREM ReadySafety == ConfigSpec => []BoxesAreReady
<1>1. ASSUME ReadyInv, phase = "running", read # <<>> PROVE BoxesAreReady
  <2>1. read \in Seq(Lines) /\ \A i \in Indexes : Ready(mbox[i], read, i)
    BY <1>1 DEF ReadyInv, ConfigInv
  <2>2. {"label", "path", "action", "fetchcmd", "buttontwo"} \subseteq DOMAIN fieldOf
    BY DEF fieldOf
  <2>3. /\ \A w \in DOMAIN fieldOf, i \in Indexes : Written(w, i) = Latest(read, Fitting(w, i), "")
        /\ \A i \in Indexes : OwnInterval(i) = Number(read, Settings("interval", i), 0)
        /\ GlobalInterval = Number(read, Undot("interval"), DEFAULT_LOOP)
    BY <2>1, Meaning DEF OwnInterval
  <2>4. ASSUME NEW i \in Indexes
        PROVE  LET box == mbox[i]  path == Written("path", i)
               IN IF box.text.label # ""
                  THEN /\ box.text.label = Fitted(Written("label", i))
                       /\ box.checkMail # NONE
                       /\ box.loopinterval = IF OwnInterval(i) # 0 THEN OwnInterval(i) ELSE GlobalInterval
                       /\ box.wantCacheHeaders <=>
                             /\ box.checkMail = "imap_checkmail"
                             /\ "msglst" \in {Written(w, i) : w \in {"action", "fetchcmd", "buttontwo"}}
                  ELSE Written("label", i) # "" =>
                          /\ Scheme(path) \in Refusable
                          /\ box.checkMail = NONE
    <3> DEFINE written == [w \in DOMAIN fieldOf |-> Latest(read, Fitting(w, i), "")]
    <3>1. \A w \in DOMAIN fieldOf : written[w] = Written(w, i)
      BY <2>3
    <3>2. Ready(mbox[i], read, i)
      BY <2>1
    <3>3. {written[w] : w \in {"action", "fetchcmd", "buttontwo"}}
             = {Written(w, i) : w \in {"action", "fetchcmd", "buttontwo"}}
      BY <2>2, <3>1
    <3>4. written["label"] = Written("label", i) /\ written["path"] = Written("path", i)
      BY <2>2, <3>1
    <3> QED
      BY <2>3, <3>2, <3>3, <3>4 DEF Ready
  <2> QED
    BY <2>4 DEF BoxesAreReady, Refusable
<1>2. ReadyInv => BoxesAreReady
  BY <1>1 DEF BoxesAreReady
<1> QED
  BY <1>2, ReadyAlways, PTL

\* A mailbox whose path asks for TLS uses it, or is not shown, except for the
\* one spelling: the creators.
THEOREM TlsSafety == ConfigSpec => []TlsWhenAsked
<1>1. ASSUME ReadyInv, phase = "running" PROVE TlsWhenAsked
  <2>1. read \in Seq(Lines)
    BY <1>1 DEF ReadyInv, ConfigInv
  <2>2. "path" \in DOMAIN fieldOf
    BY DEF fieldOf
  <2>3. \A i \in Indexes : Written("path", i) = Latest(read, Fitting("path", i), "")
    BY <2>1, <2>2, Meaning
  <2>4. CASE \A i \in Indexes : Ready(mbox[i], read, i)
    BY <2>2, <2>3, <2>4 DEF TlsWhenAsked, Ready, Tls
  <2>5. CASE read = <<>> /\ \A i \in Indexes : mbox[i].dossl = FALSE
    <3>1. \A W : Places(read, W) = {}
      BY <2>5 DEF Places
    <3>2. \A W : Latest(read, W, "") = ""
      BY <3>1 DEF Latest
    <3>3. \A i \in Indexes : Written("path", i) = ""
      BY <2>3, <3>2
    <3>4. Scheme("") \notin {"pop3s", "imaps", "sslimap"}
      BY ConfigAssumption
    <3> QED
      BY <2>5, <3>3, <3>4 DEF TlsWhenAsked
  <2> QED
    BY <1>1, <2>4, <2>5 DEF ReadyInv
<1>2. ReadyInv => TlsWhenAsked
  BY <1>1 DEF TlsWhenAsked
<1> QED
  BY <1>2, ReadyAlways, PTL
=============================================================================
