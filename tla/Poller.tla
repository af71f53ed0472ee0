------------------------------- MODULE Poller -------------------------------
(***************************************************************************)
(* The polling loop of wmbiff: do_biff() calls periodic_mail_check(), which *)
(* visits the mailboxes in order, asks each one that is due for its counts, *)
(* redraws its row, lets it blink, starts its fetch command, and at the end *)
(* of the pass runs the global notification and chooses how long to sleep.  *)
(*                                                                         *)
(* One action is one step of one iteration of the for loop.  The mailbox's  *)
(* own check function is the environment here: whatever it leaves in the    *)
(* counters is chosen by the action that models its return.  Times are kept *)
(* relative to the loop's own idea of the current time, `curtime':          *)
(* since[i] stands for curtime - mbox[i].prevtime.                          *)
(***************************************************************************)
EXTENDS Integers, Sequences

CONSTANTS
    NumBoxes,       \* num_mailboxes
    Labelled,       \* the mailboxes that have a label; the loop skips the others
    Unusable,       \* mailboxes whose path no client accepted: checkMail is NULL
    Imap,           \* mailboxes that imap_open may push into the future
    Remote,         \* mailboxes whose check serves X events while it waits
    Blocking,       \* mailboxes whose check may never return
    LoopInterval,   \* mbox[i].loopinterval
    FetchInterval,  \* mbox[i].fetchinterval
    FetchCmd,       \* the mailboxes with a nonempty fetchcmd
    NotifyCmd,      \* the mailboxes with a nonempty notify
    Counts,         \* the <<TotalMsgs, UnreadMsgs, TextStatus>> a check may leave
    Texts, NoText,  \* what a shell command may print, and the empty TextStatus
    Classic,        \* classic_mode
    BlinkTimes,     \* BLINK_TIMES
    Backoff,        \* the 300 seconds added after a connection timed out
    IntBits,        \* width of the int Blink_Mode
    ShiftWraps,     \* does 1 << i use i modulo the width (x86) or yield 0 (ARM)?
    MaxLag          \* BOUND: clock advance is not told apart beyond this

Boxes == 0 .. NumBoxes - 1

ASSUME BoxesAssumption ==
    /\ NumBoxes \in Nat \ {0}
    /\ Labelled \subseteq Boxes
    /\ Unusable \subseteq Boxes
    /\ Imap \subseteq Remote
    /\ Remote \subseteq Blocking
    /\ Blocking \subseteq Boxes
    /\ FetchCmd \subseteq Boxes
    /\ NotifyCmd \subseteq Boxes
    /\ LoopInterval \in [Boxes -> Int]
    /\ FetchInterval \in [Boxes -> Int]

ASSUME DataAssumption ==
    /\ NoText \in Texts
    /\ Counts \subseteq Int \X Int \X Texts
    /\ Classic \in BOOLEAN

ASSUME NumbersAssumption ==
    /\ BlinkTimes \in Nat \ {0}
    /\ Backoff \in Nat
    /\ \A i \in Boxes : LoopInterval[i] + Backoff <= MaxLag /\ FetchInterval[i] <= MaxLag
    /\ IntBits \in Nat \ {0}
    /\ ShiftWraps \in BOOLEAN
    /\ MaxLag \in Nat

VARIABLES
    total, unread, text,    \* TotalMsgs, UnreadMsgs, TextStatus
    oldTotal, oldUnread,    \* OldMsgs, OldUnreadMsgs
    enabled,                \* checkMail # NULL
    since,                  \* curtime - prevtime
    sinceFetch,             \* curtime - prevfetch_time
    lag,                    \* time(0) - curtime
    blinkStat,              \* blink_stat
    blinkMode,              \* Blink_Mode, as the set of its bits
    row,                    \* what the mailbox's line of the window shows
    newMail,                \* NewMail
    sleep,                  \* the interval the last pass returned
    cur,                    \* i
    pc,                     \* where in the loop
    runs,                   \* HISTORY: the commands this pass has started
    seen                    \* HISTORY: unread count of the last check that worked

clock   == <<since, sinceFetch, lag>>
counts  == <<total, unread, text, oldTotal, oldUnread>>
screen  == <<blinkStat, blinkMode, row>>
loop    == <<cur, pc, sleep, newMail>>
vars    == <<clock, counts, screen, loop, enabled, runs, seen>>

-----------------------------------------------------------------------------
\* The row of a mailbox.

Drawn(kind, val, new) == [kind |-> kind, val |-> val, new |-> new]

Label == Drawn("label", 0, FALSE)       \* never drawn to since the window opened
Error == Drawn("XX", 0, FALSE)
Dark  == Drawn("dark", 0, FALSE)        \* the off phase of a blink

\* What blitMsgCounters draws for the given members of an mbox_t.
RenderLit(t, u, x, b) ==
    IF x # NoText THEN Drawn("text", x, u > 0)
                  ELSE Drawn("num", IF u > 0 THEN u ELSE IF Classic THEN t ELSE 0, u > 0)

Render(t, u, x, b) ==
    IF b % 2 # 0 THEN Dark ELSE RenderLit(t, u, x, b)

\* The value blink_stat starts from.
BlinkStart == 2 * BlinkTimes

\* The bits that 1 << i sets in an int of IntBits bits.  Shifting by the
\* width or more is undefined in C; ShiftWraps tells the two kinds of CPU apart.
BitAllInOne(i) == {0}
Bit(i) ==
    IF i < IntBits THEN {i} ELSE IF ShiftWraps THEN {i % IntBits} ELSE {}

\* The verdict of count_mail after a check that worked.
MailStatQuiet(t, u, ot, ou) ==                                     \* mutant
    IF u > ou /\ u > 0 /\ ot # -1 THEN 2 ELSE IF u # ou \/ t # ot THEN 1 ELSE 0
MailStat(t, u, ot, ou) ==
    IF u > ou /\ u > 0 THEN 2
    ELSE IF u < ou \/ t # ot THEN 1
    ELSE 0

-----------------------------------------------------------------------------
\* do_biff() has drawn the labels and zeroed prevtime: everything is due.
Init ==
    /\ total = [i \in Boxes |-> 0]
    /\ unread = [i \in Boxes |-> 0]
    /\ text = [i \in Boxes |-> NoText]
    /\ oldTotal = [i \in Boxes |-> -1]
    /\ oldUnread = [i \in Boxes |-> -1]
    /\ enabled = [i \in Boxes |-> i \notin Unusable]
    /\ since = LoopInterval
    /\ sinceFetch = FetchInterval
    /\ lag = 0
    /\ blinkStat = [i \in Boxes |-> 0]
    /\ blinkMode = {}
    /\ row = [i \in Boxes |-> Label]
    /\ newMail = FALSE
    /\ sleep = "none"
    /\ cur = 0
    /\ pc = "idle"
    /\ runs = <<>>
    /\ seen = [i \in Boxes |-> -1]

\* curtime = time(0).  A mailbox that is due stays due, so its age is not
\* counted any further.
SampleClock(s, f) ==
    /\ since' = [i \in Boxes |-> IF s[i] + lag < LoopInterval[i]
                                 THEN s[i] + lag ELSE LoopInterval[i]]
    /\ sinceFetch' = [i \in Boxes |-> IF f[i] + lag < FetchInterval[i]
                                      THEN f[i] + lag ELSE FetchInterval[i]]
    /\ lag' = 0

\* The next iteration of the for loop, or the code after it.
NextBox ==
    IF cur + 1 < NumBoxes THEN cur' = cur + 1 /\ pc' = "box"
                          ELSE cur' = 0 /\ pc' = "tail"

StartPass ==
    /\ pc = "idle"
    /\ SampleClock(since, sinceFetch)
    /\ pc' = "box"
    /\ newMail' = FALSE
    /\ runs' = <<>>
    /\ UNCHANGED <<counts, screen, cur, sleep, enabled, seen>>

SkipUnlabelled ==
    /\ pc = "box"
    /\ cur \notin Labelled
    /\ NextBox
    /\ UNCHANGED <<clock, counts, screen, sleep, newMail, enabled, runs, seen>>

DueAfterInterval(i) == since[i] > LoopInterval[i]                  \* mutant
Due(i) == since[i] >= LoopInterval[i]

\* curtime >= prevtime + loopinterval, and prevtime = curtime.  count_mail
\* looks at checkMail once, before it calls it.
BeginCheck ==
    /\ pc = "box"
    /\ cur \in Labelled
    /\ Due(cur)
    /\ since' = [since EXCEPT ![cur] = 0]
    /\ pc' = IF enabled[cur] THEN "check" ELSE "disabled"
    /\ UNCHANGED <<counts, screen, cur, sleep, newMail, sinceFetch, lag,
                   enabled, runs, seen>>

NotDue ==
    /\ pc = "box"
    /\ cur \in Labelled
    /\ ~Due(cur)
    /\ pc' = "after"
    /\ UNCHANGED <<clock, counts, screen, cur, sleep, newMail, enabled, runs, seen>>

\* execnotify(mbox[i].notify) and execnotify(globalnotify).  The first is
\* called for every announced mailbox; notify is an array, never NULL, so a
\* mailbox without a notify line runs the empty command.
Notify(i) == [cmd |-> "notify", box |-> i]
Fetch(i)  == [cmd |-> "fetch", box |-> i]
Global    == [cmd |-> "global", box |-> 0]

\* displayMsgCounters(i, stat) with the counters the check has just left.
DisplayMsgCounters(i, stat) ==
    /\ blinkStat' = IF stat = 2 THEN [blinkStat EXCEPT ![i] = BlinkStart]
                                ELSE blinkStat
    /\ blinkMode' = IF stat = 2 THEN blinkMode \union Bit(i) ELSE blinkMode
    /\ runs' = IF stat = 2 THEN Append(runs, Notify(i)) ELSE runs
    /\ row' = IF stat = 0 THEN row
              ELSE [row EXCEPT ![i] =
                      IF stat = -1 THEN Error
                      ELSE Render(total'[i], unread'[i], text'[i], blinkStat'[i])]

\* What periodic_mail_check does with the verdict of count_mail.
ShowVerdictEachTime(stat) ==                                       \* mutant
    /\ newMail' = (stat = 2)
    /\ DisplayMsgCounters(cur, stat)
    /\ pc' = "after"
    /\ UNCHANGED <<cur, sleep>>
ShowVerdict(stat) ==
    /\ newMail' = (newMail \/ stat = 2)
    /\ DisplayMsgCounters(cur, stat)
    /\ pc' = "after"
    /\ UNCHANGED <<cur, sleep>>

\* count_mail when the check worked and left c in the counters, then the
\* assignments to the Old members.
Record(c) ==
    /\ total' = [total EXCEPT ![cur] = c[1]]
    /\ unread' = [unread EXCEPT ![cur] = c[2]]
    /\ text' = [text EXCEPT ![cur] = c[3]]
    /\ oldTotal' = [oldTotal EXCEPT ![cur] = c[1]]
    /\ oldUnread' = [oldUnread EXCEPT ![cur] = c[2]]
    /\ seen' = [seen EXCEPT ![cur] = c[2]]
    /\ ShowVerdict(MailStat(c[1], c[2], oldTotal[cur], oldUnread[cur]))

\* count_mail when the check failed.  A failing shell check has already
\* emptied TextStatus; the other clients never set it.
ForgetKeepingOld ==                                                \* mutant
    /\ total' = [total EXCEPT ![cur] = -1]
    /\ unread' = [unread EXCEPT ![cur] = -1]
    /\ text' = [text EXCEPT ![cur] = NoText]
    /\ UNCHANGED <<oldTotal, oldUnread>>
    /\ ShowVerdict(-1)
Forget ==
    /\ total' = [total EXCEPT ![cur] = -1]
    /\ unread' = [unread EXCEPT ![cur] = -1]
    /\ text' = [text EXCEPT ![cur] = NoText]
    /\ oldTotal' = [oldTotal EXCEPT ![cur] = -1]
    /\ oldUnread' = [oldUnread EXCEPT ![cur] = -1]
    /\ ShowVerdict(-1)

\* checkMail is NULL: count_mail fails without touching the counters.
CheckDisabled ==
    /\ pc = "disabled"
    /\ ShowVerdict(-1)
    /\ SampleClock(since, sinceFetch)
    /\ UNCHANGED <<counts, enabled, seen>>

\* The check function returned 0.  A file that did not change keeps its
\* counters; it is never taken for unchanged when the last check failed.
CheckReturns ==
    /\ pc = "check"
    /\ \/ \E c \in Counts : Record(c)
       \/ oldTotal[cur] >= 0 /\ Record(<<total[cur], unread[cur], text[cur]>>)
    /\ SampleClock(since, sinceFetch)
    /\ UNCHANGED enabled

\* The check function returned a negative number.
CheckFails ==
    /\ pc = "check"
    /\ Forget
    /\ SampleClock(since, sinceFetch)
    /\ UNCHANGED <<enabled, seen>>

\* passwordFor() found no usable password: it cleared checkMail, then the
\* check failed.
CheckDisables ==
    /\ pc = "check"
    /\ cur \in Remote
    /\ enabled' = [enabled EXCEPT ![cur] = FALSE]
    /\ Forget
    /\ SampleClock(since, sinceFetch)
    /\ UNCHANGED seen

\* imap_open() met ETIMEDOUT: prevtime = time(0) + 300, then the check failed.
CheckTimesOut ==
    /\ pc = "check"
    /\ cur \in Imap
    /\ Forget
    /\ SampleClock([since EXCEPT ![cur] = -(Backoff + lag)], sinceFetch)
    /\ UNCHANGED <<enabled, seen>>

StepBlinkBelowZero ==                                              \* mutant
    /\ blinkStat' = [blinkStat EXCEPT ![cur] = @ - 1]
    /\ blinkMode' = IF blinkStat'[cur] <= 0 THEN blinkMode \ Bit(cur) ELSE blinkMode
    /\ row' = row
StepBlinkKeepingBit ==                                             \* mutant
    IF blinkStat[cur] > 0
    THEN /\ blinkStat' = [blinkStat EXCEPT ![cur] = @ - 1]
         /\ blinkMode' = blinkMode
         /\ row' = [row EXCEPT ![cur] = Render(total[cur], unread[cur], text[cur],
                                               blinkStat'[cur])]
    ELSE UNCHANGED screen
StepBlinkUndrawn ==                                                \* mutant
    IF blinkStat[cur] > 0
    THEN /\ blinkStat' = [blinkStat EXCEPT ![cur] = @ - 1]
         /\ blinkMode' = IF blinkStat'[cur] = 0 THEN blinkMode \ Bit(cur) ELSE blinkMode
         /\ row' = IF blinkStat'[cur] = 0 THEN row
                   ELSE [row EXCEPT ![cur] = Render(total[cur], unread[cur], text[cur],
                                                    blinkStat'[cur])]
    ELSE UNCHANGED screen
\* The blinking of mailbox cur: blink_stat counts down at every visit.
StepBlink ==
    IF blinkStat[cur] > 0
    THEN /\ blinkStat' = [blinkStat EXCEPT ![cur] = @ - 1]
         /\ blinkMode' = IF blinkStat'[cur] = 0 THEN blinkMode \ Bit(cur) ELSE blinkMode
         /\ row' = [row EXCEPT ![cur] = Render(total[cur], unread[cur], text[cur],
                                               blinkStat'[cur])]
    ELSE UNCHANGED screen

FetchDue(i) ==
    /\ FetchInterval[i] > 0
    /\ i \in FetchCmd
    /\ sinceFetch[i] >= FetchInterval[i]

\* The rest of the iteration: blink, then start the fetch command.
BlinkAndFetch ==
    /\ pc = "after"
    /\ StepBlink
    /\ IF FetchDue(cur)
       THEN /\ runs' = Append(runs, Fetch(cur))
            /\ sinceFetch' = [sinceFetch EXCEPT ![cur] = 0]
       ELSE UNCHANGED <<runs, sinceFetch>>
    /\ NextBox
    /\ UNCHANGED <<counts, since, lag, sleep, newMail, enabled, seen>>

\* After the loop: the global notification, and how long to sleep.
EndPass ==
    /\ pc = "tail"
    /\ pc' = "idle"
    /\ runs' = IF newMail THEN Append(runs, Global) ELSE runs
    /\ IF blinkMode = {}
       THEN sleep' = "long" /\ blinkStat' = [i \in Boxes |-> 0]
       ELSE sleep' = "blink" /\ blinkStat' = blinkStat
    /\ UNCHANGED <<clock, counts, blinkMode, row, cur, newMail, enabled, seen>>

\* The wall clock, which nothing reads any more once a call hangs.
Tick ==
    /\ lag < MaxLag
    /\ pc # "hung"
    /\ lag' = lag + 1
    /\ UNCHANGED <<since, sinceFetch, counts, screen, loop, enabled, runs, seen>>

\* A check that never returns: a shell command whose output does not end
\* (fgets to EOF, no timeout), a read of a socket that select() found ready for
\* an earlier byte, an askpass nobody answers, a login loop on a server that
\* keeps refusing.  wmbiff is one thread: everything stops with it.
CheckHangs ==
    /\ pc = "check"
    /\ cur \in Blocking
    /\ pc' = "hung"
    /\ UNCHANGED <<clock, counts, screen, cur, sleep, newMail, enabled, runs, seen>>

\* X events are served between passes and while a remote check waits for
\* its server.  A press on a remote mailbox may log in for its headers: the
\* login may give up on the password, never return, or, for IMAP, time out.
ServingEvents == pc = "idle" \/ (pc = "check" /\ cur \in Remote)

PopupTimesOut(i) ==
    /\ ServingEvents
    /\ i \in Imap
    /\ since' = [since EXCEPT ![i] = -(Backoff + lag)]
    /\ UNCHANGED <<sinceFetch, lag, counts, screen, loop, enabled, runs, seen>>

PopupDisables(i) ==
    /\ ServingEvents
    /\ i \in Remote
    /\ enabled' = [enabled EXCEPT ![i] = FALSE]
    /\ UNCHANGED <<clock, counts, screen, loop, runs, seen>>

PopupHangs(i) ==
    /\ ServingEvents
    /\ i \in Remote
    /\ pc' = "hung"
    /\ UNCHANGED <<clock, counts, screen, cur, sleep, newMail, enabled, runs, seen>>

\* The process is there and does nothing more.
Hung == pc = "hung" /\ UNCHANGED vars

Check == CheckDisabled \/ CheckReturns \/ CheckFails \/ CheckDisables \/ CheckTimesOut
Loop == StartPass \/ SkipUnlabelled \/ BeginCheck \/ NotDue \/ Check \/ CheckHangs
        \/ BlinkAndFetch \/ EndPass
Popup == \E i \in Boxes : PopupTimesOut(i) \/ PopupDisables(i) \/ PopupHangs(i)
Next == Loop \/ Tick \/ Popup \/ Hung

\* The loop runs on and time passes: the process is scheduled.  That a check
\* returns is not assumed: the loop's next step may be CheckHangs.  Nothing is
\* assumed of the user.
Spec == Init /\ [][Next]_vars /\ WF_vars(Loop) /\ WF_vars(Tick)
-----------------------------------------------------------------------------
\* TYPES.  Every variable stays within its type; blink_stat in particular
\* never leaves 0 .. 2 * BLINK_TIMES.
Shown == [kind : {"label", "XX", "dark", "num", "text"}, val : Int \union Texts,
          new : BOOLEAN]
Command == [cmd : {"notify", "fetch", "global"}, box : Boxes]

TypeOK ==
    /\ total \in [Boxes -> Int] /\ unread \in [Boxes -> Int]
    /\ text \in [Boxes -> Texts]
    /\ oldTotal \in [Boxes -> Int] /\ oldUnread \in [Boxes -> Int]
    /\ enabled \in [Boxes -> BOOLEAN]
    /\ since \in [Boxes -> Int] /\ sinceFetch \in [Boxes -> Int]
    /\ lag \in 0 .. MaxLag
    /\ blinkStat \in [Boxes -> 0 .. BlinkStart]
    /\ blinkMode \subseteq 0 .. IntBits - 1
    /\ row \in [Boxes -> Shown]
    /\ newMail \in BOOLEAN
    /\ sleep \in {"none", "blink", "long"}
    /\ cur \in Boxes
    /\ pc \in {"idle", "box", "check", "disabled", "after", "tail", "hung"}
    /\ runs \in Seq(Command)
    /\ seen \in [Boxes -> Int]

\* A mailbox that has only counts (no TextStatus) shows what its counters say
\* in the current phase of its blink; it shows XX only while its last check
\* failed or its check function is gone, and its bare label only before the
\* first answer.  (blitMsgCounters, count_mail: a verdict of 0 draws nothing,
\* so the verdict must never be 0 when the row is out of date.)
RowCurrent ==
    \A i \in Boxes :
        \/ row[i] = Render(total[i], unread[i], text[i], blinkStat[i])
        \/ row[i] = Error /\ (total[i] = -1 \/ ~enabled[i])
        \/ row[i] = Label /\ oldTotal[i] = -1

\* While the loop sleeps the long sleep no row is in the dark phase of a
\* blink: the user would see an empty row for 20 seconds.
NoRowLeftDark ==
    pc = "idle" /\ sleep = "long" => \A i \in Boxes : row[i] # Dark

\* Blinking is never cut short: a mailbox's blink_stat goes down one visit at
\* a time, whatever the other mailboxes do to the shared mask Blink_Mode.
BlinkRunsItsCourse ==
    [][\A i \in Boxes : blinkStat'[i] < blinkStat[i] => blinkStat'[i] = blinkStat[i] - 1]_vars

\* When a check finds more unread mail than the last check that worked, even
\* with failed checks in between, the mailbox's notify command runs and its
\* row starts to blink.
NewMailAnnounced ==
    [][\A i \in Boxes :
          seen'[i] > seen[i] /\ seen'[i] > 0 =>
              /\ runs' = Append(runs, Notify(i))
              /\ blinkStat'[i] = BlinkStart]_vars

\* A pass in which some mailbox was announced runs the global notification
\* exactly once, after everything else; any other pass does not run it.  This
\* is what the code does, for mailboxes with a notify of their own too: what
\* the manual says of those is OwnNotifyOverrides.
Ran(c) == {k \in DOMAIN runs : runs[k].cmd = c}
GlobalNotifyOnce ==
    pc = "idle" => IF Ran("notify") = {} THEN Ran("global") = {}
                                         ELSE Ran("global") = {Len(runs)}

\* "Command to be executed when new mail is received in any mailbox. Set
\* notify.n to override this option for mailbox n" (wmbiffrc.5.in:100-101): a
\* pass that runs the global notification announced a mailbox without a notify
\* of its own.
OwnNotifyOverrides ==
    pc = "idle" /\ Ran("global") # {} => \E k \in Ran("notify") : runs[k].box \notin NotifyCmd

\* Every labelled mailbox is checked again and again, whatever the checks and
\* popups of the others do, unless some call never returns or the user keeps
\* opening popups on it that time out.
Rechecked ==
    \A i \in Labelled :
        \/ []<>(pc \in {"check", "disabled"} /\ cur = i)
        \/ []<><<PopupTimesOut(i)>>_vars
        \/ <>(pc = "hung")

\* Blinking ends, and with it the fast polling of the loop, unless new mail is
\* announced again and again or some call never returns.
Announce == Len(runs') > Len(runs) /\ runs'[Len(runs')].cmd = "notify"
BlinkingEnds ==
    \/ []<>(sleep # "blink" /\ blinkMode = {})
    \/ []<><<Announce>>_vars
    \/ <>(pc = "hung")
=============================================================================
