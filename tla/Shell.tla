-------------------------------- MODULE Shell --------------------------------
(***************************************************************************)
(* ShellClient.c: a mailbox whose counts are what a command prints, from    *)
(* the start of the command to the row that shows its counts (count_mail    *)
(* and displayMsgCounters of wmbiff.c).  Children has the processes.         *)
(*                                                                         *)
(* The first line of the output is told apart as far as shellCmdCheck does; *)
(* of the lines behind it, which a popup shows, only the lengths count.     *)
(***************************************************************************)
EXTENDS Children, Integers, Sequences, SequencesExt

CONSTANTS
    Outputs,    \* what the command may print
    Modes,      \* may classic_mode be on, or off
    SUBJ_LEN    \* the length of a message's subject, with its NUL

NoText == ""

\* kind:  no first line, a number, "unable", a text, or a blank line
\* num:   the number; word: "new" or "old" if the line says so
\* text:  the text, cut at 9 characters and at the first that is not a letter
\*        or digit
\* rest:  the lengths of the other lines; whole: the last one has its newline
Output == [kind : {"none", "number", "unable", "text", "blank"}, num : Int,
           word : {"new", "old", NoText}, text : STRING, rest : Seq(Nat), whole : BOOLEAN]

ASSUME ShellAssumption ==
    /\ Outputs \subseteq Output
    /\ Modes \subseteq BOOLEAN
    /\ SUBJ_LEN \in Nat \ {0}

VARIABLES
    classic,        \* classic_mode: never changes
    purpose,        \* why a command runs: for a "check", or for a "path"
    out,            \* what it printed
    allbuf,         \* static in grabCommandOutput: what it was left with
    text, detail,   \* TextStatus and u.shell.detail
    total, unread, oldMsgs, oldUnread,      \* the members of mbox_t
    row             \* what is on the screen

counters == <<text, detail, total, unread, oldMsgs, oldUnread, row>>
vars == <<classic, childVars, purpose, out, allbuf, counters>>

NoOutput == [kind |-> "none", num |-> 0, word |-> NoText, text |-> NoText, rest |-> <<>>, whole |-> TRUE]
Blank == [text |-> "blank", new |-> FALSE, number |-> 0]
NUL == "0"
XX == [text |-> "XX", new |-> FALSE, number |-> 0]

\* The process image after exec: shellCreate, and an empty window.
Fresh ==
    /\ purpose' = "check" /\ out' = NoOutput
    /\ allbuf' = <<>>
    /\ text' = NoText /\ detail' = <<>>
    /\ total' = 0 /\ unread' = 0 /\ oldMsgs' = -1 /\ oldUnread' = -1
    /\ row' = Blank

Init ==
    /\ classic \in Modes
    /\ ChildrenInit
    /\ purpose = "check" /\ out = NoOutput
    /\ allbuf = <<>>
    /\ text = NoText /\ detail = <<>>
    /\ total = 0 /\ unread = 0 /\ oldMsgs = -1 /\ oldUnread = -1
    /\ row = Blank

-----------------------------------------------------------------------------
(* The headers.                                                             *)

\* The characters behind the first line, a newline after each line.
Characters(o) ==
    LET lines == FlattenSeq([k \in DOMAIN o.rest |-> [j \in 1 .. o.rest[k] |-> "c"] \o <<"\n">>])
    IN IF o.whole THEN lines ELSE SubSeq(lines, 1, Len(lines) - 1)

\* What allbuf holds when fread has put the characters in: nothing ends them,
\* only the first byte was cleared.  Outputs are shorter than the buffer.
Overlay(chars) ==
    LET cleared == IF allbuf = <<>> THEN <<>> ELSE <<NUL>> \o Tail(allbuf)
    IN chars \o SubSeq(cleared, Len(chars) + 1, Len(cleared))

\* A buffer taken for a string.
String(buf) ==
    LET ends == {k \in DOMAIN buf : buf[k] = NUL}
    IN SubSeq(buf, 1, IF ends = {} THEN Len(buf) ELSE Min(ends) - 1)

\* The loop of shell_getHeaders over one character.  The character after the
\* longest subject is taken for the end of its line.
TakeKeeping(s, ch) ==                                              \* mutant
    IF s.len = SUBJ_LEN - 1
    THEN [heads |-> <<s.len>> \o s.heads, len |-> IF ch = "\n" THEN 0 ELSE 1]
    ELSE IF ch = "\n" THEN [heads |-> Append(s.heads, s.len), len |-> 0]
                      ELSE [s EXCEPT !.len = @ + 1]
Take(s, ch) ==
    IF s.len = SUBJ_LEN - 1 \/ ch = "\n"
    THEN [heads |-> <<s.len>> \o s.heads, len |-> 0]
    ELSE [s EXCEPT !.len = @ + 1]

\* The subjects of the list; the last line comes first.  A line that is not
\* finished is read beyond its end, which is not modelled.
shell_getHeaders(chars) == FoldLeft(Take, [heads |-> <<>>, len |-> 0], chars).heads

-----------------------------------------------------------------------------
(* The check.                                                               *)

\* blitMsgCounters.
Shown(t, tot, new) ==
    [text |-> t, new |-> new > 0,
     number |-> IF t # NoText THEN 0
                ELSE IF new > 0 THEN new ELSE IF classic THEN tot ELSE 0]

\* count_mail and displayMsgCounters, after a check that failed, ...
Failed ==
    /\ total' = -1 /\ unread' = -1 /\ oldMsgs' = -1 /\ oldUnread' = -1
    /\ row' = XX
    /\ UNCHANGED text

CountedUnreadOnly(t, tot, new) ==                                  \* mutant
    /\ text' = t /\ total' = tot /\ unread' = new
    /\ oldMsgs' = tot /\ oldUnread' = new
    /\ row' = IF new # oldUnread THEN Shown(t, tot, new) ELSE row
\* ... and after one that gave text t and these counts.
Counted(t, tot, new) ==
    /\ text' = t /\ total' = tot /\ unread' = new
    /\ oldMsgs' = tot /\ oldUnread' = new
    /\ row' = IF \/ new > oldUnread /\ new > 0
                 \/ new < oldUnread \/ tot # oldMsgs
              THEN Shown(t, tot, new) ELSE row

\* shellCmdCheck: what it makes of the first line.
Judge(o) ==
    CASE o.kind = "number" -> IF o.word = "new" THEN Counted(NoText, 0, o.num)
                                                ELSE Counted(NoText, o.num, 0)
      [] o.kind = "text" -> Counted(o.text, -1, IF o.word = "new" THEN 1 ELSE 0)
      [] OTHER -> Failed

\* shellCmdCheck up to the fork in popen.
StartCheck ==
    /\ pc = "idle"
    /\ kind_popen("read")
    /\ purpose' = "check"
    /\ text' = NoText /\ detail' = <<>>
    /\ UNCHANGED <<classic, out, allbuf, total, unread, oldMsgs, oldUnread, row>>

CannotStart ==
    /\ pc = "idle"
    /\ kind_popenFails
    /\ out' = NoOutput
    /\ total' = -1 /\ unread' = -1 /\ oldMsgs' = -1 /\ oldUnread' = -1
    /\ text' = NoText /\ detail' = <<>>
    /\ row' = XX
    /\ UNCHANGED <<classic, purpose, allbuf>>

\* backtickExpand, for the path of some other mailbox.
StartExpand ==
    /\ pc = "idle"
    /\ kind_popen("read")
    /\ purpose' = "path"
    /\ UNCHANGED <<classic, out, allbuf, counters>>

\* grabCommandOutput: fgets and fread, to the end of the output.
Grab ==
    /\ pc = "read"
    /\ pc' = "close"
    /\ IF purpose = "check"
       THEN \E o \in Outputs : /\ out' = o
                               /\ allbuf' = Overlay(Characters(o))
                               /\ detail' = String(allbuf')
       ELSE UNCHANGED <<out, allbuf, detail>>
    /\ UNCHANGED <<classic, procs, cmd, signals, purpose, text, total, unread, oldMsgs,
                   oldUnread, row>>

Finish ==
    /\ pc = "close"
    /\ kind_pclose("idle")
    /\ IF purpose = "check" THEN Judge(out) /\ UNCHANGED detail
                            ELSE UNCHANGED counters
    /\ UNCHANGED <<classic, purpose, out, allbuf>>

\* What goes on outside this mailbox, and restarts.
Around == (Ends \/ Reap \/ InstallHandlers \/ execCommand) /\ UNCHANGED <<classic, purpose, out, allbuf, counters>>
Restart == (RestartByButton \/ RestartBySignal) /\ Fresh /\ UNCHANGED classic

Next == StartCheck \/ CannotStart \/ StartExpand \/ Grab \/ Finish \/ Around \/ Restart

Spec == Init /\ [][Next]_vars
-----------------------------------------------------------------------------
\* TYPES.
TypeOK ==
    /\ ChildrenTypeOK
    /\ classic \in Modes
    /\ purpose \in {"check", "path"}
    /\ out \in Outputs \union {NoOutput}
    /\ text \in {o.text : o \in Outputs} \union {NoText}
    /\ \A k \in DOMAIN allbuf : allbuf[k] \in {"c", "\n", NUL}
    /\ row \in [text : STRING, new : BOOLEAN, number : Int]

\* When a check is over the row tells of the number the command printed, if it is
\* one from 0 up: it is the number shown if the line has "new" in it or
\* classic_mode is on, and 0 is shown if neither is so ("the number of new mail
\* messages, if any, otherwise 0").  If the command gave neither a number nor a
\* text the row says so, whatever texts, numbers and failures went before: the
\* counts told to displayMsgCounters tell them apart.
RowIsCurrent ==
    pc = "idle" =>
        /\ out.kind = "number" /\ out.num >= 0 =>
              row = [text |-> NoText, new |-> out.word = "new" /\ out.num > 0,
                     number |-> IF out.word = "new" \/ classic THEN out.num ELSE 0]
        /\ out.kind \notin {"number", "text"} => row \in {Blank, XX}

\* shell: the command prints "an integer message count"; "if 'new' is in the first
\* line, the string or number will be displayed in yellow": when a check is over,
\* the number shown is the one the command printed.
NumbersAreShown ==
    pc = "idle" /\ out.kind = "number" /\ out.num >= 0 => row.number = out.num

ShortLines == out.whole /\ \A k \in DOMAIN out.rest : out.rest[k] < SUBJ_LEN

\* A popup shows every line behind the first, one message for each and the
\* last line first, if they are short and finished: shell_getHeaders neither
\* joins nor splits nor loses one.  In front of them it may show lines of a longer
\* output that was in the buffer before, of this mailbox or another.
HeadersAreLines ==
    ShortLines /\ pc # "read" => IsSuffix(Reverse(out.rest), shell_getHeaders(detail))
=============================================================================
