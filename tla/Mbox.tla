-------------------------------- MODULE Mbox --------------------------------
(***************************************************************************)
(* mboxClient.c: the check of a mail folder that is one file, beside the    *)
(* programs that deliver to it and read from it.                            *)
(*                                                                         *)
(* The folder is a sequence of messages; countMessages reads them as lines, *)
(* which are told apart as far as its tests tell them apart.  Every action  *)
(* of the check is one system call, with what follows it.                   *)
(***************************************************************************)
EXTENDS Integers, Sequences, SequencesExt

CONSTANTS
    Setups,     \* the surroundings: see Setup
    Kinds,      \* of messages that are delivered: see Body
    MaxMsgs,    \* BOUND: messages in the folder
    MaxTime     \* BOUND: seconds

\* sizeTells: does marking a message as read change the length of the file?
\* (A status "O" that becomes "R" does not.)
\* timing: when other programs act: see Undisturbed.
Setup == [sizeTells : BOOLEAN, timing : {"between", "growing"}]

\* Nobody delivers the message that clients keep for themselves: see Record.
ASSUME MboxAssumption == Setups \subseteq Setup /\ "imap" \notin Kinds

VARIABLES
    setup,          \* never changes
    now,            \* the clock, in seconds
    present, readable,  \* the file is there, and may be opened
    msgs,           \* the messages in it
    mtime, atime,   \* its times
    saved,          \* PCM.mtime and PCM.size
    TotalMsgs, UnreadMsgs, OldMsgs,     \* the members of mbox_t
    call,             \* the next system call of mboxCheckHistory
    actime,         \* the variable ut.actime
    startedAt,      \* HISTORY: the second of the last stat
    quiet,          \* HISTORY: nobody acted since the last check began
    blind,          \* HISTORY: that check recounted a file that was unchanged
    before          \* HISTORY: the times of the file when it began

folder == <<present, readable, msgs, mtime, atime>>
mail == <<TotalMsgs, UnreadMsgs, OldMsgs>>
mboxVars == <<setup, now, folder, saved, mail, call, actime, startedAt, quiet, blind, before>>

Times == 0 .. MaxTime

-----------------------------------------------------------------------------
(* What the file holds.                                                     *)

\* plain:  a line of text
\* empty:  no body
\* from:   text that goes on in a line beginning with "From "
\* status: text with a line that looks like a status
\* imap:   the message that POP3 and IMAP clients keep for themselves
Body(kind) ==
    CASE kind = "from" -> <<"text", "From ">>
      [] kind = "status" -> <<"text", "Status: R">>
      [] kind = "empty" -> <<>>
      [] OTHER -> <<"text">>

Lines(m) ==
    <<"From ", "text">>
    \o (IF m.kind = "imap" THEN <<"X-IMAP: ">> ELSE <<>>)
    \o <<IF m.read THEN "Status: R" ELSE "Status: O", "">>
    \o Body(m.kind) \o <<"">>

File == FlattenSeq([k \in DOMAIN msgs |-> Lines(msgs[k])])

\* The length of the file, as far as it depends on what others do.
Size == Len(msgs) * 2
        + IF setup.sizeTells THEN Cardinality({k \in DOMAIN msgs : msgs[k].read}) ELSE 0

\* The messages that count, by their places.
Genuine == {k \in DOMAIN msgs : msgs[k].kind # "imap"}
Unread == {k \in Genuine : ~msgs[k].read}

\* The message that clients keep for themselves: they may give it a status that
\* says it is read, or none.
Own == [kind : {"imap"}, read : BOOLEAN]

\* One line of the loop of countMessages.
LineAnyFrom(s, line) ==                                            \* mutant
    LET t == [s EXCEPT !.pseudo = @ \/ (s.header /\ line = "X-IMAP: ")]
    IN CASE line = "" -> [t EXCEPT !.header = FALSE]
         [] line = "From " -> [t EXCEPT !.header = TRUE, !.from = @ + 1]
         [] OTHER -> [t EXCEPT !.status = IF s.header /\ line = "Status: R" THEN @ + 1 ELSE @]
Line(s, line) ==
    LET t == [s EXCEPT !.pseudo = @ \/ (s.header /\ line = "X-IMAP: ")]
    IN CASE line = "" -> IF s.header THEN [t EXCEPT !.header = FALSE]
                                     ELSE [t EXCEPT !.start = TRUE]
         [] line = "From " ->
                [t EXCEPT !.header = s.header \/ s.start,
                          !.from = IF s.header \/ s.start THEN @ + 1 ELSE @]
         [] OTHER ->
                [t EXCEPT !.start = FALSE,
                          !.status = IF s.header /\ line = "Status: R" THEN @ + 1 ELSE @]

\* countMessages: what it makes of the lines of a file.
countMessages(lines) ==
    LET s == FoldLeft(Line, [header |-> FALSE, start |-> TRUE, pseudo |-> FALSE,
                             from |-> 0, status |-> 0], lines)
        own == IF s.from > 0 /\ s.pseudo THEN 1 ELSE 0
        from == s.from - own
        status == IF s.status > 0 THEN s.status - own ELSE 0
    IN [total |-> from, unread |-> from - status]

MboxInit ==
    /\ setup \in Setups
    /\ now = 1
    /\ present \in BOOLEAN
    /\ readable = TRUE
    /\ msgs \in {<<>>} \union {<<m>> : m \in Own}
    /\ mtime = 1 /\ atime = 1
    /\ saved = [mtime |-> 0, size |-> 0]
    /\ TotalMsgs = 0 /\ UnreadMsgs = 0 /\ OldMsgs = -1
    /\ call = "idle"
    /\ actime = 0
    /\ startedAt = 0
    /\ quiet = FALSE /\ blind = FALSE
    /\ before = <<1, 1>>

-----------------------------------------------------------------------------
(* The other programs.                                                      *)

\* "between": in checks nobody acts, and only in a later second than that of
\* the last stat.  "growing": in a check, and in the second of its stat, mail
\* may arrive, and the state of a message may change if that shows in the size.
Undisturbed(grows) ==
    IF setup.timing = "growing" /\ grows THEN TRUE
    ELSE call = "idle" /\ now > startedAt

\* A write to the file.
Write(grows) ==
    /\ Undisturbed(grows)
    /\ present
    /\ mtime' = now
    /\ quiet' = FALSE
    /\ UNCHANGED <<setup, now, present, readable, saved, mail, call, actime, startedAt,
                   blind, before>>

Deliver ==
    /\ Len(msgs) < MaxMsgs
    /\ \E kind \in Kinds : msgs' = Append(msgs, [kind |-> kind, read |-> FALSE])
    /\ atime' = atime
    /\ Write(TRUE)

\* The mail reader marks a message as read, or removes it.
MarkRead ==
    /\ \E k \in DOMAIN msgs : ~msgs[k].read /\ msgs' = [msgs EXCEPT ![k].read = TRUE]
    /\ atime' = now
    /\ Write(setup.sizeTells)

Delete ==
    /\ \E k \in DOMAIN msgs : msgs' = RemoveAt(msgs, k)
    /\ atime' = now
    /\ Write(FALSE)

\* A client puts in the message it keeps for itself.
Record ==
    /\ Len(msgs) < MaxMsgs
    /\ Genuine = DOMAIN msgs
    /\ \E m \in Own : msgs' = <<m>> \o msgs
    /\ atime' = now
    /\ Write(FALSE)

Look ==
    /\ Undisturbed(FALSE)
    /\ present
    /\ atime' = now
    /\ quiet' = FALSE
    /\ UNCHANGED <<setup, now, present, readable, msgs, mtime, saved, mail, call, actime,
                   startedAt, blind, before>>

\* The file comes or goes, or its permissions change.
Replace ==
    /\ Undisturbed(FALSE)
    /\ \/ present' = ~present /\ readable' = readable
       \/ present' = present /\ readable' = ~readable
    /\ quiet' = FALSE
    /\ UNCHANGED <<setup, now, msgs, mtime, atime, saved, mail, call, actime, startedAt,
                   blind, before>>

Tick ==
    /\ now < MaxTime
    /\ now' = now + 1
    /\ UNCHANGED <<setup, folder, saved, mail, call, actime, startedAt, quiet, blind, before>>

-----------------------------------------------------------------------------
(* The check.                                                               *)

ChangedBySize == present /\ Size # saved.size                      \* mutant
\* fileHasChanged: a file that cannot be examined has not changed.
Changed == present /\ (mtime # saved.mtime \/ Size # saved.size)

\* The stat, and the decision it leads to.  If the file has not changed
\* ut.actime is not set.
Stat ==
    /\ call = "idle"
    /\ IF Changed
       THEN saved' = [mtime |-> mtime, size |-> Size] /\ actime' = atime
       ELSE saved' = saved /\ actime' \in Times
    /\ IF Changed \/ OldMsgs < 0
       THEN call' = "open" /\ OldMsgs' = OldMsgs
       ELSE call' = "idle" /\ OldMsgs' = TotalMsgs
    /\ startedAt' = now /\ quiet' = TRUE
    /\ blind' = (~Changed /\ OldMsgs < 0)
    /\ before' = <<mtime, atime>>
    /\ UNCHANGED <<setup, now, folder, TotalMsgs, UnreadMsgs>>

\* openMailbox; mboxCheckHistory does not look at whether it worked.
Open ==
    /\ call = "open"
    /\ IF present /\ readable
       THEN call' = "read" /\ UNCHANGED <<TotalMsgs, UnreadMsgs>>
       ELSE call' = "utime" /\ TotalMsgs' = -1 /\ UnreadMsgs' = -1
    /\ UNCHANGED <<setup, now, folder, saved, OldMsgs, actime, startedAt, quiet, blind, before>>

\* Reading may set the access time.
Read ==
    /\ call = "read"
    /\ TotalMsgs' = countMessages(File).total
    /\ UnreadMsgs' = countMessages(File).unread
    /\ atime' \in {atime, now}
    /\ call' = "utime"
    /\ UNCHANGED <<setup, now, present, readable, msgs, mtime, saved, OldMsgs, actime,
                   startedAt, quiet, blind, before>>

UtimeNow ==                                                        \* mutant
    /\ call = "utime"
    /\ IF present THEN mtime' = now /\ atime' = now
                  ELSE UNCHANGED <<mtime, atime>>
    /\ OldMsgs' = TotalMsgs
    /\ call' = "idle"
    /\ UNCHANGED <<setup, now, present, readable, msgs, saved, TotalMsgs, UnreadMsgs, actime,
                   startedAt, quiet, blind, before>>
\* utime, which puts back the modification time, too; count_mail then takes
\* over the counters.
Utime ==
    /\ call = "utime"
    /\ IF present THEN mtime' = saved.mtime /\ atime' = actime
                  ELSE UNCHANGED <<mtime, atime>>
    /\ OldMsgs' = TotalMsgs
    /\ call' = "idle"
    /\ UNCHANGED <<setup, now, present, readable, msgs, saved, TotalMsgs, UnreadMsgs, actime,
                   startedAt, quiet, blind, before>>

Others == Deliver \/ MarkRead \/ Delete \/ Record \/ Look \/ Replace \/ Tick
Check == Stat \/ Open \/ Read \/ Utime
MboxNext == Check \/ Others

MboxSpec == MboxInit /\ [][MboxNext]_mboxVars
-----------------------------------------------------------------------------
\* TYPES.
MboxTypeOK ==
    /\ setup \in Setups
    /\ now \in Times
    /\ present \in BOOLEAN /\ readable \in BOOLEAN
    /\ msgs \in Seq([kind : Kinds \union {"imap"}, read : BOOLEAN])
    /\ mtime \in Times /\ atime \in Times /\ actime \in Times
    /\ saved \in [mtime : Times, size : 0 .. 3 * MaxMsgs]
    /\ TotalMsgs \in -1 .. MaxMsgs /\ UnreadMsgs \in -1 .. MaxMsgs /\ OldMsgs \in -1 .. MaxMsgs
    /\ UnreadMsgs <= TotalMsgs
    /\ call \in {"idle", "open", "read", "utime"}

\* countMessages takes the clients' own message off the messages and off those
\* that are read, though it may not have been among these: if it was not, and
\* another was, it counts one message too many as unread.
Miscounted ==
    IF (\E k \in DOMAIN msgs \ Genuine : ~msgs[k].read) /\ Unread # Genuine THEN 1 ELSE 0

\* A check of a file that is there, in which nobody else acted, leaves the true
\* counts, one more unread if the clients' own message misleads it (Miscounted),
\* whatever happened during the checks before it; if the file may not be read it
\* leaves -1, or the counts of when it could.
ChecksTellTheTruth ==
    call = "idle" /\ quiet /\ present =>
        IF readable THEN /\ TotalMsgs = Cardinality(Genuine)
                         /\ UnreadMsgs = Cardinality(Unread) + Miscounted
                    ELSE TotalMsgs = -1 \/ <<mtime, Size>> = <<saved.mtime, saved.size>>

\* "The first message usually is automatically created by POP3/IMAP clients for
\* internal record keeping and is ignored": such a check leaves the number of
\* unread messages other than that one.
OwnIsIgnored ==
    call = "idle" /\ quiet /\ present /\ readable => UnreadMsgs = Cardinality(Unread)

\* "Reset atime for (at least) MUTT to work": a check in which nobody else
\* acted leaves the times of the file as they were, so mail that looks new to a
\* mail reader goes on doing so.  (A recount of an unchanged file puts back an
\* access time that was never read.)
NoTraceOfTheCheck ==
    call = "idle" /\ quiet /\ ~blind => <<mtime, atime>> = before
=============================================================================
