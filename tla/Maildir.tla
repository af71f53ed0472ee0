------------------------------- MODULE Maildir -------------------------------
(***************************************************************************)
(* maildirClient.c: the check of a maildir, step by system call, beside the *)
(* programs that deliver to it and read from it.                            *)
(*                                                                         *)
(* A directory is the number of its files and the second it last changed.   *)
(* Whether st_size tells how many files there are depends on the file       *)
(* system.                                                                 *)
(***************************************************************************)
EXTENDS Integers

CONSTANTS
    Setups,         \* the surroundings the program may be run in: see Setup
    MaxFiles,       \* BOUND: messages in new and in cur
    MaxTime         \* BOUND: seconds

\* sizeTells: does st_size of a directory change with its entries?
\* flush:     the F flag of maildir::F:path
\* timing:    when other programs change the maildir, see Undisturbed
Setup == [sizeTells : BOOLEAN, flush : BOOLEAN, timing : {"anytime", "later", "between"}]

ASSUME MaildirAssumption ==
    /\ Setups \subseteq Setup
    /\ MaxFiles \in Nat \ {0} /\ MaxTime \in Nat

Dirs == {"new", "cur"}

VARIABLES
    setup,          \* never changes
    now,            \* the clock of the file system, in seconds
    files, mtime,   \* the two directories
    present,        \* does the maildir exist and can it be read?
    savedTime, savedSize,   \* PCM.mtime_new, PCM.size_new and their cur twins;
                            \* -1 stands for the 0 of a check never made
    total, unread, oldMsgs, \* the members of mbox_t
    pc,             \* the next system call of maildirCheckHistory
    st,             \* st_new and st_cur
    counted,        \* count_new and count_cur
    changedAt,      \* HISTORY: the second of the last change by another program
    startedAt       \* HISTORY: the second the last check started

folder == <<files, mtime, present>>
saved  == <<savedTime, savedSize>>
mail   == <<total, unread, oldMsgs>>
check  == <<pc, st, counted, startedAt>>
vars   == <<setup, now, folder, saved, mail, check, changedAt>>

SizeOf(d) == IF setup.sizeTells THEN files[d] ELSE 0

NoStat == [d \in Dirs |-> [time |-> -1, size |-> -1]]

Init ==
    /\ setup \in Setups
    /\ now = 0
    /\ files \in [Dirs -> {0, 1}]
    /\ mtime = [d \in Dirs |-> 0]
    /\ present \in BOOLEAN
    /\ savedTime = [d \in Dirs |-> -1]
    /\ savedSize = [d \in Dirs |-> -1]
    /\ total = 0 /\ unread = 0 /\ oldMsgs = -1
    /\ pc = "idle"
    /\ st = NoStat
    /\ counted = [d \in Dirs |-> 0]
    /\ changedAt = 0 /\ startedAt = -1

-----------------------------------------------------------------------------
\* The other programs.  They may work at any time; or only in later seconds
\* than the one the last check started in; or, on top of that, only between
\* checks.
Undisturbed ==
    /\ setup.timing = "anytime" \/ now > startedAt
    /\ setup.timing = "between" => pc = "idle"

\* A change of a directory's entries sets its mtime.
Touch(ds) ==
    /\ Undisturbed
    /\ present
    /\ mtime' = [d \in Dirs |-> IF d \in ds THEN now ELSE mtime[d]]
    /\ changedAt' = now
    /\ UNCHANGED <<setup, now, present, saved, mail, check>>

Deliver ==
    /\ files["new"] < MaxFiles
    /\ files' = [files EXCEPT !["new"] = @ + 1]
    /\ Touch({"new"})

\* The user's mail reader moves a message from new to cur, or deletes one.
MarkRead ==
    /\ files["new"] > 0
    /\ files["cur"] < MaxFiles
    /\ files' = [files EXCEPT !["new"] = @ - 1, !["cur"] = @ + 1]
    /\ Touch(Dirs)

Delete ==
    /\ \E d \in Dirs : /\ files[d] > 0
                       /\ files' = [files EXCEPT ![d] = @ - 1]
                       /\ Touch({d})

\* The file system that holds the maildir is mounted or unmounted.
Mount ==
    /\ present' = ~present
    /\ changedAt' = now
    /\ UNCHANGED <<setup, now, files, mtime, saved, mail, check>>

Tick ==
    /\ now < MaxTime
    /\ now' = now + 1
    /\ UNCHANGED <<setup, folder, saved, mail, check, changedAt>>

Others == Deliver \/ MarkRead \/ Delete \/ Mount \/ Tick

-----------------------------------------------------------------------------
\* The check.

\* A negative return: count_mail sets all counters to -1.
Fail ==
    /\ total' = -1 /\ unread' = -1 /\ oldMsgs' = -1
    /\ pc' = "idle"
    /\ UNCHANGED <<folder, saved, st, counted, startedAt>>

\* mkstemp and unlink in new/, if the F flag asks for it (the program may
\* write there).
Start ==
    /\ pc = "idle"
    /\ pc' = "statNew"
    /\ startedAt' = now
    /\ mtime' = IF setup.flush /\ present THEN [mtime EXCEPT !["new"] = now] ELSE mtime
    /\ UNCHANGED <<setup, now, files, present, saved, mail, st, counted, changedAt>>

Stat(d, then) ==
    IF present
    THEN /\ st' = [st EXCEPT ![d] = [time |-> mtime[d], size |-> SizeOf(d)]]
         /\ pc' = then
         /\ UNCHANGED <<folder, saved, mail, counted, startedAt>>
    ELSE Fail
StatNew == pc = "statNew" /\ Stat("new", "statCur") /\ UNCHANGED <<setup, now, changedAt>>
StatCur == pc = "statCur" /\ Stat("cur", "compare") /\ UNCHANGED <<setup, now, changedAt>>

ChangedUnlessFailed ==                                             \* mutant
    \E d \in Dirs : st[d].time # savedTime[d] \/ st[d].size # savedSize[d]
\* "file was changed OR initially read"
Changed ==
    \/ \E d \in Dirs : st[d].time # savedTime[d] \/ st[d].size # savedSize[d]
    \/ oldMsgs < 0

\* Unchanged: count_mail takes the counters as they are.
Compare ==
    /\ pc = "compare"
    /\ pc' = IF Changed THEN "countNew" ELSE "idle"
    /\ oldMsgs' = IF Changed THEN oldMsgs ELSE total
    /\ UNCHANGED <<setup, now, folder, saved, total, unread, st, counted, startedAt, changedAt>>

Count(d, then) ==
    /\ counted' = [counted EXCEPT ![d] = IF present THEN files[d] ELSE -1]
    /\ pc' = then
    /\ UNCHANGED <<setup, now, folder, saved, mail, st, startedAt, changedAt>>
CountNew == pc = "countNew" /\ Count("new", "countCur")
CountCur == pc = "countCur" /\ Count("cur", "use")

\* Both counts are in: fail, or set the counters.
UseCounts ==
    /\ pc = "use"
    /\ IF \E d \in Dirs : counted[d] = -1
       THEN Fail
       ELSE /\ total' = counted["cur"] + counted["new"]
            /\ unread' = counted["new"]
            /\ pc' = "utimeNew"
            /\ UNCHANGED <<folder, saved, st, counted, startedAt, oldMsgs>>
    /\ UNCHANGED <<setup, now, changedAt>>

\* utime() puts back the times of the stat, the modification time included.
Utime(d, then) ==
    /\ mtime' = IF present THEN [mtime EXCEPT ![d] = st[d].time] ELSE mtime
    /\ pc' = then
    /\ UNCHANGED <<setup, now, files, present, saved, mail, st, counted, startedAt, changedAt>>
UtimeNew == pc = "utimeNew" /\ Utime("new", "utimeCur")
UtimeCur == pc = "utimeCur" /\ Utime("cur", "store")

\* "Store new values"; count_mail then takes over the counters.
Store ==
    /\ pc = "store"
    /\ savedTime' = [d \in Dirs |-> st[d].time]
    /\ savedSize' = [d \in Dirs |-> st[d].size]
    /\ oldMsgs' = total
    /\ pc' = "idle"
    /\ st' = NoStat
    /\ UNCHANGED <<setup, now, folder, total, unread, counted, startedAt, changedAt>>

Check == Start \/ StatNew \/ StatCur \/ Compare \/ CountNew \/ CountCur
         \/ UseCounts \/ UtimeNew \/ UtimeCur \/ Store
Next == Check \/ Others

Spec == Init /\ [][Next]_vars
-----------------------------------------------------------------------------
\* TYPES.
TypeOK ==
    /\ setup \in Setups
    /\ now \in 0 .. MaxTime
    /\ files \in [Dirs -> 0 .. MaxFiles]
    /\ mtime \in [Dirs -> 0 .. MaxTime]
    /\ present \in BOOLEAN
    /\ savedTime \in [Dirs -> -1 .. MaxTime]
    /\ savedSize \in [Dirs -> -1 .. MaxFiles]
    /\ unread \in -1 .. MaxFiles /\ total \in -1 .. 2 * MaxFiles
    /\ oldMsgs \in -1 .. 2 * MaxFiles
    /\ pc \in {"idle", "statNew", "statCur", "compare", "countNew", "countCur",
               "use", "utimeNew", "utimeCur", "store"}
    /\ st \in [Dirs -> [time : -1 .. MaxTime, size : -1 .. MaxFiles]]
    /\ counted \in [Dirs -> -1 .. MaxFiles]
    /\ changedAt \in 0 .. MaxTime /\ startedAt \in -1 .. MaxTime

\* A check that runs undisturbed and starts at least a second after the last
\* change leaves the counts of the maildir, whatever happened during the
\* checks before it; or -1 if the maildir is not there.
ChecksTellTheTruth ==
    pc = "idle" /\ changedAt < startedAt =>
        IF present THEN unread = files["new"] /\ total = files["new"] + files["cur"]
                   ELSE unread = -1
=============================================================================
