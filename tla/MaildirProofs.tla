--------------------------- MODULE MaildirProofs ---------------------------
(***************************************************************************)
(* Theorems about the check of a maildir, for any number of messages and    *)
(* any time.                                                               *)
(***************************************************************************)
EXTENDS Maildir, TLAPS

Times == 0 .. MaxTime
StatType == [Dirs -> [time : -1 .. MaxTime, size : -1 .. MaxFiles]]

\* Where a check is when it has st_new, and both st_new and st_cur.
HasCur == {"compare", "countNew", "countCur", "use", "utimeNew", "utimeCur", "store"}
HasNew == {"statCur"} \union HasCur

\* The clock: nothing happened later than now.
ClockOK ==
    /\ changedAt <= now /\ startedAt <= now
    /\ \A d \in Dirs : mtime[d] <= now
    /\ pc \in HasNew => st["new"].time \in 0 .. now
    /\ pc \in HasCur => st["cur"].time \in 0 .. now

Typed == TypeOK /\ ClockOK

LEMMA Two == Dirs = {"new", "cur"} /\ "new" \in Dirs /\ "cur" \in Dirs
BY DEF Dirs

LEMMA Numbers ==
    ASSUME Typed
    PROVE  /\ now \in Times /\ changedAt \in Times /\ startedAt \in -1 .. MaxTime
           /\ now \in Int /\ changedAt \in Int /\ startedAt \in Int
           /\ total \in Int /\ unread \in Int /\ oldMsgs \in Int
           /\ MaxTime \in Nat /\ MaxFiles \in Nat
           /\ \A d \in Dirs : /\ mtime[d] \in Int /\ savedTime[d] \in Int
                              /\ st[d].time \in Int /\ files[d] \in Nat
                              /\ counted[d] \in Int
BY MaildirAssumption DEF Typed, TypeOK, Times

LEMMA TouchTypes ==
    ASSUME Typed, NEW ds \in SUBSET Dirs, Touch(ds), files' \in [Dirs -> 0 .. MaxFiles]
    PROVE  Typed'
<1>1. mtime' \in [Dirs -> Times] /\ \A d \in Dirs : mtime'[d] <= now
  BY Numbers DEF Touch, Typed, TypeOK, ClockOK, Times
<1>2. TypeOK'
  BY <1>1 DEF Touch, Typed, TypeOK, Times, saved, mail, check
<1>3. ClockOK'
  BY <1>1, Numbers DEF Touch, Typed, ClockOK, check, HasNew, HasCur
<1> QED
  BY <1>2, <1>3 DEF Typed

LEMMA FailTypes ==
    ASSUME Typed, Fail, UNCHANGED <<setup, now, changedAt>>
    PROVE  Typed'
<1>1. UNCHANGED <<setup, now, changedAt, files, mtime, present, savedTime, savedSize, st,
                  counted, startedAt>>
  BY DEF Fail, folder, saved
<1>2. total' = -1 /\ unread' = -1 /\ oldMsgs' = -1 /\ pc' = "idle"
  BY DEF Fail
<1>3. TypeOK'
  BY <1>1, <1>2, Numbers DEF Typed, TypeOK
<1> QED
  BY <1>1, <1>2, <1>3 DEF Typed, ClockOK, HasNew, HasCur

LEMMA TypedStep == ASSUME Typed, [Next]_vars PROVE Typed'
<1> USE DEF folder, saved, mail, check
<1>1. CASE Deliver
  <2>1. files' \in [Dirs -> 0 .. MaxFiles]
    BY <1>1, Numbers, Two DEF Deliver, Typed, TypeOK
  <2> QED
    BY <1>1, <2>1, TouchTypes, Two DEF Deliver
<1>2. CASE MarkRead
  <2>1. files' \in [Dirs -> 0 .. MaxFiles]
    BY <1>2, Numbers, Two DEF MarkRead, Typed, TypeOK
  <2> QED
    BY <1>2, <2>1, TouchTypes DEF MarkRead
<1>3. CASE Delete
  <2>1. PICK d \in Dirs : files[d] > 0 /\ files' = [files EXCEPT ![d] = @ - 1] /\ Touch({d})
    BY <1>3 DEF Delete
  <2>2. files' \in [Dirs -> 0 .. MaxFiles]
    BY <2>1, Numbers DEF Typed, TypeOK
  <2> QED
    BY <2>1, <2>2, TouchTypes
<1>4. CASE Mount
  BY <1>4, Numbers DEF Mount, Typed, TypeOK, ClockOK, HasNew, HasCur
<1>5. CASE Tick
  BY <1>5, Numbers DEF Tick, Typed, TypeOK, ClockOK, HasNew, HasCur
<1>6. CASE Start
  <2>1. mtime' \in [Dirs -> Times] /\ \A d \in Dirs : mtime'[d] <= now
    BY <1>6, Numbers, Two DEF Start, Typed, TypeOK, ClockOK, Times
  <2>2. TypeOK'
    BY <1>6, <2>1, Numbers DEF Start, Typed, TypeOK, Times
  <2>3. ClockOK'
    BY <1>6, <2>1, Numbers DEF Start, Typed, ClockOK, HasNew, HasCur
  <2> QED
    BY <2>2, <2>3 DEF Typed
<1>7. ASSUME NEW d \in Dirs, NEW then \in {"statCur", "compare"}, Stat(d, then),
             then = IF d = "new" THEN "statCur" ELSE "compare",
             pc = IF d = "new" THEN "statNew" ELSE "statCur",
             UNCHANGED <<setup, now, changedAt>>
      PROVE  Typed'
  <2>1. CASE present
    <3>1. [time |-> mtime[d], size |-> SizeOf(d)] \in [time : -1 .. MaxTime, size : -1 .. MaxFiles]
      BY Numbers DEF Typed, TypeOK, SizeOf
    <3>2. st' \in StatType
      BY <1>7, <2>1, <3>1 DEF Stat, Typed, TypeOK, StatType
    <3>3. TypeOK'
      BY <1>7, <2>1, <3>2 DEF Stat, Typed, TypeOK, StatType
    <3>4. st'[d].time = mtime[d] /\ mtime[d] \in 0 .. now
          /\ \A e \in Dirs : e # d => st'[e] = st[e]
      BY <1>7, <2>1, Numbers DEF Stat, Typed, TypeOK, ClockOK, Times
    <3>5. ClockOK'
      BY <1>7, <2>1, <3>4, Two DEF Stat, Typed, ClockOK, HasNew, HasCur
    <3> QED
      BY <3>3, <3>5 DEF Typed
  <2>2. CASE ~present
    BY <1>7, <2>2, FailTypes DEF Stat
  <2> QED
    BY <2>1, <2>2
<1>8. CASE StatNew \/ StatCur
  BY <1>7, <1>8, Two DEF StatNew, StatCur
<1>9. CASE Compare
  BY <1>9, Numbers DEF Compare, Typed, TypeOK, ClockOK, HasNew, HasCur
<1>10. ASSUME NEW d \in Dirs, NEW then \in {"countCur", "use"}, Count(d, then), pc \in HasCur
       PROVE  Typed'
  <2>1. counted' \in [Dirs -> -1 .. MaxFiles]
    BY <1>10, Numbers DEF Count, Typed, TypeOK
  <2> QED
    BY <1>10, <2>1 DEF Count, Typed, TypeOK, ClockOK, HasNew, HasCur
<1>11. CASE CountNew \/ CountCur
  BY <1>10, <1>11, Two DEF CountNew, CountCur, HasCur
<1>12. CASE UseCounts
  <2>1. CASE \E d \in Dirs : counted[d] = -1
    BY <1>12, <2>1, FailTypes DEF UseCounts
  <2>2. CASE ~ \E d \in Dirs : counted[d] = -1
    <3>1. counted["new"] \in 0 .. MaxFiles /\ counted["cur"] \in 0 .. MaxFiles
      BY <2>2, Numbers, Two DEF Typed, TypeOK
    <3>2. total' \in -1 .. 2 * MaxFiles /\ unread' \in -1 .. MaxFiles
      BY <1>12, <2>2, <3>1, Numbers DEF UseCounts
    <3> QED
      BY <1>12, <2>2, <3>2 DEF UseCounts, Typed, TypeOK, ClockOK, HasNew, HasCur
  <2> QED
    BY <2>1, <2>2
<1>13. ASSUME NEW d \in Dirs, NEW then \in {"utimeCur", "store"}, Utime(d, then), pc \in HasCur
       PROVE  Typed'
  <2>1. st[d].time \in 0 .. now
    BY <1>13, Two DEF Typed, ClockOK, HasNew
  <2>2. mtime' \in [Dirs -> Times] /\ \A e \in Dirs : mtime'[e] <= now
    BY <1>13, <2>1, Numbers DEF Utime, Typed, TypeOK, ClockOK, Times
  <2> QED
    BY <1>13, <2>2 DEF Utime, Typed, TypeOK, ClockOK, Times, HasNew, HasCur
<1>14. CASE UtimeNew \/ UtimeCur
  BY <1>13, <1>14, Two DEF UtimeNew, UtimeCur, HasCur
<1>15. CASE Store
  <2>1. /\ savedTime' \in [Dirs -> -1 .. MaxTime]
        /\ savedSize' \in [Dirs -> -1 .. MaxFiles]
        /\ st' \in StatType
    BY <1>15, Numbers DEF Store, NoStat, Typed, TypeOK, StatType
  <2> QED
    BY <1>15, <2>1 DEF Store, Typed, TypeOK, ClockOK, StatType, HasNew, HasCur
<1>16. CASE UNCHANGED vars
  BY <1>16 DEF vars, Typed, TypeOK, ClockOK, HasNew, HasCur
<1> QED
  BY <1>1, <1>2, <1>3, <1>4, <1>5, <1>6, <1>8, <1>9, <1>11, <1>12, <1>14, <1>15, <1>16
     DEF Next, Check, Others

LEMMA TypedInit == ASSUME Init PROVE Typed
<1>1. TypeOK
  BY MaildirAssumption, Two DEF Init, TypeOK, NoStat
<1>2. ClockOK
  BY DEF Init, ClockOK, HasNew, HasCur
<1> QED
  BY <1>1, <1>2 DEF Typed

-----------------------------------------------------------------------------
(* A check that nobody disturbs: what it has learnt is true.               *)

\* The last change was before the second the last check started in.
Quiet == changedAt < startedAt

CountsAreRight == unread = files["new"] /\ total = files["new"] + files["cur"]
UsedCounts == {"utimeNew", "utimeCur", "store"}

CheckInv ==
    /\ Quiet /\ pc \in HasNew => present
    /\ Quiet /\ pc \in {"countCur", "use"} => counted["new"] = files["new"]
    /\ Quiet /\ pc = "use" => counted["cur"] = files["cur"]
    /\ Quiet /\ pc \in UsedCounts => CountsAreRight
    /\ ChecksTellTheTruth

\* Nothing is quiet that was just changed.
LEMMA ChangeEndsQuiet ==
    ASSUME Typed, changedAt' = now, UNCHANGED startedAt
    PROVE  ~Quiet'
BY Numbers DEF Quiet, Typed, ClockOK

LEMMA OthersEndQuiet ==
    ASSUME Typed, Deliver \/ MarkRead \/ Delete \/ Mount
    PROVE  /\ ~Quiet' /\ changedAt' = now
           /\ UNCHANGED <<setup, now, pc, st, counted, startedAt, savedTime, savedSize,
                          total, unread, oldMsgs>>
BY ChangeEndsQuiet DEF Deliver, MarkRead, Delete, Mount, Touch, saved, mail, check

LEMMA CheckStep ==
    ASSUME Typed, CheckInv, [Next]_vars,
           pc = "compare" /\ ~Changed /\ Quiet => CountsAreRight
    PROVE  CheckInv'
<1> USE DEF folder, saved, mail, check
<1>1. CASE Deliver \/ MarkRead \/ Delete \/ Mount
  BY <1>1, OthersEndQuiet DEF CheckInv, Quiet, ChecksTellTheTruth
<1>2. CASE Tick \/ UNCHANGED vars
  BY <1>2 DEF Tick, vars, CheckInv, Quiet, ChecksTellTheTruth, CountsAreRight
<1>3. CASE Start
  BY <1>3 DEF Start, CheckInv, ChecksTellTheTruth, HasNew, HasCur, UsedCounts
<1>4. ASSUME Fail, Quiet => ~present, UNCHANGED changedAt PROVE CheckInv'
  BY <1>4 DEF Fail, CheckInv, Quiet, ChecksTellTheTruth, HasNew, HasCur, UsedCounts
<1>5. CASE StatNew \/ StatCur
  <2>1. CASE present
    BY <1>5, <2>1 DEF StatNew, StatCur, Stat, CheckInv, Quiet, ChecksTellTheTruth,
                      UsedCounts
  <2>2. CASE ~present
    BY <1>4, <1>5, <2>2 DEF StatNew, StatCur, Stat
  <2> QED
    BY <2>1, <2>2
<1>6. CASE Compare
  <2>1. UNCHANGED <<files, present, total, unread, startedAt, changedAt>>
    BY <1>6 DEF Compare
  <2>2. pc = "compare" /\ pc' = IF Changed THEN "countNew" ELSE "idle"
    BY <1>6 DEF Compare
  <2>3. CASE Changed
    BY <2>1, <2>2, <2>3 DEF CheckInv, Quiet, ChecksTellTheTruth, HasNew, HasCur, UsedCounts
  <2>4. CASE ~Changed
    BY <2>1, <2>2, <2>4 DEF CheckInv, Quiet, ChecksTellTheTruth, CountsAreRight,
                            HasNew, HasCur, UsedCounts
  <2> QED
    BY <2>3, <2>4
<1>7. CASE CountNew
  BY <1>7, Two DEF CountNew, Count, Typed, TypeOK, CheckInv, Quiet, ChecksTellTheTruth,
                   HasNew, HasCur, UsedCounts
<1>8. CASE CountCur
  BY <1>8, Two DEF CountCur, Count, Typed, TypeOK, CheckInv, Quiet, ChecksTellTheTruth,
                   HasNew, HasCur, UsedCounts
<1>9. CASE UseCounts
  <2>1. CASE \E d \in Dirs : counted[d] = -1
    <3>1. ~Quiet
      BY <1>9, <2>1, Numbers, Two DEF UseCounts, CheckInv
    <3> QED
      BY <1>4, <1>9, <2>1, <3>1 DEF UseCounts
  <2>2. CASE ~ \E d \in Dirs : counted[d] = -1
    BY <1>9, <2>2, Numbers, Two
       DEF UseCounts, CheckInv, Quiet, ChecksTellTheTruth, CountsAreRight, HasNew, HasCur,
           UsedCounts
  <2> QED
    BY <2>1, <2>2
<1>10. CASE UtimeNew \/ UtimeCur \/ Store
  BY <1>10 DEF UtimeNew, UtimeCur, Utime, Store, CheckInv, Quiet, ChecksTellTheTruth,
               CountsAreRight, HasNew, HasCur, UsedCounts
<1> QED
  BY <1>1, <1>2, <1>3, <1>5, <1>6, <1>7, <1>8, <1>9, <1>10 DEF Next, Check, Others

LEMMA CheckInit == ASSUME Init PROVE CheckInv
BY DEF Init, CheckInv, Quiet, ChecksTellTheTruth, HasNew, HasCur, UsedCounts

-----------------------------------------------------------------------------
(* With the F flag the file made in new/ gives the directory the second the *)
(* check started in, a second in which a quiet maildir was never changed.   *)

\* Nothing of new/ is later than the last change or the start of the check.
Bounded(t) == t <= changedAt \/ t <= startedAt

FlushInv ==
    /\ Typed /\ CheckInv
    /\ setup.flush = TRUE
    /\ Bounded(mtime["new"]) /\ Bounded(savedTime["new"])
    /\ pc \in HasNew => Bounded(st["new"].time)
    /\ Quiet /\ present /\ pc = "statNew" => mtime["new"] = startedAt
    /\ Quiet /\ pc \in HasNew => st["new"].time = startedAt
    /\ changedAt < savedTime["new"] /\ oldMsgs >= 0 => CountsAreRight

LEMMA FlushStep == ASSUME FlushInv, [Next]_vars PROVE FlushInv'
<1> USE DEF folder, saved, mail, check
<1>1. Typed /\ Typed' /\ CheckInv /\ setup.flush = TRUE
  BY TypedStep DEF FlushInv
<1>2. CheckInv'
  <2>1. ASSUME pc = "compare", ~Changed, Quiet PROVE CountsAreRight
    <3>1. st["new"].time = startedAt /\ st["new"].time = savedTime["new"] /\ oldMsgs >= 0
      BY <2>1, <1>1, Numbers, Two DEF FlushInv, Changed, HasNew, HasCur
    <3> QED
      BY <2>1, <3>1 DEF FlushInv, Quiet
  <2> QED
    BY <1>1, <2>1, CheckStep
<1>3. CASE Deliver \/ MarkRead \/ Delete \/ Mount
  <2>1. ~Quiet' /\ changedAt' = now
        /\ UNCHANGED <<setup, now, pc, st, startedAt, savedTime, oldMsgs>>
    BY <1>1, <1>3, OthersEndQuiet
  <2>2. savedTime["new"] <= now /\ mtime'["new"] <= now
        /\ (pc \in HasNew => st["new"].time <= now)
    BY <1>1, <2>1, Numbers, Two DEF FlushInv, Typed, ClockOK, Bounded
  <2> QED
    BY <1>1, <1>2, <2>1, <2>2, Numbers, Two DEF FlushInv, Bounded
<1>4. CASE Tick \/ UNCHANGED vars
  BY <1>1, <1>2, <1>4 DEF Tick, vars, FlushInv, Bounded, Quiet, CountsAreRight
<1>5. CASE Start
  <2>1. startedAt' = now /\ UNCHANGED <<setup, changedAt, savedTime, total, unread, oldMsgs, files>>
        /\ pc' = "statNew"
    BY <1>5 DEF Start
  <2>2. mtime'["new"] <= now /\ (present' => mtime'["new"] = now)
    BY <1>1, <1>5, Two DEF Start, Typed, TypeOK, ClockOK
  <2>3. Bounded(savedTime["new"])'
    BY <1>1, <2>1, Numbers, Two DEF FlushInv, Typed, ClockOK, Bounded
  <2> QED
    BY <1>1, <1>2, <2>1, <2>2, <2>3 DEF FlushInv, Bounded, CountsAreRight, HasNew, HasCur
<1>6. ASSUME Fail, UNCHANGED <<setup, now, changedAt>> PROVE FlushInv'
  BY <1>1, <1>2, <1>6 DEF Fail, FlushInv, Bounded, Quiet, HasNew, HasCur
<1>7. CASE StatNew
  <2>1. CASE present
    <3>1. st'["new"].time = mtime["new"]
      BY <1>1, <1>7, <2>1, Two DEF StatNew, Stat, Typed, TypeOK
    <3> QED
      BY <1>1, <1>2, <1>7, <2>1, <3>1 DEF StatNew, Stat, FlushInv, Bounded, Quiet,
                                          CountsAreRight
  <2>2. CASE ~present
    BY <1>6, <1>7, <2>2 DEF StatNew, Stat
  <2> QED
    BY <2>1, <2>2
<1>8. CASE StatCur
  <2>1. CASE present
    <3>1. st'["new"] = st["new"]
      BY <1>1, <1>8, <2>1, Two DEF StatCur, Stat, Typed, TypeOK
    <3> QED
      BY <1>1, <1>2, <1>8, <2>1, <3>1 DEF StatCur, Stat, FlushInv, Bounded, Quiet,
                                          CountsAreRight, HasNew
  <2>2. CASE ~present
    BY <1>6, <1>8, <2>2 DEF StatCur, Stat
  <2> QED
    BY <2>1, <2>2
<1>9. CASE Compare
  <2>1. UNCHANGED <<setup, now, files, mtime, present, savedTime, total, unread, st,
                    startedAt, changedAt>>
    BY <1>9 DEF Compare
  <2>2. CASE Changed
    <3>1. pc = "compare" /\ pc' = "countNew" /\ oldMsgs' = oldMsgs
      BY <1>9, <2>2 DEF Compare
    <3> QED
      BY <1>1, <1>2, <2>1, <3>1 DEF FlushInv, Bounded, Quiet, CountsAreRight, HasNew, HasCur
  <2>3. CASE ~Changed
    <3>1. oldMsgs >= 0
      BY <1>1, <2>3, Numbers DEF Changed
    <3>2. pc' = "idle"
      BY <1>9, <2>3 DEF Compare
    <3> QED
      BY <1>1, <1>2, <2>1, <3>1, <3>2 DEF FlushInv, Bounded, Quiet, CountsAreRight,
                                          HasNew, HasCur
  <2> QED
    BY <2>2, <2>3
<1>10. CASE CountNew \/ CountCur
  BY <1>1, <1>2, <1>10 DEF CountNew, CountCur, Count, FlushInv, Bounded, Quiet,
                           CountsAreRight, HasNew, HasCur
<1>11. CASE UseCounts
  <2>1. CASE \E d \in Dirs : counted[d] = -1
    BY <1>6, <1>11, <2>1 DEF UseCounts
  <2>2. CASE ~ \E d \in Dirs : counted[d] = -1
    <3>1. pc' = "utimeNew" /\ UNCHANGED <<setup, now, files, mtime, present, savedTime, st,
                                          startedAt, changedAt, oldMsgs>>
          /\ pc = "use"
      BY <1>11, <2>2 DEF UseCounts
    <3>2. changedAt < savedTime["new"] => CountsAreRight'
      <4>1. SUFFICES ASSUME changedAt < savedTime["new"] PROVE CountsAreRight'
        OBVIOUS
      <4>2. Quiet'
        BY <1>1, <3>1, <4>1, Numbers, Two DEF FlushInv, Bounded, Quiet
      <4> QED
        BY <1>2, <3>1, <4>2 DEF CheckInv, UsedCounts
    <3> QED
      BY <1>1, <1>2, <3>1, <3>2 DEF FlushInv, Bounded, Quiet, HasNew, HasCur
  <2> QED
    BY <2>1, <2>2
<1>12. CASE UtimeNew \/ UtimeCur
  <2>1. Bounded(mtime["new"])'
    BY <1>1, <1>12, Two DEF UtimeNew, UtimeCur, Utime, FlushInv, Bounded, Typed, TypeOK,
                            HasNew, HasCur
  <2> QED
    BY <1>1, <1>2, <1>12, <2>1 DEF UtimeNew, UtimeCur, Utime, FlushInv, Bounded, Quiet,
                                   CountsAreRight, HasNew, HasCur
<1>13. CASE Store
  <2>1. savedTime'["new"] = st["new"].time /\ pc = "store" /\ pc' = "idle"
        /\ UNCHANGED <<setup, now, files, mtime, present, total, unread, startedAt, changedAt>>
    BY <1>13, Two DEF Store
  <2>2. changedAt < st["new"].time => CountsAreRight
    <3>1. SUFFICES ASSUME changedAt < st["new"].time PROVE Quiet
      BY <1>1, <2>1 DEF CheckInv, UsedCounts
    <3> QED
      BY <1>1, <2>1, <3>1, Numbers, Two DEF FlushInv, Bounded, Quiet, HasNew, HasCur
  <2> QED
    BY <1>1, <1>2, <2>1, <2>2 DEF FlushInv, Bounded, Quiet, CountsAreRight, HasNew, HasCur
<1> QED
  BY <1>3, <1>4, <1>5, <1>7, <1>8, <1>9, <1>10, <1>11, <1>12, <1>13
     DEF Next, Check, Others

-----------------------------------------------------------------------------
(* Without the flag: other programs change the maildir between the checks,  *)
(* in later seconds than they started in, so that a change never leaves a   *)
(* directory with the second that was saved.                               *)

BetweenInv ==
    /\ Typed /\ CheckInv
    /\ setup.timing = "between" /\ setup.flush = FALSE
    /\ \A d \in Dirs : savedTime[d] <= startedAt /\ (pc # "idle" => mtime[d] <= startedAt)
    /\ pc \in HasNew => st["new"].time = mtime["new"]
    /\ pc \in HasCur => st["cur"].time = mtime["cur"]
    /\ pc \in {"countCur", "use"} => counted["new"] \in {files["new"], -1}
    /\ pc = "use" => counted["cur"] \in {files["cur"], -1}
    /\ pc \in UsedCounts => CountsAreRight
    /\ oldMsgs >= 0 /\ (\A d \in Dirs : savedTime[d] = mtime[d]) => CountsAreRight

LEMMA BetweenTouch ==
    ASSUME BetweenInv, NEW ds \in SUBSET Dirs, ds # {}, Touch(ds), Typed', CheckInv'
    PROVE  BetweenInv'
<1>1. pc = "idle" /\ now > startedAt /\ mtime' = [d \in Dirs |-> IF d \in ds THEN now ELSE mtime[d]]
      /\ UNCHANGED <<setup, savedTime, pc, startedAt, oldMsgs>>
  BY DEF BetweenInv, Touch, Undisturbed, saved, mail, check
<1>2. PICK d \in Dirs : d \in ds
  OBVIOUS
<1>3. savedTime[d] # mtime'[d]
  BY <1>1, <1>2, Numbers DEF BetweenInv
<1> QED
  BY <1>1, <1>2, <1>3 DEF BetweenInv, HasNew, HasCur, UsedCounts

LEMMA BetweenStep == ASSUME BetweenInv, [Next]_vars PROVE BetweenInv'
<1> USE DEF folder, saved, mail, check
<1>1. Typed /\ Typed' /\ CheckInv /\ setup.timing = "between" /\ setup.flush = FALSE
  BY TypedStep DEF BetweenInv
<1>2. CheckInv'
  <2>1. ASSUME pc = "compare", ~Changed PROVE CountsAreRight
    <3>1. oldMsgs >= 0 /\ \A d \in Dirs : savedTime[d] = mtime[d]
      BY <2>1, <1>1, Numbers, Two DEF BetweenInv, Changed, HasNew, HasCur
    <3> QED
      BY <3>1 DEF BetweenInv
  <2> QED
    BY <1>1, <2>1, CheckStep
<1>3. CASE Deliver \/ MarkRead \/ Delete
  <2>1. PICK ds \in SUBSET Dirs : ds # {} /\ Touch(ds)
    <3>1. CASE Deliver
      BY <3>1, Two DEF Deliver
    <3>2. CASE MarkRead
      BY <3>2, Two DEF MarkRead
    <3>3. CASE Delete
      BY <3>3 DEF Delete
    <3> QED
      BY <1>3, <3>1, <3>2, <3>3
  <2> QED
    BY <1>1, <1>2, <2>1, BetweenTouch
<1>4. CASE Mount \/ Tick \/ UNCHANGED vars
  BY <1>1, <1>2, <1>4 DEF Mount, Tick, vars, BetweenInv, CountsAreRight
<1>5. CASE Start
  <2>1. startedAt' = now /\ UNCHANGED <<setup, savedTime, total, unread, oldMsgs, files, mtime>>
        /\ pc' = "statNew"
    BY <1>1, <1>5 DEF Start
  <2>2. \A d \in Dirs : savedTime[d] <= now /\ mtime[d] <= now
    BY <1>1, Numbers DEF BetweenInv, Typed, ClockOK
  <2> QED
    BY <1>1, <1>2, <2>1, <2>2 DEF BetweenInv, CountsAreRight, HasNew, HasCur, UsedCounts
<1>6. ASSUME Fail, UNCHANGED <<setup, now, changedAt>> PROVE BetweenInv'
  BY <1>1, <1>2, <1>6 DEF Fail, BetweenInv, HasNew, HasCur, UsedCounts
<1>7. CASE StatNew
  <2>1. CASE present
    <3>1. st'["new"].time = mtime["new"]
      BY <1>1, <1>7, <2>1, Two DEF StatNew, Stat, Typed, TypeOK
    <3> QED
      BY <1>1, <1>2, <1>7, <2>1, <3>1 DEF StatNew, Stat, BetweenInv, CountsAreRight, HasCur,
                                          UsedCounts
  <2>2. CASE ~present
    BY <1>6, <1>7, <2>2 DEF StatNew, Stat
  <2> QED
    BY <2>1, <2>2
<1>8. CASE StatCur
  <2>1. CASE present
    <3>1. st'["new"] = st["new"] /\ st'["cur"].time = mtime["cur"]
      BY <1>1, <1>8, <2>1, Two DEF StatCur, Stat, Typed, TypeOK
    <3> QED
      BY <1>1, <1>2, <1>8, <2>1, <3>1 DEF StatCur, Stat, BetweenInv, CountsAreRight, HasNew,
                                          HasCur, UsedCounts
  <2>2. CASE ~present
    BY <1>6, <1>8, <2>2 DEF StatCur, Stat
  <2> QED
    BY <2>1, <2>2
<1>9. CASE Compare
  <2>1. UNCHANGED <<setup, now, files, mtime, present, savedTime, total, unread, st,
                    startedAt, changedAt>>
    BY <1>9 DEF Compare
  <2>2. CASE Changed
    <3>1. pc = "compare" /\ pc' = "countNew" /\ oldMsgs' = oldMsgs
      BY <1>9, <2>2 DEF Compare
    <3> QED
      BY <1>1, <1>2, <2>1, <3>1 DEF BetweenInv, CountsAreRight, HasNew, HasCur, UsedCounts
  <2>3. CASE ~Changed
    <3>1. oldMsgs >= 0
      BY <1>1, <2>3, Numbers DEF Changed
    <3>2. pc' = "idle"
      BY <1>9, <2>3 DEF Compare
    <3> QED
      BY <1>1, <1>2, <2>1, <3>1, <3>2 DEF BetweenInv, CountsAreRight, HasNew, HasCur,
                                          UsedCounts
  <2> QED
    BY <2>2, <2>3
<1>10. CASE CountNew
  <2>1. counted'["new"] \in {files["new"], -1}
    BY <1>1, <1>10, Two DEF CountNew, Count, Typed, TypeOK
  <2> QED
    BY <1>1, <1>2, <1>10, <2>1 DEF CountNew, Count, BetweenInv, CountsAreRight, HasNew,
                                   HasCur, UsedCounts
<1>11. CASE CountCur
  <2>1. counted'["new"] = counted["new"] /\ counted'["cur"] \in {files["cur"], -1}
    BY <1>1, <1>11, Two DEF CountCur, Count, Typed, TypeOK
  <2> QED
    BY <1>1, <1>2, <1>11, <2>1 DEF CountCur, Count, BetweenInv, CountsAreRight, HasNew,
                                   HasCur, UsedCounts
<1>12. CASE UseCounts
  <2>1. CASE \E d \in Dirs : counted[d] = -1
    BY <1>6, <1>12, <2>1 DEF UseCounts
  <2>2. CASE ~ \E d \in Dirs : counted[d] = -1
    <3>1. pc' = "utimeNew" /\ pc = "use"
          /\ UNCHANGED <<setup, now, files, mtime, savedTime, st, startedAt, oldMsgs>>
          /\ total' = counted["cur"] + counted["new"] /\ unread' = counted["new"]
      BY <1>12, <2>2 DEF UseCounts
    <3>2. counted["new"] = files["new"] /\ counted["cur"] = files["cur"]
      BY <2>2, <3>1, Two DEF BetweenInv
    <3>3. CountsAreRight'
      BY <1>1, <3>1, <3>2, Numbers, Two DEF CountsAreRight
    <3> QED
      BY <1>1, <1>2, <3>1, <3>3 DEF BetweenInv, HasNew, HasCur
  <2> QED
    BY <2>1, <2>2
<1>13. CASE UtimeNew \/ UtimeCur
  <2>1. mtime' = mtime
    <3>1. ASSUME NEW d \in Dirs, mtime' = [mtime EXCEPT ![d] = st[d].time], pc \in HasCur
          PROVE  mtime' = mtime
      <4>1. st[d].time = mtime[d]
        BY <3>1, Two DEF BetweenInv, HasNew
      <4>2. mtime \in [Dirs -> Times]
        BY <1>1 DEF Typed, TypeOK, Times
      <4> QED
        BY <3>1, <4>1, <4>2
    <3>2. CASE present
      BY <1>13, <3>1, <3>2, Two DEF UtimeNew, UtimeCur, Utime, HasCur
    <3>3. CASE ~present
      BY <1>13, <3>3 DEF UtimeNew, UtimeCur, Utime
    <3> QED
      BY <3>2, <3>3
  <2> QED
    BY <1>1, <1>2, <1>13, <2>1 DEF UtimeNew, UtimeCur, Utime, BetweenInv, CountsAreRight,
                                   HasNew, HasCur, UsedCounts
<1>14. CASE Store
  <2>1. pc = "store" /\ pc' = "idle"
        /\ UNCHANGED <<setup, now, files, mtime, present, total, unread, startedAt, changedAt>>
    BY <1>14 DEF Store
  <2>2. \A d \in Dirs : savedTime'[d] = mtime[d]
    BY <1>14, <2>1, Two DEF Store, BetweenInv, HasNew, HasCur
  <2>3. CountsAreRight
    BY <2>1 DEF BetweenInv, UsedCounts
  <2> QED
    BY <1>1, <1>2, <2>1, <2>2, <2>3 DEF BetweenInv, CountsAreRight, HasNew, HasCur, UsedCounts
<1> QED
  BY <1>3, <1>4, <1>5, <1>7, <1>8, <1>9, <1>10, <1>11, <1>12, <1>13, <1>14
     DEF Next, Check, Others

\* maildirCheckHistory leaves the counts of the maildir, or -1, if the check
\* began after the last change: with the F flag whatever other programs do;
\* without it, if they work between the checks.
THEOREM ChecksAreTrue ==
    ASSUME \A s \in Setups : s.flush \/ s.timing = "between"
    PROVE  Spec => []ChecksTellTheTruth
<1> DEFINE Inv == FlushInv \/ BetweenInv
<1>1. Init => Inv
  <2>1. SUFFICES ASSUME Init PROVE FlushInv \/ BetweenInv
    OBVIOUS
  <2>2. Typed /\ CheckInv /\ setup \in Setup /\ pc = "idle" /\ oldMsgs = -1
        /\ startedAt = -1 /\ \A d \in Dirs : savedTime[d] = -1 /\ mtime[d] = 0
    BY <2>1, TypedInit, CheckInit, MaildirAssumption DEF Init
  <2>3. CASE setup.flush = TRUE
    <3>1. Bounded(mtime["new"]) /\ Bounded(savedTime["new"])
      BY <2>1, <2>2, Two DEF Init, Bounded
    <3> QED
      BY <2>2, <2>3, <3>1, Two DEF FlushInv, HasNew, HasCur
  <2>4. CASE setup.flush = FALSE
    <3>1. setup.timing = "between"
      BY <2>1, <2>4 DEF Init
    <3> QED
      BY <2>2, <2>4, <3>1 DEF BetweenInv, HasNew, HasCur, UsedCounts
  <2> QED
    BY <2>2, <2>3, <2>4 DEF Setup
<1>2. Inv /\ [Next]_vars => Inv'
  BY FlushStep, BetweenStep
<1>3. Inv => ChecksTellTheTruth
  BY DEF FlushInv, BetweenInv, CheckInv
<1> QED
  BY <1>1, <1>2, <1>3, PTL DEF Spec

\* TYPES of the maildir's check, and a clock that nothing is ahead of.
THEOREM TypeCorrect == Spec => []TypeOK
<1>1. Init => Typed
  BY TypedInit
<1>2. Typed /\ [Next]_vars => Typed'
  BY TypedStep
<1>3. Typed => TypeOK
  BY DEF Typed
<1> QED
  BY <1>1, <1>2, <1>3, PTL DEF Spec
=============================================================================
