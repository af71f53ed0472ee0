---------------------------- MODULE ShellProofs ----------------------------
(***************************************************************************)
(* The properties of Children, Shell and Mbox: any number of processes, any  *)
(* outputs, any files.                                                       *)
(*                                                                         *)
(* That nobody else waits for the command whose output is read, and that    *)
(* only children whose signal was lost linger, need to know what the         *)
(* handler is where the program is, and that while the action is the default *)
(* one every zombie is among the missed ones.                                *)
(*                                                                         *)
(* Shell and Mbox read lines with a fold, so their proofs share what is      *)
(* known of folds; they have nothing else in common.                         *)
(***************************************************************************)
EXTENDS Shell, Mbox, FiniteSetTheorems, SequenceTheorems, WellFoundedInduction, TLAPS

\* The inductive invariant.
ChildrenInv ==
    /\ ChildrenTypeOK
    /\ HandlerComesBack
    /\ pc = "starting" => handler = NULL /\ old = NULL
    /\ cmd # NULL <=> pc \in {"read", "close"}
    /\ CommandIsOurs
    /\ handler = NULL \/ ~pending => With("zombie") \subseteq missed

\* The invariant holds in a process just started.
LEMMA InitChildren == ChildrenInit => ChildrenInv
  BY ChildrenAssumption
     DEF ChildrenInit, ChildrenInv, ChildrenTypeOK, HandlerComesBack, CommandIsOurs, With

\* A child that ends.
LEMMA EndsKeeps == ChildrenInv /\ Ends => ChildrenInv'
<1>1. SUFFICES ASSUME ChildrenInv, Ends PROVE ChildrenInv'
  OBVIOUS
<1>2. PICK p \in With("running") :
         /\ procs' = [procs EXCEPT ![p] = "zombie"]
         /\ pending' = (handler # NULL)
         /\ missed' = IF handler = NULL THEN missed \union {p} ELSE missed
  BY <1>1 DEF Ends
<1>3. UNCHANGED <<pc, cmd, handler, old, blocked>>
  BY <1>1 DEF Ends
<1>4. p \in Pids /\ procs[p] = "running"
  BY <1>2 DEF With
<1>5. ChildrenTypeOK' /\ HandlerComesBack'
  BY <1>1, <1>2, <1>3, <1>4 DEF ChildrenInv, ChildrenTypeOK, HandlerComesBack
<1>6. CommandIsOurs'
  BY <1>1, <1>2, <1>3, <1>4 DEF ChildrenInv, ChildrenTypeOK, CommandIsOurs
<1>7. (handler = NULL \/ ~pending => With("zombie") \subseteq missed)'
  BY <1>1, <1>2, <1>3, <1>4 DEF ChildrenInv, ChildrenTypeOK, With
<1> QED
  BY <1>1, <1>3, <1>5, <1>6, <1>7 DEF ChildrenInv

\* The handler, which runs only when it is installed, so never while a command
\* is read.
LEMMA ReapKeeps == ChildrenInv /\ Reap => ChildrenInv'
<1>1. SUFFICES ASSUME ChildrenInv, Reap PROVE ChildrenInv'
  OBVIOUS
<1>2. /\ pending /\ handler # NULL
      /\ procs' = [p \in Pids |-> IF procs[p] = "zombie" THEN "none" ELSE procs[p]]
      /\ pending' = FALSE /\ missed' = {}
      /\ UNCHANGED <<pc, cmd, handler, old, blocked>>
  BY <1>1 DEF Reap
<1>3. cmd = NULL
  BY <1>1, <1>2 DEF ChildrenInv, HandlerComesBack
<1>4. ChildrenTypeOK' /\ HandlerComesBack' /\ CommandIsOurs'
  BY <1>1, <1>2, <1>3 DEF ChildrenInv, ChildrenTypeOK, HandlerComesBack, CommandIsOurs
<1>5. (With("zombie") = {})'
  BY <1>1, <1>2 DEF ChildrenInv, ChildrenTypeOK, With
<1> QED
  BY <1>1, <1>2, <1>4, <1>5 DEF ChildrenInv

\* main, and execCommand.
LEMMA InstallHandlersKeeps == ChildrenInv /\ InstallHandlers => ChildrenInv'
  BY DEF InstallHandlers, ChildrenInv, ChildrenTypeOK, HandlerComesBack, CommandIsOurs, With

LEMMA execCommandKeeps == ChildrenInv /\ execCommand => ChildrenInv'
<1>1. SUFFICES ASSUME ChildrenInv, execCommand PROVE ChildrenInv'
  OBVIOUS
<1>2. PICK p \in With("none") : procs' = [procs EXCEPT ![p] = "running"]
  BY <1>1 DEF execCommand
<1>3. pc = "idle" /\ UNCHANGED <<pc, cmd, signals>>
  BY <1>1 DEF execCommand
<1>4. cmd = NULL
  BY <1>1, <1>3 DEF ChildrenInv
<1>5. ChildrenTypeOK' /\ HandlerComesBack' /\ CommandIsOurs'
  BY <1>1, <1>2, <1>3, <1>4
     DEF ChildrenInv, ChildrenTypeOK, HandlerComesBack, CommandIsOurs, With, signals
<1>6. With("zombie")' \subseteq With("zombie")
  BY <1>1, <1>2 DEF ChildrenInv, ChildrenTypeOK, With
<1> QED
  BY <1>1, <1>3, <1>5, <1>6 DEF ChildrenInv, signals

\* A command starts to run, or does not.
LEMMA kind_popenKeeps == ChildrenInv /\ pc = "idle" /\ kind_popen("read") => ChildrenInv'
<1>1. SUFFICES ASSUME ChildrenInv, pc = "idle", kind_popen("read") PROVE ChildrenInv'
  OBVIOUS
<1>2. PICK p \in With("none") : procs' = [procs EXCEPT ![p] = "running"] /\ cmd' = p
  BY <1>1 DEF kind_popen
<1>3. /\ pc' = "read" /\ old' = handler /\ handler' = NULL /\ pending' = FALSE
      /\ missed' = With("zombie") /\ UNCHANGED blocked
  BY <1>1 DEF kind_popen
<1>4. p \in Pids /\ p # NULL
  BY <1>2, ChildrenAssumption DEF With
<1>5. handler = "reap"
  BY <1>1 DEF ChildrenInv, HandlerComesBack
<1>6. ChildrenTypeOK'
  BY <1>1, <1>2, <1>3, <1>4 DEF ChildrenInv, ChildrenTypeOK, With
<1>7. HandlerComesBack' /\ CommandIsOurs'
  BY <1>1, <1>2, <1>3, <1>4, <1>5 DEF ChildrenInv, ChildrenTypeOK, HandlerComesBack, CommandIsOurs
<1>8. With("zombie")' \subseteq missed'
  BY <1>1, <1>2, <1>3 DEF ChildrenInv, ChildrenTypeOK, With
<1> QED
  BY <1>2, <1>3, <1>4, <1>6, <1>7, <1>8 DEF ChildrenInv

LEMMA kind_popenFailsKeeps == ChildrenInv /\ kind_popenFails => ChildrenInv'
  BY DEF kind_popenFails, ChildrenInv, ChildrenTypeOK, HandlerComesBack, CommandIsOurs, With

\* A command ends, and the handler is back.
LEMMA kind_pcloseKeeps == ChildrenInv /\ pc = "close" /\ kind_pclose("idle") => ChildrenInv'
<1>1. SUFFICES ASSUME ChildrenInv, pc = "close", kind_pclose("idle") PROVE ChildrenInv'
  OBVIOUS
<1>2. cmd \in Pids /\ handler = NULL /\ old = "reap"
  BY <1>1 DEF ChildrenInv, ChildrenTypeOK, HandlerComesBack
<1>3. /\ procs' = [procs EXCEPT ![cmd] = "none"] /\ missed' = missed \ {cmd} /\ cmd' = NULL
      /\ pc' = "idle" /\ handler' = (IF old # NULL THEN old ELSE handler) /\ old' = NULL
      /\ UNCHANGED <<pending, blocked>>
  BY <1>1 DEF kind_pclose
<1>4. ChildrenTypeOK' /\ HandlerComesBack' /\ CommandIsOurs'
  BY <1>1, <1>2, <1>3 DEF ChildrenInv, ChildrenTypeOK, HandlerComesBack, CommandIsOurs
<1>5. With("zombie")' \subseteq missed'
  BY <1>1, <1>2, <1>3 DEF ChildrenInv, ChildrenTypeOK, With
<1> QED
  BY <1>3, <1>4, <1>5 DEF ChildrenInv

\* A new image of the process: the children stay, the handler and the command do
\* not.
LEMMA ExecKeeps == \A s \in BOOLEAN : ChildrenInv /\ Exec(s) => ChildrenInv'
  BY DEF Exec, ChildrenInv, ChildrenTypeOK, HandlerComesBack, CommandIsOurs, With

LEMMA StepChildren == ChildrenInv /\ [Next]_vars => ChildrenInv'
<1>1. SUFFICES ASSUME ChildrenInv, [Next]_vars PROVE ChildrenInv'
  OBVIOUS
<1>2. CASE StartCheck \/ StartExpand
  BY <1>1, <1>2, kind_popenKeeps DEF StartCheck, StartExpand
<1>3. CASE CannotStart
  BY <1>1, <1>3, kind_popenFailsKeeps DEF CannotStart
<1>4. CASE Grab
  <2>1. pc = "read" /\ pc' = "close" /\ UNCHANGED <<procs, cmd, signals>>
    BY <1>4 DEF Grab
  <2> QED
    BY <1>1, <2>1 DEF ChildrenInv, ChildrenTypeOK, HandlerComesBack, CommandIsOurs, With, signals
<1>5. CASE Finish
  BY <1>1, <1>5, kind_pcloseKeeps DEF Finish
<1>6. CASE Around
  BY <1>1, <1>6, EndsKeeps, ReapKeeps, InstallHandlersKeeps, execCommandKeeps DEF Around
<1>7. CASE Restart
  BY <1>1, <1>7, ExecKeeps DEF Restart, RestartByButton, RestartBySignal
<1>8. CASE UNCHANGED vars
  BY <1>1, <1>8
     DEF vars, childVars, signals, ChildrenInv, ChildrenTypeOK, HandlerComesBack, CommandIsOurs, With
<1> QED
  BY <1>1, <1>2, <1>3, <1>4, <1>5, <1>6, <1>7, <1>8 DEF Next

\* The invariant holds in every state.
THEOREM ChildrenAlways == Spec => []ChildrenInv
<1>1. Init => ChildrenInv
  BY InitChildren DEF Init
<1> QED
  BY <1>1, StepChildren, PTL DEF Spec

\* kind_popen never finds the handler of another command, and the SIGCHLD
\* handler is in place whenever no command is read.
THEOREM HandlerSafety == Spec => []HandlerComesBack
<1>1. ChildrenInv => HandlerComesBack
  BY DEF ChildrenInv
<1> QED
  BY <1>1, ChildrenAlways, PTL

\* pclose gets the exit status of its command: neither the handler nor a restart
\* takes it away while the command is known.
THEOREM CommandSafety == Spec => []CommandIsOurs
<1>1. ChildrenInv => CommandIsOurs
  BY DEF ChildrenInv
<1> QED
  BY <1>1, ChildrenAlways, PTL

\* The only zombies the handler does not know of are those whose signal came
\* while its action was the default one.
THEOREM ZombieSafety == Spec => []OnlyMissedLinger
<1>1. ChildrenInv => OnlyMissedLinger
  BY DEF ChildrenInv, OnlyMissedLinger
<1> QED
  BY <1>1, ChildrenAlways, PTL

-----------------------------------------------------------------------------
(* What the row shows.                                                      *)

\* RowIsCurrent, whatever the program does next.
OutShown ==
    /\ out.kind = "number" /\ out.num >= 0 =>
          row = [text |-> NoText, new |-> out.word = "new" /\ out.num > 0,
                 number |-> IF out.word = "new" \/ classic THEN out.num ELSE 0]
    /\ out.kind \notin {"number", "text"} => row \in {Blank, XX}

\* The row is out of date only between the end of a check's output and the
\* verdict on it, and a total of -1, which failures and texts leave, is the only
\* one the row need not show: a number from 0 up never equals it.
RowInv ==
    /\ oldMsgs \in Int /\ oldUnread \in Int
    /\ out.num \in Int /\ classic \in BOOLEAN
    /\ \/ oldMsgs = -1
       \/ row = Shown(NoText, oldMsgs, oldUnread)
    /\ (pc = "close" /\ purpose = "check") \/ OutShown

\* The verdict on a number: a row that is not drawn again shows it already.
Redrawn(tot, new) == (new > oldUnread /\ new > 0) \/ new < oldUnread \/ tot # oldMsgs

LEMMA NumberShown ==
    ASSUME RowInv, NEW tot \in Int, NEW new \in Int, tot # -1, ~Redrawn(tot, new)
    PROVE  row = Shown(NoText, tot, new)
<1>1. oldUnread \in Int /\ oldMsgs \in Int
  BY DEF RowInv
<1>2. tot = oldMsgs /\ (new = oldUnread \/ (~ (new > 0) /\ ~ (oldUnread > 0)))
  BY <1>1 DEF Redrawn
<1>3. row = Shown(NoText, tot, oldUnread)
  BY <1>2 DEF RowInv
<1>4. Shown(NoText, tot, new) = Shown(NoText, tot, oldUnread)
  <2>1. CASE new = oldUnread
    BY <2>1
  <2>2. CASE ~ (new > 0) /\ ~ (oldUnread > 0)
    BY <2>2 DEF Shown
  <2> QED
    BY <1>2, <2>1, <2>2
<1> QED
  BY <1>3, <1>4

LEMMA JudgeShows ==
    ASSUME RowInv, Judge(out), UNCHANGED <<classic, out>>
    PROVE  /\ oldMsgs' \in Int /\ oldUnread' \in Int
           /\ oldMsgs' = -1 \/ row' = Shown(NoText, oldMsgs', oldUnread')
           /\ OutShown'
<1>1. out.num \in Int /\ out' = out
  BY DEF RowInv
<1>2. PICK n \in Int : n = out.num
  BY <1>1
<1>3. CASE out.kind = "number" /\ out.word = "new"
  <2>1. Counted(NoText, 0, out.num)
    BY <1>3 DEF Judge
  <2>2. /\ oldMsgs' = 0 /\ oldUnread' = n
        /\ row' = IF Redrawn(0, n) THEN Shown(NoText, 0, n) ELSE row
    BY <1>2, <2>1 DEF Counted, Redrawn
  <2>3. row' = Shown(NoText, 0, n)
    BY <2>2, NumberShown
  <2>4. n >= 0 => row' = [text |-> NoText, new |-> n > 0, number |-> n]
    <3>1. CASE n > 0
      BY <2>3, <3>1 DEF Shown
    <3>2. CASE ~ (n > 0)
      BY <2>3, <3>2 DEF Shown
    <3> QED
      BY <3>1, <3>2
  <2> QED
    BY <1>1, <1>2, <1>3, <2>2, <2>3, <2>4 DEF OutShown
<1>4. CASE out.kind = "number" /\ out.word # "new"
  <2>1. Counted(NoText, out.num, 0)
    BY <1>4 DEF Judge
  <2>2. /\ oldMsgs' = n /\ oldUnread' = 0
        /\ row' = IF Redrawn(n, 0) THEN Shown(NoText, n, 0) ELSE row
    BY <1>2, <2>1 DEF Counted, Redrawn
  <2>3. n # -1 => row' = Shown(NoText, n, 0)
    BY <2>2, NumberShown
  <2>4. n >= 0 => row' = [text |-> NoText, new |-> FALSE, number |-> IF classic THEN n ELSE 0]
    <3>1. Shown(NoText, n, 0) = [text |-> NoText, new |-> FALSE, number |-> IF classic THEN n ELSE 0]
      <4>1. (0 > 0) = FALSE
        OBVIOUS
      <4> QED
        BY <4>1 DEF Shown
    <3> QED
      BY <2>3, <3>1
  <2> QED
    <3>1. (out.word = "new" /\ out.num > 0) = FALSE /\ (out.word = "new" \/ classic) = classic
      BY <1>4 DEF RowInv
    <3>2. out.num >= 0 =>
            row' = [text |-> NoText, new |-> out.word = "new" /\ out.num > 0,
                    number |-> IF out.word = "new" \/ classic THEN out.num ELSE 0]
      BY <1>2, <2>4, <3>1
    <3>3. OutShown'
      BY <1>1, <1>4, <3>2 DEF OutShown
    <3> QED
      BY <2>2, <2>3, <3>3
<1>5. CASE out.kind = "text"
  <2>1. \E k \in {0, 1} : Counted(out.text, -1, k)
    BY <1>5 DEF Judge
  <2>2. oldMsgs' = -1 /\ oldUnread' \in Int
    BY <2>1 DEF Counted
  <2> QED
    BY <1>1, <1>5, <2>2 DEF OutShown
<1>6. CASE out.kind \notin {"number", "text"}
  <2>1. Failed
    BY <1>6 DEF Judge
  <2> QED
    BY <1>1, <1>6, <2>1 DEF Failed, OutShown
<1> QED
  BY <1>3, <1>4, <1>5, <1>6

LEMMA SameRow ==
    ASSUME RowInv, UNCHANGED <<classic, out, oldMsgs, oldUnread, row>>,
           (pc = "close" /\ purpose = "check") => (pc' = "close" /\ purpose' = "check")
    PROVE  RowInv'
<1>1. Shown(NoText, oldMsgs, oldUnread)' = Shown(NoText, oldMsgs, oldUnread)
  BY DEF Shown
<1> QED
  BY <1>1 DEF RowInv, OutShown

LEMMA StepRow == RowInv /\ [Next]_vars => RowInv'
<1>1. SUFFICES ASSUME RowInv, [Next]_vars PROVE RowInv'
  OBVIOUS
<1>2. CASE StartCheck \/ StartExpand
  BY <1>1, <1>2, SameRow DEF StartCheck, StartExpand, counters
<1>3. CASE CannotStart
  <2>1. /\ out' = NoOutput /\ row' = XX /\ oldMsgs' = -1 /\ oldUnread' = -1
        /\ classic' = classic
    BY <1>3 DEF CannotStart
  <2> QED
    BY <1>1, <2>1 DEF RowInv, OutShown, NoOutput
<1>4. CASE Grab
  <2>1. /\ pc = "read" /\ pc' = "close"
        /\ UNCHANGED <<classic, purpose, oldMsgs, oldUnread, row>>
    BY <1>4 DEF Grab
  <2>2. CASE purpose = "check"
    <3>1. out'.num \in Int
      BY <1>4, <2>2, ShellAssumption DEF Grab, Output
    <3>2. Shown(NoText, oldMsgs, oldUnread)' = Shown(NoText, oldMsgs, oldUnread)
      BY <2>1 DEF Shown
    <3> QED
      BY <1>1, <2>1, <2>2, <3>1, <3>2 DEF RowInv
  <2>3. CASE purpose # "check"
    BY <1>1, <1>4, <2>1, <2>3, SameRow DEF Grab
  <2> QED
    BY <2>2, <2>3
<1>5. CASE Finish
  <2>1. pc = "close" /\ UNCHANGED <<classic, purpose, out>>
    BY <1>5 DEF Finish
  <2>2. CASE purpose = "check"
    <3>1. Judge(out)
      BY <1>5, <2>2 DEF Finish
    <3>2. /\ oldMsgs' \in Int /\ oldUnread' \in Int
          /\ oldMsgs' = -1 \/ row' = Shown(NoText, oldMsgs', oldUnread')
          /\ OutShown'
      BY <1>1, <2>1, <3>1, JudgeShows
    <3>3. Shown(NoText, oldMsgs, oldUnread)' = Shown(NoText, oldMsgs', oldUnread')
      BY <2>1 DEF Shown
    <3> QED
      BY <1>1, <2>1, <3>2, <3>3 DEF RowInv
  <2>3. CASE purpose # "check"
    BY <1>1, <1>5, <2>1, <2>3, SameRow DEF Finish, counters
  <2> QED
    BY <2>2, <2>3
<1>6. CASE Around
  <2>1. UNCHANGED <<classic, purpose, out, counters>> /\ (pc' = pc \/ pc = "starting")
    BY <1>6 DEF Around, Ends, Reap, InstallHandlers, execCommand
  <2> QED
    BY <1>1, <2>1, SameRow DEF counters
<1>7. CASE Restart
  <2>1. out' = NoOutput /\ row' = Blank /\ oldMsgs' = -1 /\ oldUnread' = -1
        /\ classic' = classic
    BY <1>7 DEF Restart, Fresh
  <2> QED
    BY <1>1, <2>1 DEF RowInv, OutShown, NoOutput
<1>8. CASE UNCHANGED vars
  BY <1>1, <1>8, SameRow DEF vars, childVars, counters
<1> QED
  BY <1>1, <1>2, <1>3, <1>4, <1>5, <1>6, <1>7, <1>8 DEF Next

\* Whatever texts, numbers, failures and restarts went before, the row of an
\* idle shell mailbox tells of the number its command printed last: it shows it if
\* the line had "new" in it or classic_mode is on, and 0 otherwise; or it shows
\* that the command printed neither a number nor a text.
THEOREM RowSafety == Spec => []RowIsCurrent
<1>1. Init => RowInv
  BY ShellAssumption DEF Init, RowInv, OutShown, NoOutput
<1>2. RowInv => RowIsCurrent
  BY DEF RowInv, OutShown, RowIsCurrent
<1> QED
  BY <1>1, <1>2, StepRow, PTL DEF Spec

-----------------------------------------------------------------------------
(* Runs of places, and the folds the two clients read lines with.  The        *)
(* recursive function a fold or FlattenSeq chooses is taken apart once, here: *)
(* one that satisfies the equation exists, so the chosen one does.            *)

\* Induction up to n, with a set in place of a predicate.
LEMMA UpTo ==
    ASSUME NEW n \in Nat, NEW T, 0 \in T, \A k \in 1 .. n : k - 1 \in T => k \in T
    PROVE  \A k \in 0 .. n : k \in T
<1> DEFINE missing == {k \in 0 .. n : k \notin T}
<1> SUFFICES ASSUME missing # {} PROVE FALSE
  OBVIOUS
<1>1. missing \in SUBSET Nat
  OBVIOUS
<1>2. \E m \in missing : \A k \in missing : ~ (<<k, m>> \in OpToRel(<, Nat))
  BY <1>1, NatLessThanWellFounded, WFMin
<1>3. PICK m \in missing : \A k \in missing : ~ (<<k, m>> \in OpToRel(<, Nat))
  BY <1>2
<1>4. \A k \in missing : ~ (k < m)
  BY <1>1, <1>3 DEF OpToRel
<1>5. m \in 1 .. n
  OBVIOUS
<1>6. m - 1 \in missing
  BY <1>5
<1> QED
  BY <1>4, <1>5, <1>6

\* The last place of a set of places.
LEMMA LastIs ==
    ASSUME NEW n \in Nat, NEW P, P \subseteq 1 .. n, NEW m \in P, \A k \in P : m >= k
    PROVE  Max(P) = m
<1>1. PICK x : x = Max(P)
  OBVIOUS
<1>2. x \in P /\ \A k \in P : x >= k
  BY <1>1 DEF Max
<1>3. x \in Int /\ m \in Int /\ x >= m /\ m >= x
  BY <1>2
<1> QED
  BY <1>1, <1>3

\* It is k, if all places up to k are in the set.
LEMMA LastUpTo == \A k \in Nat \ {0} : Max(1 .. k) = k
<1> SUFFICES ASSUME NEW k \in Nat \ {0} PROVE Max(1 .. k) = k
  OBVIOUS
<1>1. k \in Nat /\ 1 .. k \subseteq 1 .. k /\ k \in 1 .. k /\ \A j \in 1 .. k : k >= j
  OBVIOUS
<1> QED
  BY <1>1, LastIs

\* A set of places that is not empty has a last one.
LEMMA LastIn ==
    ASSUME NEW n \in Nat, NEW P, P \subseteq 1 .. n, P # {}
    PROVE  Max(P) \in P /\ \A k \in P : Max(P) >= k
<1> DEFINE T == {N \in 0 .. n : \A S : S \subseteq 1 .. N /\ S # {} => \E m \in S : \A k \in S : m >= k}
<1>1. 0 \in T
  OBVIOUS
<1>2. ASSUME NEW N \in 1 .. n, N - 1 \in T PROVE N \in T
  <2> SUFFICES ASSUME NEW S, S \subseteq 1 .. N, S # {} PROVE \E m \in S : \A k \in S : m >= k
    OBVIOUS
  <2>1. CASE N \in S
    BY <2>1
  <2>2. CASE N \notin S
    <3>1. S \subseteq 1 .. N - 1
      BY <2>2
    <3> QED
      BY <1>2, <3>1
  <2> QED
    BY <2>1, <2>2
<1>3. \A k \in 0 .. n : k \in T
  <2> HIDE DEF T
  <2> QED
    BY <1>1, <1>2, UpTo
<1>4. n \in T
  BY <1>3
<1>5. \E m \in P : \A k \in P : m >= k
  BY <1>4
<1> QED
  BY <1>5 DEF Max

\* There is a function that folds g over the sets of places: the recursive
\* definition in MapThenFoldSet defines one.
IsTable(f, X, b, g, n) ==
    /\ f \in [SUBSET (1 .. n) -> X]
    /\ \A S \in SUBSET (1 .. n) : f[S] = IF S = {} THEN b ELSE g[<<f[S \ {Max(S)}], Max(S)>>]

LEMMA TableExists ==
    ASSUME NEW X, NEW b \in X, NEW n \in Nat, NEW g \in [X \X (1 .. n) -> X]
    PROVE  \E f : IsTable(f, X, b, g, n)
<1> DEFINE T == {m \in 0 .. n : \E f : IsTable(f, X, b, g, m)}
<1>1. 0 \in T
  <2> DEFINE f == [S \in SUBSET (1 .. 0) |-> b]
  <2>1. \A S \in SUBSET (1 .. 0) : S = {}
    OBVIOUS
  <2>2. IsTable(f, X, b, g, 0)
    BY <2>1 DEF IsTable
  <2> HIDE DEF f
  <2> QED
    BY <2>2
<1>2. ASSUME NEW m \in 1 .. n, m - 1 \in T PROVE m \in T
  <2>1. PICK f : IsTable(f, X, b, g, m - 1)
    BY <1>2
  <2> DEFINE h == [S \in SUBSET (1 .. m) |-> IF m \in S THEN g[<<f[S \ {m}], m>>] ELSE f[S]]
  <2>2. \A S \in SUBSET (1 .. m) : S \ {m} \in SUBSET (1 .. m - 1)
    OBVIOUS
  <2>3. f \in [SUBSET (1 .. m - 1) -> X]
    BY <2>1 DEF IsTable
  <2>4. h \in [SUBSET (1 .. m) -> X]
    <3>1. ASSUME NEW S \in SUBSET (1 .. m) PROVE (IF m \in S THEN g[<<f[S \ {m}], m>>] ELSE f[S]) \in X
      <4>1. f[S \ {m}] \in X
        BY <2>2, <2>3
      <4>2. g[<<f[S \ {m}], m>>] \in X
        BY <4>1
      <4>3. m \notin S => S = S \ {m}
        OBVIOUS
      <4> QED
        BY <4>1, <4>2, <4>3
    <3> QED
      BY <3>1
  <2>5. ASSUME NEW S \in SUBSET (1 .. m)
        PROVE  h[S] = IF S = {} THEN b ELSE g[<<h[S \ {Max(S)}], Max(S)>>]
    <3>1. CASE m \in S
      <4>1. Max(S) = m
        <5>1. m \in Nat /\ S \subseteq 1 .. m /\ \A k \in S : m >= k
          OBVIOUS
        <5> HIDE DEF h
        <5> QED
          BY <3>1, <5>1, LastIs
      <4>2. S \ {m} \in SUBSET (1 .. m) /\ m \notin S \ {m}
        OBVIOUS
      <4>3. h[S \ {m}] = f[S \ {m}]
        BY <4>2
      <4>4. h[S] = g[<<f[S \ {m}], m>>]
        BY <3>1
      <4> HIDE DEF h
      <4> QED
        BY <3>1, <4>1, <4>3, <4>4
    <3>2. CASE m \notin S
      <4>1. S \in SUBSET (1 .. m - 1)
        BY <3>2
      <4>2. h[S] = f[S]
        BY <3>2
      <4>3. S \ {Max(S)} \in SUBSET (1 .. m) /\ m \notin S \ {Max(S)}
        BY <3>2
      <4>4. h[S \ {Max(S)}] = f[S \ {Max(S)}]
        BY <4>3
      <4>5. f[S] = IF S = {} THEN b ELSE g[<<f[S \ {Max(S)}], Max(S)>>]
        BY <2>1, <4>1 DEF IsTable
      <4> HIDE DEF h
      <4> QED
        BY <4>2, <4>4, <4>5
    <3> QED
      BY <3>1, <3>2
  <2> HIDE DEF h
  <2>6. IsTable(h, X, b, g, m)
    BY <2>4, <2>5 DEF IsTable
  <2> QED
    BY <2>6
<1>3. \A k \in 0 .. n : k \in T
  <2> HIDE DEF T
  <2> QED
    BY <1>1, <1>2, UpTo
<1>4. n \in T
  BY <1>3
<1> QED
  BY <1>4

\* The first of a set of places.
LEMMA FirstIn ==
    ASSUME NEW P, P \subseteq Nat, P # {}
    PROVE  Min(P) \in P /\ \A k \in P : Min(P) <= k
<1>1. \E m \in P : \A k \in P : ~ (<<k, m>> \in OpToRel(<, Nat))
  BY NatLessThanWellFounded, WFMin
<1>2. PICK m \in P : \A k \in P : ~ (<<k, m>> \in OpToRel(<, Nat))
  BY <1>1
<1>3. \A k \in P : ~ (k < m)
  BY <1>2 DEF OpToRel
<1>4. \A k \in P : m <= k
  BY <1>3
<1> QED
  BY <1>4 DEF Min

\* Two runs with the same steps end in the same place.
LEMMA SameRun ==
    ASSUME NEW n \in Nat, NEW r, NEW q, r[0] = q[0],
           \A k \in 1 .. n : r[k - 1] = q[k - 1] => r[k] = q[k]
    PROVE  r[n] = q[n]
<1> DEFINE T == {k \in 0 .. n : r[k] = q[k]}
<1>1. 0 \in T /\ \A k \in 1 .. n : k - 1 \in T => k \in T
  OBVIOUS
<1>2. \A k \in 0 .. n : k \in T
  <2> HIDE DEF T
  <2> QED
    BY <1>1, UpTo
<1> QED
  BY <1>2

\* A sequence of sequences, flattened from its front.
LEMMA FlattenRuns ==
    ASSUME NEW A, NEW n \in Nat, NEW ss \in [1 .. n -> Seq(A)]
    PROVE  \E e \in [0 .. n -> Seq(A)] :
              /\ e[0] = <<>> /\ \A k \in 1 .. n : e[k] = e[k - 1] \o ss[k]
              /\ FlattenSeq(ss) = e[n]
<1>1. Len(ss) = n
  OBVIOUS
<1> DEFINE run(e, m) == /\ e \in [0 .. m -> Seq(A)]
                        /\ e[0] = <<>> /\ \A k \in 1 .. m : e[k] = e[k - 1] \o ss[k]
           T == {m \in 0 .. n : \E e : run(e, m)}
<1>2. 0 \in T
  <2> DEFINE e == [k \in 0 .. 0 |-> <<>>]
  <2>1. e \in [0 .. 0 -> Seq(A)] /\ e[0] = <<>>
    OBVIOUS
  <2>2. 1 .. 0 = {} /\ 0 \in 0 .. n
    OBVIOUS
  <2> HIDE DEF e
  <2>3. \E d : run(d, 0)
    BY <2>1, <2>2
  <2> QED
    BY <2>2, <2>3
<1>3. ASSUME NEW m \in 1 .. n, m - 1 \in T PROVE m \in T
  <2>1. PICK e : run(e, m - 1)
    BY <1>3
  <2> DEFINE x == e[m - 1] \o ss[m]
             h == [k \in 0 .. m |-> IF k = m THEN x ELSE e[k]]
  <2>2. e[m - 1] \in Seq(A) /\ ss[m] \in Seq(A)
    BY <2>1
  <2>3. x \in Seq(A)
    BY <2>2, ConcatProperties
  <2>4. x = e[m - 1] \o ss[m]
    OBVIOUS
  <2> HIDE DEF x
  <2>5. h \in [0 .. m -> Seq(A)]
    BY <2>1, <2>3
  <2>6. h[m] = x /\ \A k \in 0 .. m - 1 : h[k] = e[k]
    OBVIOUS
  <2> HIDE DEF h
  <2>7. h[0] = <<>>
    BY <2>1, <2>6
  <2>8. ASSUME NEW k \in 1 .. m PROVE h[k] = h[k - 1] \o ss[k]
    <3>1. CASE k = m
      <4>1. h[m - 1] = e[m - 1]
        <5>1. m - 1 \in 0 .. m - 1
          OBVIOUS
        <5> QED
          BY <2>6, <5>1, Zenon
      <4> QED
        BY <2>4, <2>6, <3>1, <4>1
    <3>2. CASE k # m
      <4>1. h[k] = e[k] /\ h[k - 1] = e[k - 1] /\ k \in 1 .. m - 1
        BY <2>6, <3>2
      <4>2. e[k] = e[k - 1] \o ss[k]
        BY <2>1, <4>1
      <4> QED
        BY <4>1, <4>2
    <3> QED
      BY <3>1, <3>2
  <2>9. run(h, m)
    BY <2>5, <2>7, <2>8
  <2>10. \E d : run(d, m)
    BY <2>9
  <2> HIDE DEF run
  <2> QED
    BY <2>10
<1>4. \A m \in 0 .. n : m \in T
  <2> HIDE DEF T
  <2> QED
    BY <1>2, <1>3, UpTo
<1>5. \E e : run(e, n)
  <2> HIDE DEF run
  <2> QED
    BY <1>4
<1>6. PICK e : run(e, n)
  BY <1>5
<1>7. e \in [0 .. n -> Seq(A)] /\ e[0] = <<>>
  BY <1>6
<1>8. \A k \in 1 .. n : e[k] = e[k - 1] \o ss[k]
  BY <1>6
<1>9. FlattenSeq(ss) = e[n]
  <2>1. CASE n = 0
    <3>1. FlattenSeq(ss) = ss /\ ss = <<>>
      BY <1>1, <2>1 DEF FlattenSeq
    <3> QED
      BY <1>7, <2>1, <3>1
  <2>2. CASE n # 0
    <3> DEFINE body(f, i) == IF i = 1 THEN ss[i] ELSE f[i - 1] \o ss[i]
               equation(f) == f = [i \in 1 .. Len(ss) |-> body(f, i)]
               flatten == CHOOSE f : equation(f)
               f0 == [i \in 1 .. n |-> e[i]]
    <3>1. FlattenSeq(ss) = flatten[n]
      BY <1>1, <2>2 DEF FlattenSeq
    <3>2. ASSUME NEW i \in 1 .. n PROVE e[i] = body(f0, i)
      <4>1. e[i] = e[i - 1] \o ss[i] /\ ss[i] \in Seq(A)
        BY <1>8
      <4>2. CASE i = 1
        <5>1. e[i - 1] = <<>>
          BY <1>7, <4>2
        <5>2. <<>> \o ss[i] = ss[i]
          BY <4>1, ConcatEmptySeq
        <5> QED
          BY <4>1, <4>2, <5>1, <5>2, Zenon
      <4>3. CASE i # 1
        <5>1. f0[i - 1] = e[i - 1]
          BY <4>3
        <5> HIDE DEF f0
        <5> QED
          BY <4>1, <4>3, <5>1, Zenon
      <4> QED
        BY <4>2, <4>3
    <3>3. equation(f0)
      <4> HIDE DEF body
      <4> QED
        BY <1>1, <3>2
    <3>4. equation(flatten)
      <4> HIDE DEF body, f0
      <4> QED
        BY <3>3
    <3>5. \A i \in 1 .. n : flatten[i] = body(flatten, i)
      <4> HIDE DEF body, flatten
      <4> QED
        BY <1>1, <3>4
    <3> DEFINE T2 == {k \in 0 .. n : k = 0 \/ e[k] = flatten[k]}
    <3> HIDE DEF flatten, f0
    <3>6. ASSUME NEW k \in 1 .. n, k - 1 \in T2 PROVE k \in T2
      <4>1. e[k] = e[k - 1] \o ss[k] /\ ss[k] \in Seq(A)
        BY <1>8
      <4>2. CASE k = 1
        <5>1. e[k - 1] = <<>>
          BY <1>7, <4>2
        <5>2. <<>> \o ss[k] = ss[k]
          BY <4>1, ConcatEmptySeq
        <5>3. flatten[k] = ss[k]
          BY <3>5, <4>2
        <5>4. e[k] = flatten[k]
          BY <4>1, <5>1, <5>2, <5>3, Zenon
        <5> QED
          BY <5>4
      <4>3. CASE k # 1
        <5>1. e[k - 1] = flatten[k - 1]
          BY <3>6, <4>3
        <5>2. flatten[k] = body(flatten, k)
          BY <3>5
        <5>3. flatten[k] = flatten[k - 1] \o ss[k]
          BY <4>3, <5>2, Zenon
        <5>4. e[k] = flatten[k]
          BY <4>1, <5>1, <5>3, Zenon
        <5> QED
          BY <5>4
      <4> QED
        BY <4>2, <4>3
    <3>7. 0 \in T2
      OBVIOUS
    <3>8. \A k \in 0 .. n : k \in T2
      <4> HIDE DEF T2
      <4> QED
        BY <3>6, <3>7, UpTo
    <3>9. n \in 0 .. n /\ (n = 0 \/ e[n] = flatten[n])
      BY <3>8
    <3> QED
      BY <2>2, <3>1, <3>9
  <2> QED
    BY <2>1, <2>2
<1> QED
  BY <1>7, <1>8, <1>9

-----------------------------------------------------------------------------
(* The headers of the popup.                                                *)

\* The characters of a line, and the states of shell_getHeaders.
Chr == {"c", "\n"}

TakeStates == [heads : Seq(Nat), len : Nat]

\* A character keeps the type of a state.
LEMMA TakeType == \A s \in TakeStates : \A ch : Take(s, ch) \in TakeStates
<1> SUFFICES ASSUME NEW s \in TakeStates, NEW ch PROVE Take(s, ch) \in TakeStates
  OBVIOUS
<1>1. s.heads \in Seq(Nat) /\ s.len \in Nat
  BY DEF TakeStates
<1>2. <<s.len>> \o s.heads \in Seq(Nat) /\ s.len + 1 \in Nat
  BY <1>1
<1>3. \A h \in Seq(Nat), n \in Nat : [heads |-> h, len |-> n] \in TakeStates
  BY DEF TakeStates
<1>4. [s EXCEPT !.len = @ + 1] = [heads |-> s.heads, len |-> s.len + 1]
  BY DEF TakeStates
<1> QED
  BY <1>1, <1>2, <1>3, <1>4 DEF Take

\* The loop of shell_getHeaders, from the state b.
Taken(b, s) == FoldLeft(Take, b, s)

IsTaking(r, n, s, b) ==
    /\ r \in [0 .. n -> TakeStates]
    /\ r[0] = b /\ \A k \in 1 .. n : r[k] = Take(r[k - 1], s[k])
    /\ Taken(b, s) = r[n]

\* The fold is the last state of a run.
LEMMA TakeRuns ==
    ASSUME NEW n \in Nat, NEW s, DOMAIN s = 1 .. n, NEW b \in TakeStates
    PROVE  \E r : IsTaking(r, n, s, b)
<1> DEFINE g == [p \in TakeStates \X (1 .. n) |-> Take(p[1], s[p[2]])]
           Equation(f) == f = [S \in SUBSET (1 .. n) |->
                                 IF S = {} THEN b ELSE Take(f[S \ {Max(S)}], s[Max(S)])]
           iter == CHOOSE f : Equation(f)
           r == [k \in 0 .. n |-> iter[1 .. k]]
<1>1. Taken(b, s) = iter[1 .. n]
  BY DEF Taken, FoldLeft, MapThenFoldSet
<1>2. g \in [TakeStates \X (1 .. n) -> TakeStates]
  BY TakeType
<1>3. PICK f : IsTable(f, TakeStates, b, g, n)
  <2> HIDE DEF g
  <2> QED
    BY <1>2, TableExists
<1>4. Equation(f)
  <2>1. f \in [SUBSET (1 .. n) -> TakeStates]
    BY <1>3 DEF IsTable
  <2>2. ASSUME NEW S \in SUBSET (1 .. n)
        PROVE  f[S] = IF S = {} THEN b ELSE Take(f[S \ {Max(S)}], s[Max(S)])
    <3>1. CASE S = {}
      BY <1>3, <3>1 DEF IsTable
    <3>2. CASE S # {}
      <4>1. Max(S) \in 1 .. n
        BY <3>2, LastIn
      <4>2. f[S \ {Max(S)}] \in TakeStates
        BY <2>1
      <4>3. f[S] = g[<<f[S \ {Max(S)}], Max(S)>>]
        BY <1>3, <3>2 DEF IsTable
      <4>4. <<f[S \ {Max(S)}], Max(S)>> \in TakeStates \X (1 .. n)
        BY <4>1, <4>2
      <4> QED
        BY <3>2, <4>3, <4>4
    <3> QED
      BY <3>1, <3>2
  <2> QED
    BY <2>1, <2>2
<1>5. Equation(iter)
  BY <1>4
<1> HIDE DEF iter, g
<1>6. iter[{}] = b
  BY <1>5
<1>7. ASSUME NEW k \in 1 .. n PROVE iter[1 .. k] = Take(iter[1 .. k - 1], s[k])
  <2>1. 1 .. k \in SUBSET (1 .. n) /\ k \in 1 .. k /\ (1 .. k) \ {k} = 1 .. k - 1
    OBVIOUS
  <2>2. Max(1 .. k) = k
    BY LastUpTo
  <2> QED
    BY <1>5, <2>1, <2>2
<1>8. r[0] = b /\ \A k \in 1 .. n : r[k] = Take(r[k - 1], s[k])
  <2>1. 1 .. 0 = {}
    OBVIOUS
  <2> QED
    BY <1>6, <1>7, <2>1
<1> HIDE DEF r
<1>9. \A k \in 0 .. n : r[k] \in TakeStates
  <2> DEFINE T == {k \in 0 .. n : r[k] \in TakeStates}
  <2>1. 0 \in T
    BY <1>8
  <2>2. ASSUME NEW k \in 1 .. n, k - 1 \in T PROVE k \in T
    <3>1. r[k - 1] \in TakeStates /\ k \in 0 .. n
      BY <2>2
    <3>2. r[k] \in TakeStates
      BY <1>8, <3>1, TakeType
    <3> QED
      BY <3>1, <3>2
  <2>3. \A k \in 0 .. n : k \in T
    <3> HIDE DEF T
    <3> QED
      BY <2>1, <2>2, UpTo
  <2> QED
    BY <2>3
<1>10. r \in [0 .. n -> TakeStates] /\ r[n] = Taken(b, s)
  BY <1>1, <1>9 DEF r
<1>11. IsTaking(r, n, s, b)
  BY <1>8, <1>10 DEF IsTaking
<1> QED
  BY <1>11

\* One more character is one more step.
LEMMA TakeFold ==
    ASSUME NEW A, NEW s \in Seq(A), NEW c \in A, NEW b \in TakeStates
    PROVE  /\ Taken(b, s) \in TakeStates
           /\ Taken(b, Append(s, c)) = Take(Taken(b, s), c)
<1> DEFINE n == Len(s)
           u == s
           t == Append(s, c)
<1>1. /\ n \in Nat /\ n + 1 \in Nat /\ DOMAIN u = 1 .. n /\ DOMAIN t = 1 .. n + 1
      /\ t[n + 1] = c /\ \A k \in 1 .. n : t[k] = u[k]
  OBVIOUS
<1> HIDE DEF t, u, n
<1>2. n \in Nat /\ DOMAIN u = 1 .. n
  BY <1>1
<1>3. (\E q : IsTaking(q, n, u, b)) /\ (\E r : IsTaking(r, n + 1, t, b))
  BY <1>1, <1>2, TakeRuns
<1>4. PICK q : IsTaking(q, n, u, b)
  BY <1>3
<1>5. PICK r : IsTaking(r, n + 1, t, b)
  BY <1>3
<1>6. /\ q \in [0 .. n -> TakeStates]
      /\ q[0] = b /\ \A k \in 1 .. n : q[k] = Take(q[k - 1], u[k])
      /\ Taken(b, u) = q[n]
  BY <1>4 DEF IsTaking
<1>7. /\ r \in [0 .. n + 1 -> TakeStates]
      /\ r[0] = b /\ \A k \in 1 .. n + 1 : r[k] = Take(r[k - 1], t[k])
      /\ Taken(b, t) = r[n + 1]
  BY <1>5 DEF IsTaking
<1>8. \A k \in 1 .. n : r[k - 1] = q[k - 1] => r[k] = q[k]
  BY <1>1, <1>6, <1>7
<1>9. r[0] = q[0]
  BY <1>6, <1>7
<1>10. r[n] = q[n]
  BY <1>2, <1>9, <1>8, SameRun, Zenon
<1>11. n \in 0 .. n /\ n + 1 \in 1 .. n + 1 /\ (n + 1) - 1 = n
  BY <1>1
<1>12. r[n + 1] = Take(r[n], t[n + 1])
  BY <1>7, <1>11
<1>13. Taken(b, t) = Take(Taken(b, u), c)
  BY <1>1, <1>6, <1>7, <1>10, <1>12
<1>14. Taken(b, u) \in TakeStates
  BY <1>6, <1>11
<1> QED
  BY <1>13, <1>14 DEF t, u

\* Of no characters, there is no step.
LEMMA TakeFoldEmpty ==
    ASSUME NEW b \in TakeStates
    PROVE  Taken(b, <<>>) = b
<1>1. DOMAIN <<>> = 1 .. 0 /\ 0 \in Nat
  OBVIOUS
<1>2. PICK r : IsTaking(r, 0, <<>>, b)
  BY <1>1, TakeRuns
<1> QED
  BY <1>2 DEF IsTaking



\* A line that is not too long becomes a subject of its own.
Run(k) == [j \in 1 .. k |-> "c"]

\* The type of a line.
LEMMA RunType == \A k \in Nat : Run(k) \in Seq(Chr) /\ Len(Run(k)) = k /\ \A j \in 1 .. k : Run(k)[j] = "c"
BY DEF Run, Chr

\* A line that is one character longer.
LEMMA RunGrows ==
    ASSUME NEW s \in Seq(Chr), NEW k \in Nat \ {0}
    PROVE  s \o Run(k) = Append(s \o Run(k - 1), "c")
<1>1. k - 1 \in Nat /\ k \in Nat
  OBVIOUS
<1> DEFINE n == Len(s)
           a == s \o Run(k)
           d == s \o Run(k - 1)
           z == Append(d, "c")
<1>2. /\ a \in Seq(Chr) /\ Len(a) = n + k
      /\ \A i \in 1 .. n + k : a[i] = IF i <= n THEN s[i] ELSE Run(k)[i - n]
  <2>1. PICK u : u = Run(k)
    OBVIOUS
  <2>2. u \in Seq(Chr) /\ Len(u) = k
    BY <1>1, <2>1, RunType
  <2>3. /\ s \o u \in Seq(Chr) /\ Len(s \o u) = n + Len(u)
        /\ \A i \in 1 .. n + Len(u) : (s \o u)[i] = IF i <= n THEN s[i] ELSE u[i - n]
    BY <2>2, ConcatProperties
  <2> QED
    BY <2>1, <2>2, <2>3
<1>3. /\ d \in Seq(Chr) /\ Len(d) = n + (k - 1)
      /\ \A i \in 1 .. n + (k - 1) : d[i] = IF i <= n THEN s[i] ELSE Run(k - 1)[i - n]
  <2>1. PICK u : u = Run(k - 1)
    OBVIOUS
  <2>2. u \in Seq(Chr) /\ Len(u) = k - 1
    BY <1>1, <2>1, RunType
  <2>3. /\ s \o u \in Seq(Chr) /\ Len(s \o u) = n + Len(u)
        /\ \A i \in 1 .. n + Len(u) : (s \o u)[i] = IF i <= n THEN s[i] ELSE u[i - n]
    BY <2>2, ConcatProperties
  <2> QED
    BY <2>1, <2>2, <2>3
<1>4. n \in Nat /\ "c" \in Chr
  BY DEF Chr
<1> HIDE DEF a, d, n
<1>5. /\ z \in Seq(Chr) /\ Len(z) = n + k /\ z[n + k] = "c"
      /\ \A i \in 1 .. n + (k - 1) : z[i] = d[i]
  BY <1>3, <1>4
<1> HIDE DEF z
<1>6. \A i \in 1 .. n + k : a[i] = z[i]
  <2> TAKE i \in 1 .. n + k
  <2>1. CASE i <= n
    <3>1. i \in 1 .. n + (k - 1)
      BY <1>1, <1>4, <2>1
    <3> QED
      BY <1>2, <1>3, <1>5, <2>1, <3>1
  <2>2. CASE i > n /\ i # n + k
    <3>1. i \in 1 .. n + (k - 1) /\ i - n \in 1 .. k /\ i - n \in 1 .. k - 1 /\ ~ (i <= n)
      BY <1>1, <1>4, <2>2
    <3>2. Run(k)[i - n] = "c" /\ Run(k - 1)[i - n] = "c"
      BY <1>1, <3>1, RunType
    <3>3. a[i] = "c"
      BY <1>2, <3>1, <3>2
    <3>4. z[i] = d[i] /\ d[i] = "c"
      BY <1>3, <1>5, <3>1, <3>2
    <3> QED
      BY <3>3, <3>4
  <2>3. CASE i = n + k
    <3>1. k \in 1 .. k /\ i - n = k /\ ~ (i <= n)
      BY <1>4, <2>3
    <3>2. Run(k)[k] = "c"
      BY <1>1, <3>1, RunType
    <3> QED
      BY <1>2, <1>5, <2>3, <3>1, <3>2
  <2> QED
    BY <1>4, <2>1, <2>2, <2>3
<1>7. a = z
  BY <1>2, <1>4, <1>5, <1>6, SeqEqual
<1> QED
  BY <1>7 DEF a, z, d

Standing(h, k) == [heads |-> h, len |-> k]

\* What a character does to the subject that is read.
LEMMA TakeIs ==
    ASSUME NEW h \in Seq(Nat), NEW k \in Nat, k < SUBJ_LEN
    PROVE  /\ Take(Standing(h, k), "\n") = Standing(<<k>> \o h, 0)
           /\ k + 1 < SUBJ_LEN => Take(Standing(h, k), "c") = Standing(h, k + 1)
<1>1. SUBJ_LEN \in Nat
  BY ShellAssumption
<1> QED
  BY <1>1 DEF Take, Standing

\* A line that is short gives one subject.
LEMMA LineTaken ==
    ASSUME NEW s \in Seq(Chr), NEW b \in TakeStates, NEW h \in Seq(Nat), NEW L \in Nat,
           L < SUBJ_LEN, Taken(b, s) = Standing(h, 0)
    PROVE  /\ s \o (Run(L) \o <<"\n">>) \in Seq(Chr)
           /\ Taken(b, s \o (Run(L) \o <<"\n">>)) = Standing(<<L>> \o h, 0)
<1> DEFINE T == {k \in 0 .. L : Taken(b, s \o Run(k)) = Standing(h, k)}
<1>1. SUBJ_LEN \in Nat /\ "c" \in Chr /\ "\n" \in Chr
  BY ShellAssumption DEF Chr
<1>2. 0 \in T
  <2>1. Run(0) = <<>>
    BY DEF Run
  <2>2. s \o <<>> = s
    BY ConcatEmptySeq
  <2>3. Taken(b, s) = Standing(h, 0) /\ 0 \in 0 .. L
    OBVIOUS
  <2>4. Taken(b, s \o Run(0)) = Standing(h, 0)
    BY <2>1, <2>2, <2>3, Zenon
  <2> QED
    BY <2>3, <2>4
<1>3. ASSUME NEW k \in 1 .. L, k - 1 \in T PROVE k \in T
  <2>1. k \in Nat \ {0} /\ k - 1 \in Nat /\ k - 1 < SUBJ_LEN /\ (k - 1) + 1 = k /\ k < SUBJ_LEN
    BY <1>1
  <2>2. s \o Run(k - 1) \in Seq(Chr)
    BY <2>1, RunType, ConcatProperties
  <2>3. s \o Run(k) = Append(s \o Run(k - 1), "c")
    BY <2>1, RunGrows
  <2>4. Taken(b, Append(s \o Run(k - 1), "c")) = Take(Taken(b, s \o Run(k - 1)), "c")
    <3> DEFINE d == s \o Run(k - 1)
    <3> HIDE DEF d
    <3>1. d \in Seq(Chr)
      BY <2>2 DEF d
    <3>2. Taken(b, Append(d, "c")) = Take(Taken(b, d), "c")
      BY <1>1, <3>1, TakeFold
    <3> QED
      BY <3>2 DEF d
  <2>5. Taken(b, s \o Run(k - 1)) = Standing(h, k - 1)
    BY <1>3
  <2>6. Take(Standing(h, k - 1), "c") = Standing(h, (k - 1) + 1)
    BY <2>1, TakeIs
  <2>7. Taken(b, s \o Run(k)) = Standing(h, k)
    BY <2>1, <2>3, <2>4, <2>5, <2>6, Zenon
  <2>8. k \in 0 .. L
    OBVIOUS
  <2> QED
    BY <2>7, <2>8
<1>4. \A k \in 0 .. L : k \in T
  <2> HIDE DEF T
  <2> QED
    BY <1>2, <1>3, UpTo
<1>5. Taken(b, s \o Run(L)) = Standing(h, L)
  BY <1>4
<1> DEFINE d == s \o Run(L)
           e == <<"\n">>
<1>6. d \in Seq(Chr) /\ Run(L) \in Seq(Chr) /\ e \in Seq(Chr)
  BY <1>1, RunType, ConcatProperties
<1>7. s \o (Run(L) \o e) = d \o e
  BY <1>6, ConcatAssociative
<1> HIDE DEF d
<1>8. d \o e = Append(d, "\n") /\ Append(d, "\n") \in Seq(Chr)
  BY <1>1, <1>6
<1>9. Taken(b, Append(d, "\n")) = Take(Taken(b, d), "\n")
  BY <1>1, <1>6, TakeFold
<1>10. Take(Standing(h, L), "\n") = Standing(<<L>> \o h, 0)
  BY TakeIs
<1>11. Taken(b, d) = Standing(h, L)
  BY <1>5 DEF d
<1> QED
  BY <1>7, <1>8, <1>9, <1>10, <1>11, Zenon

\* The lines an output has behind the first, and the characters of them.
LineOf(o, k) == Run(o.rest[k]) \o <<"\n">>
AllLines(o) == FlattenSeq([k \in DOMAIN o.rest |-> LineOf(o, k)])

\* Characters, by lines.
LEMMA CharactersAre == \A o : Characters(o) = IF o.whole THEN AllLines(o)
                                    ELSE SubSeq(AllLines(o), 1, Len(AllLines(o)) - 1)
BY DEF Characters, AllLines, LineOf, Run

\* The type of these.
LEMMA LineOfType ==
    ASSUME NEW o, o.rest \in Seq(Nat), NEW k \in DOMAIN o.rest
    PROVE  LineOf(o, k) \in Seq(Chr) /\ o.rest[k] \in Nat
<1>1. o.rest[k] \in Nat
  OBVIOUS
<1>2. PICK u : u = Run(o.rest[k])
  OBVIOUS
<1>3. u \in Seq(Chr) /\ <<"\n">> \in Seq(Chr)
  BY <1>1, <1>2, RunType DEF Chr
<1>4. u \o <<"\n">> \in Seq(Chr)
  BY <1>3, ConcatProperties
<1> QED
  BY <1>1, <1>2, <1>4 DEF LineOf

\* The lines, one by one.
LEMMA LinesRun ==
    ASSUME NEW o, o.rest \in Seq(Nat)
    PROVE  \E e \in [0 .. Len(o.rest) -> Seq(Chr)] :
              /\ e[0] = <<>> /\ \A k \in 1 .. Len(o.rest) : e[k] = e[k - 1] \o LineOf(o, k)
              /\ AllLines(o) = e[Len(o.rest)]
<1> DEFINE n == Len(o.rest)
           ss == [k \in 1 .. n |-> LineOf(o, k)]
<1>1. n \in Nat /\ DOMAIN o.rest = 1 .. n
  OBVIOUS
<1>2. AllLines(o) = FlattenSeq(ss)
  BY <1>1 DEF AllLines
<1>3. \A k \in 1 .. n : LineOf(o, k) \in Seq(Chr)
  BY <1>1, LineOfType
<1> HIDE DEF n
<1>4. ss \in [1 .. n -> Seq(Chr)] /\ \A k \in 1 .. n : ss[k] = LineOf(o, k)
  BY <1>3
<1> HIDE DEF ss
<1>5. PICK e \in [0 .. n -> Seq(Chr)] :
          /\ e[0] = <<>> /\ \A k \in 1 .. n : e[k] = e[k - 1] \o ss[k]
          /\ FlattenSeq(ss) = e[n]
  BY <1>1, <1>4, FlattenRuns
<1>6. \A k \in 1 .. n : e[k] = e[k - 1] \o LineOf(o, k)
  BY <1>4, <1>5
<1> QED
  BY <1>2, <1>5, <1>6 DEF n

\* The type of an output.
LEMMA CharactersType ==
    ASSUME NEW o, o.rest \in Seq(Nat)
    PROVE  Characters(o) \in Seq(Chr)
<1>1. PICK e \in [0 .. Len(o.rest) -> Seq(Chr)] : AllLines(o) = e[Len(o.rest)]
  BY LinesRun
<1>2. AllLines(o) \in Seq(Chr)
  BY <1>1
<1>3. PICK a : a = AllLines(o)
  OBVIOUS
<1>4. SubSeq(a, 1, Len(a) - 1) \in Seq(Chr)
  BY <1>2, <1>3
<1> QED
  BY <1>2, <1>3, <1>4, CharactersAre, Zenon

\* shell_getHeaders has a subject for every line, when it has read these.
LEMMA CharactersTaken ==
    ASSUME NEW o, o.rest \in Seq(Nat), o.whole, \A k \in DOMAIN o.rest : o.rest[k] < SUBJ_LEN
    PROVE  Taken(Standing(<<>>, 0), Characters(o)) = Standing(Reverse(o.rest), 0)
<1> DEFINE n == Len(o.rest)
           b == Standing(<<>>, 0)
           back(k) == [i \in 1 .. k |-> o.rest[k - i + 1]]
<1>1. PICK e \in [0 .. n -> Seq(Chr)] :
          /\ e[0] = <<>> /\ \A k \in 1 .. n : e[k] = e[k - 1] \o LineOf(o, k)
          /\ AllLines(o) = e[n]
  BY LinesRun
<1>2. n \in Nat /\ DOMAIN o.rest = 1 .. n /\ \A k \in 1 .. n : o.rest[k] \in Nat
  OBVIOUS
<1>3. b \in TakeStates
  BY DEF Standing, TakeStates
<1> DEFINE T == {k \in 0 .. n : Taken(b, e[k]) = Standing(back(k), 0)}
<1>4. 0 \in T
  <2>1. back(0) = <<>>
    OBVIOUS
  <2> HIDE DEF back
  <2>2. Taken(b, <<>>) = b
    BY <1>3, TakeFoldEmpty
  <2>3. Taken(b, e[0]) = Standing(back(0), 0)
    BY <1>1, <2>1, <2>2, Zenon
  <2>4. 0 \in 0 .. n
    BY <1>2
  <2> QED
    BY <2>3, <2>4
<1>5. ASSUME NEW k \in 1 .. n, k - 1 \in T PROVE k \in T
  <2> DEFINE h == back(k - 1)
             L == o.rest[k]
             s == e[k - 1]
  <2>1. k - 1 \in 0 .. n /\ k - 1 \in Nat /\ k \in 0 .. n
    BY <1>2
  <2>2. h \in Seq(Nat) /\ Len(h) = k - 1 /\ \A i \in 1 .. k - 1 : h[i] = o.rest[(k - 1) - i + 1]
    <3>1. \A i \in 1 .. k - 1 : (k - 1) - i + 1 \in 1 .. n
      BY <1>2
    <3> QED
      BY <1>2, <2>1, <3>1
  <2>3. <<L>> \o h = back(k)
    <3> DEFINE u == <<L>>
    <3>1. u \in Seq(Nat) /\ Len(u) = 1 /\ u[1] = L
      BY <1>2
    <3> HIDE DEF h, u
    <3>2. /\ u \o h \in Seq(Nat) /\ Len(u \o h) = 1 + (k - 1)
          /\ \A i \in 1 .. 1 + (k - 1) : (u \o h)[i] = IF i <= 1 THEN u[i] ELSE h[i - 1]
      <4>1. /\ u \o h \in Seq(Nat) /\ Len(u \o h) = Len(u) + Len(h)
            /\ \A i \in 1 .. Len(u) + Len(h) :
                  (u \o h)[i] = IF i <= Len(u) THEN u[i] ELSE h[i - Len(u)]
        <5>1. u \in Seq(Nat) /\ h \in Seq(Nat)
          BY <2>2, <3>1
        <5> QED
          BY <5>1, ConcatProperties
      <4> QED
        BY <2>2, <3>1, <4>1, Zenon
    <3>3. back(k) \in Seq(Nat) /\ Len(back(k)) = k /\ \A i \in 1 .. k : back(k)[i] = o.rest[k - i + 1]
      <4>1. \A i \in 1 .. k : k - i + 1 \in 1 .. n
        BY <1>2
      <4>2. \A i \in 1 .. k : o.rest[k - i + 1] \in Nat
        BY <1>2, <4>1
      <4>3. back(k) \in [1 .. k -> Nat] /\ k \in Nat
        BY <4>2
      <4> QED
        BY <4>3
    <3>4. \A i \in 1 .. k : (u \o h)[i] = o.rest[k - i + 1]
      <4> TAKE i \in 1 .. k
      <4>1. i \in 1 .. 1 + (k - 1) /\ i \in Int
        BY <2>1
      <4>2. CASE i = 1
        <5>1. k - i + 1 = k
          BY <2>1, <4>2
        <5>2. (u \o h)[i] = u[1]
          BY <3>2, <4>1, <4>2, SMTT(30)
        <5> QED
          BY <3>1, <4>2, <5>1, <5>2
      <4>3. CASE i # 1
        <5>1. i - 1 \in 1 .. k - 1 /\ (k - 1) - (i - 1) + 1 = k - i + 1 /\ ~ (i <= 1)
          BY <2>1, <4>1, <4>3
        <5> QED
          BY <2>2, <3>2, <4>1, <5>1
      <4> QED
        BY <4>2, <4>3
    <3> HIDE DEF back
    <3>5. 1 + (k - 1) = k
      BY <2>1
    <3>6. Len(u \o h) = k /\ \A i \in 1 .. k : (u \o h)[i] = back(k)[i]
      BY <3>2, <3>3, <3>4, <3>5, Zenon
    <3>7. u \o h = back(k)
      BY <3>2, <3>3, <3>6, SeqEqual
    <3> QED
      BY <3>7 DEF u
  <2>4. L \in Nat /\ L < SUBJ_LEN
    BY <1>2
  <2>5. Taken(b, s) = Standing(h, 0) /\ s \in Seq(Chr)
    BY <1>1, <1>5, <2>1
  <2>6. e[k] = s \o (Run(L) \o <<"\n">>)
    BY <1>1 DEF LineOf
  <2> HIDE DEF s, h, L, back
  <2>7. Taken(b, s \o (Run(L) \o <<"\n">>)) = Standing(<<L>> \o h, 0)
    BY <1>3, <2>2, <2>4, <2>5, LineTaken
  <2>8. Taken(b, e[k]) = Standing(back(k), 0)
    BY <2>3, <2>6, <2>7, Zenon
  <2> QED
    BY <2>1, <2>8
<1>6. \A k \in 0 .. n : k \in T
  <2> HIDE DEF T
  <2> QED
    BY <1>2, <1>4, <1>5, UpTo
<1>7. Taken(b, e[n]) = Standing(back(n), 0)
  <2>1. n \in 0 .. n
    BY <1>2
  <2> HIDE DEF back, b, n
  <2> QED
    BY <1>6, <2>1
<1>8. back(n) = Reverse(o.rest)
  BY DEF Reverse
<1>9. Characters(o) = e[n]
  BY <1>1, CharactersAre, Zenon
<1> QED
  BY <1>7, <1>8, <1>9, Zenon

\* A list of which s is the end.
EndsWith(t, s) ==
    /\ t \in Seq(Nat) /\ Len(s) <= Len(t)
    /\ \A i \in 1 .. Len(s) : t[Len(t) - Len(s) + i] = s[i]

\* Then s is a suffix.
LEMMA SuffixIs ==
    ASSUME NEW s \in Seq(Nat), NEW t, EndsWith(t, s)
    PROVE  IsSuffix(s, t)
<1> DEFINE n == Len(s)
           m == Len(t)
           rs == Reverse(s)
           rt == Reverse(t)
<1>1. n \in Nat /\ m \in Nat /\ n <= m /\ t \in Seq(Nat)
  BY DEF EndsWith
<1>2. /\ rs \in Seq(Nat) /\ Len(rs) = n /\ \A i \in 1 .. n : rs[i] = s[n - i + 1]
  <2>1. \A i \in 1 .. n : n - i + 1 \in 1 .. n
    BY <1>1
  <2> QED
    BY <1>1, <2>1 DEF Reverse
<1>3. /\ rt \in Seq(Nat) /\ Len(rt) = m /\ \A i \in 1 .. m : rt[i] = t[m - i + 1]
  <2>1. \A i \in 1 .. m : m - i + 1 \in 1 .. m
    BY <1>1
  <2> QED
    BY <1>1, <2>1 DEF Reverse
<1>4. \A i \in 1 .. n : rs[i] = rt[i]
  <2> TAKE i \in 1 .. n
  <2>1. n - i + 1 \in 1 .. n /\ i \in 1 .. m /\ m - n + (n - i + 1) = m - i + 1
    BY <1>1
  <2>2. t[m - n + (n - i + 1)] = s[n - i + 1]
    BY <2>1 DEF EndsWith
  <2> QED
    BY <1>2, <1>3, <2>1, <2>2
<1>5. IsSuffix(s, t) <=> IsPrefix(rs, rt)
  BY DEF IsSuffix
<1> HIDE DEF rs, rt, n, m
<1>6. \A i \in 1 .. n : rs[i] \in Nat /\ rt[i] \in Nat
  BY <1>1, <1>2, <1>4
<1>7. /\ SubSeq(rs, 1, n) \in Seq(Nat) /\ Len(SubSeq(rs, 1, n)) = n
      /\ \A i \in 1 .. n : SubSeq(rs, 1, n)[i] = rs[i]
  BY <1>1, <1>2, <1>6
<1>8. /\ SubSeq(rt, 1, n) \in Seq(Nat) /\ Len(SubSeq(rt, 1, n)) = n
      /\ \A i \in 1 .. n : SubSeq(rt, 1, n)[i] = rt[i]
  BY <1>1, <1>3, <1>6
<1>9. SubSeq(rs, 1, n) = SubSeq(rt, 1, n)
  <2>1. PICK x, y : x = SubSeq(rs, 1, n) /\ y = SubSeq(rt, 1, n)
    OBVIOUS
  <2>2. x \in Seq(Nat) /\ y \in Seq(Nat) /\ Len(x) = n /\ Len(y) = n /\ \A i \in 1 .. n : x[i] = y[i]
    BY <1>4, <1>7, <1>8, <2>1
  <2>3. x = y
    BY <2>2, SeqEqual
  <2> QED
    BY <2>1, <2>3
<1>10. IsPrefix(rs, rt)
  BY <1>1, <1>2, <1>3, <1>9 DEF IsPrefix
<1> QED
  BY <1>5, <1>10

\* Another subject is put in front of those there are.
LEMMA TakeKeepsEnd ==
    ASSUME NEW s \in Seq(Nat), NEW x \in TakeStates, NEW ch, EndsWith(x.heads, s)
    PROVE  EndsWith(Take(x, ch).heads, s)
<1> DEFINE t == x.heads
           v == x.len
           u == <<v>>
           w == u \o t
<1>1. t \in Seq(Nat) /\ v \in Nat
  BY DEF TakeStates
<1>2. Take(x, ch).heads = w \/ Take(x, ch).heads = t
  BY DEF Take, TakeStates
<1>3. u \in Seq(Nat) /\ Len(u) = 1 /\ Len(s) \in Nat /\ Len(t) \in Nat
  BY <1>1
<1> HIDE DEF t, v, u
<1>4. /\ w \in Seq(Nat) /\ Len(w) = 1 + Len(t)
      /\ \A i \in 1 .. 1 + Len(t) : w[i] = IF i <= 1 THEN u[i] ELSE t[i - 1]
  <2>1. /\ u \o t \in Seq(Nat) /\ Len(u \o t) = Len(u) + Len(t)
        /\ \A i \in 1 .. Len(u) + Len(t) :
              (u \o t)[i] = IF i <= Len(u) THEN u[i] ELSE t[i - Len(u)]
    BY <1>1, <1>3, ConcatProperties
  <2> QED
    BY <1>3, <2>1, Zenon
<1> HIDE DEF w
<1>5. EndsWith(w, s)
  <2>1. Len(s) <= Len(t) /\ \A i \in 1 .. Len(s) : t[Len(t) - Len(s) + i] = s[i]
    BY DEF EndsWith, t
  <2>2. ASSUME NEW i \in 1 .. Len(s) PROVE w[Len(w) - Len(s) + i] = s[i]
    <3>1. PICK j : j = Len(w) - Len(s) + i
      OBVIOUS
    <3>2. j \in 1 .. 1 + Len(t) /\ ~ (j <= 1) /\ j - 1 = Len(t) - Len(s) + i
      <4>1. Len(s) <= Len(t) /\ Len(w) = 1 + Len(t)
        BY <1>4, <2>1
      <4> QED
        BY <1>3, <3>1, <4>1
    <3>3. w[j] = t[j - 1]
      BY <1>4, <3>2
    <3> QED
      BY <2>1, <3>1, <3>2, <3>3
  <2> QED
    BY <1>3, <1>4, <2>1, <2>2 DEF EndsWith
<1> QED
  BY <1>2, <1>5 DEF t

\* What the buffer holds behind the characters of an output does not change the
\* subjects they give.
LEMMA MoreTaken ==
    ASSUME NEW c, NEW d, NEW m \in Nat, NEW n \in Nat, m <= n,
           DOMAIN c = 1 .. m, DOMAIN d = 1 .. n, \A i \in 1 .. m : d[i] = c[i],
           NEW s \in Seq(Nat), Taken(Standing(<<>>, 0), c) = Standing(s, 0)
    PROVE  EndsWith(Taken(Standing(<<>>, 0), d).heads, s)
<1> DEFINE b == Standing(<<>>, 0)
<1>1. b \in TakeStates
  BY DEF Standing, TakeStates
<1> HIDE DEF b
<1>2. PICK q : IsTaking(q, m, c, b)
  BY <1>1, TakeRuns
<1>3. PICK r : IsTaking(r, n, d, b)
  BY <1>1, TakeRuns
<1>4. /\ q \in [0 .. m -> TakeStates] /\ q[0] = b
      /\ \A k \in 1 .. m : q[k] = Take(q[k - 1], c[k])
  BY <1>2 DEF IsTaking
<1>5. /\ r \in [0 .. n -> TakeStates] /\ r[0] = b
      /\ \A k \in 1 .. n : r[k] = Take(r[k - 1], d[k])
  BY <1>3 DEF IsTaking
<1>6. Taken(b, c) = q[m] /\ Taken(b, d) = r[n]
  BY <1>2, <1>3 DEF IsTaking
<1>7. ASSUME NEW k \in 1 .. m, r[k - 1] = q[k - 1] PROVE r[k] = q[k]
  <2>1. r[k] = Take(r[k - 1], d[k]) /\ q[k] = Take(q[k - 1], c[k])
    BY <1>4, <1>5
  <2>2. d[k] = c[k]
    OBVIOUS
  <2> QED
    BY <1>7, <2>1, <2>2
<1>8. r[0] = q[0] /\ \A k \in 1 .. m : r[k - 1] = q[k - 1] => r[k] = q[k]
  BY <1>4, <1>5, <1>7
<1>9. r[m] = q[m]
  BY <1>8, SameRun, Zenon
<1>10. r[m] = Standing(s, 0)
  BY <1>6, <1>9 DEF b
<1> DEFINE T == {k \in 0 .. n : k >= m => EndsWith(r[k].heads, s)}
<1>11. EndsWith(s, s)
  BY DEF EndsWith
<1>12. EndsWith(r[m].heads, s)
  BY <1>10, <1>11 DEF Standing
<1>13. 0 \in T
  <2>1. 0 >= m => 0 = m
    OBVIOUS
  <2> QED
    BY <1>12, <2>1
<1>14. ASSUME NEW k \in 1 .. n, k - 1 \in T PROVE k \in T
  <2>1. CASE k = m
    BY <1>12, <2>1
  <2>2. CASE k < m
    BY <2>2
  <2>3. CASE k > m
    <3>1. EndsWith(r[k - 1].heads, s) /\ k - 1 \in 0 .. n
      BY <1>14, <2>3
    <3>2. r[k - 1] \in TakeStates /\ r[k] = Take(r[k - 1], d[k])
      BY <1>5, <3>1
    <3>3. EndsWith(Take(r[k - 1], d[k]).heads, s)
      BY <3>1, <3>2, TakeKeepsEnd
    <3> QED
      BY <3>2, <3>3
  <2> QED
    BY <2>1, <2>2, <2>3
<1>15. \A k \in 0 .. n : k \in T
  <2> HIDE DEF T
  <2> QED
    BY <1>13, <1>14, UpTo
<1>16. EndsWith(r[n].heads, s)
  BY <1>15
<1> QED
  BY <1>6, <1>16 DEF b

\* A string ends at the first NUL, so not among the characters.
Stored == Chr \union {NUL}

LEMMA StringKeeps ==
    ASSUME NEW c \in Seq(Chr), NEW t \in Seq(Stored)
    PROVE  \E n \in Nat : /\ Len(c) <= n /\ DOMAIN String(c \o t) = 1 .. n
                          /\ \A i \in 1 .. Len(c) : String(c \o t)[i] = c[i]
<1> DEFINE m == Len(c)
           buf == c \o t
           ends == {k \in DOMAIN buf : buf[k] = NUL}
<1>1. c \in Seq(Stored) /\ m \in Nat /\ Len(t) \in Nat /\ \A i \in 1 .. m : c[i] # NUL
  BY DEF Stored, Chr, NUL
<1>2. /\ buf \in Seq(Stored) /\ Len(buf) = m + Len(t) /\ DOMAIN buf = 1 .. m + Len(t)
      /\ \A i \in 1 .. m + Len(t) : buf[i] = IF i <= m THEN c[i] ELSE t[i - m]
  BY <1>1, ConcatProperties
<1> HIDE DEF buf, m
<1>3. \A i \in 1 .. m : buf[i] = c[i] /\ buf[i] # NUL
  BY <1>1, <1>2
<1>4. PICK n : n = (IF ends = {} THEN Len(buf) ELSE Min(ends) - 1)
  OBVIOUS
<1>5. n \in Nat /\ m <= n /\ n <= Len(buf)
  <2>1. CASE ends = {}
    BY <1>1, <1>2, <1>4, <2>1
  <2>2. CASE ends # {}
    <3>1. ends \subseteq Nat
      BY <1>1, <1>2
    <3>2. Min(ends) \in ends
      BY <2>2, <3>1, FirstIn
    <3>3. PICK x : x = Min(ends)
      OBVIOUS
    <3>4. x \in 1 .. m + Len(t) /\ x \notin 1 .. m
      BY <1>2, <1>3, <3>2, <3>3
    <3>5. n = x - 1
      BY <1>4, <2>2, <3>3
    <3> QED
      BY <1>1, <1>2, <3>4, <3>5
  <2> QED
    BY <2>1, <2>2
<1>6. String(buf) = SubSeq(buf, 1, n)
  BY <1>4 DEF String
<1>7. DOMAIN SubSeq(buf, 1, n) = 1 .. n /\ \A i \in 1 .. n : SubSeq(buf, 1, n)[i] = buf[i]
  BY <1>2, <1>5
<1>8. \A i \in 1 .. m : i \in 1 .. n
  BY <1>1, <1>5
<1> QED
  BY <1>3, <1>5, <1>6, <1>7, <1>8 DEF buf, m

\* What the popup's list promises of the output, and that allbuf holds
\* characters: the list is made anew by a check, and left alone while a path is
\* expanded.
Listed == ShortLines => IsSuffix(Reverse(out.rest), shell_getHeaders(detail))

HeadersInv ==
    /\ purpose \in {"check", "path"}
    /\ allbuf \in Seq(Stored)
    /\ pc # "read" \/ purpose = "path" => Listed

\* The type of a list from its end.
LEMMA ReverseType ==
    ASSUME NEW s \in Seq(Nat)
    PROVE  Reverse(s) \in Seq(Nat)
<1>1. \A i \in 1 .. Len(s) : (Len(s) - i) + 1 \in 1 .. Len(s)
  OBVIOUS
<1> QED
  BY <1>1 DEF Reverse

\* What the buffer was left with stays behind the characters.
LEMMA OverlayType ==
    ASSUME allbuf \in Seq(Stored), NEW c \in Seq(Chr)
    PROVE  \E t \in Seq(Stored) : Overlay(c) = c \o t
<1> DEFINE cleared == IF allbuf = <<>> THEN <<>> ELSE <<NUL>> \o Tail(allbuf)
           t == SubSeq(cleared, Len(c) + 1, Len(cleared))
<1>1. cleared \in Seq(Stored)
  <2>1. CASE allbuf = <<>>
    BY <2>1
  <2>2. CASE allbuf # <<>>
    <3>1. Tail(allbuf) \in Seq(Stored) /\ <<NUL>> \in Seq(Stored)
      BY <2>2 DEF Stored
    <3>2. <<NUL>> \o Tail(allbuf) \in Seq(Stored)
      BY <3>1, ConcatProperties
    <3> QED
      BY <2>2, <3>2
  <2> QED
    BY <2>1, <2>2
<1>2. Overlay(c) = c \o t
  BY DEF Overlay
<1> HIDE DEF cleared
<1>3. t \in Seq(Stored)
  BY <1>1
<1> QED
  BY <1>2, <1>3

\* The list of a check that has just been read.
LEMMA GrabLists ==
    ASSUME allbuf \in Seq(Stored), NEW o \in Outputs,
           out' = o, allbuf' = Overlay(Characters(o)), detail' = String(allbuf')
    PROVE  allbuf' \in Seq(Stored) /\ Listed'
<1> DEFINE c == Characters(o)
           b == Standing(<<>>, 0)
<1>1. o.rest \in Seq(Nat) /\ o.whole \in BOOLEAN
  BY ShellAssumption DEF Output
<1>2. c \in Seq(Chr)
  BY <1>1, CharactersType
<1> HIDE DEF c
<1>3. PICK t \in Seq(Stored) : allbuf' = c \o t
  BY <1>2, OverlayType DEF c
<1>4. allbuf' \in Seq(Stored)
  <2>1. c \in Seq(Stored)
    BY <1>2 DEF Stored
  <2> QED
    BY <1>3, <2>1, ConcatProperties
<1>5. ASSUME o.whole, \A k \in DOMAIN o.rest : o.rest[k] < SUBJ_LEN
      PROVE  IsSuffix(Reverse(o.rest), shell_getHeaders(String(c \o t)))
  <2>1. Taken(b, c) = Standing(Reverse(o.rest), 0)
    BY <1>1, <1>5, CharactersTaken DEF c
  <2>2. PICK n \in Nat : /\ Len(c) <= n /\ DOMAIN String(c \o t) = 1 .. n
                         /\ \A i \in 1 .. Len(c) : String(c \o t)[i] = c[i]
    BY <1>2, <1>3, StringKeeps
  <2>3. PICK d : d = String(c \o t)
    OBVIOUS
  <2>4. Len(c) \in Nat /\ DOMAIN c = 1 .. Len(c)
    BY <1>2
  <2>5. Reverse(o.rest) \in Seq(Nat)
    BY <1>1, ReverseType
  <2> DEFINE m == Len(c)
             s == Reverse(o.rest)
  <2> HIDE DEF m, s
  <2>6. /\ m \in Nat /\ m <= n /\ DOMAIN c = 1 .. m /\ DOMAIN d = 1 .. n
        /\ \A i \in 1 .. m : d[i] = c[i]
    BY <2>2, <2>3, <2>4 DEF m
  <2>7. s \in Seq(Nat) /\ Taken(Standing(<<>>, 0), c) = Standing(s, 0)
    BY <2>1, <2>5 DEF s
  <2>8. EndsWith(Taken(Standing(<<>>, 0), d).heads, s)
    BY <2>2, <2>6, <2>7, MoreTaken
  <2>9. shell_getHeaders(d) = Taken(Standing(<<>>, 0), d).heads
    BY DEF shell_getHeaders, Taken, Standing
  <2>10. IsSuffix(s, shell_getHeaders(d))
    BY <2>7, <2>8, <2>9, SuffixIs
  <2> QED
    BY <2>3, <2>10 DEF s
<1>6. detail' = String(c \o t)
  BY <1>3
<1>7. Listed'
  BY <1>5, <1>6 DEF Listed, ShortLines
<1> QED
  BY <1>4, <1>7

\* Of nothing there is no list.
LEMMA NothingShown == IsSuffix(Reverse(<<>>), shell_getHeaders(<<>>))
<1> DEFINE s == <<>>
           b == Standing(s, 0)
<1>1. b \in TakeStates /\ s \in Seq(Nat)
  BY DEF Standing, TakeStates
<1>2. Taken(b, <<>>) = b
  BY <1>1, TakeFoldEmpty
<1>3. shell_getHeaders(<<>>) = Taken(b, <<>>).heads
  BY DEF shell_getHeaders, Taken, Standing
<1>4. shell_getHeaders(<<>>) = <<>>
  BY <1>2, <1>3 DEF Standing
<1>5. Reverse(<<>>) = <<>>
  BY DEF Reverse
<1>6. EndsWith(<<>>, <<>>)
  BY DEF EndsWith
<1> QED
  BY <1>1, <1>4, <1>5, <1>6, SuffixIs

\* A window that has just started, and a command that did not, list nothing.
LEMMA NothingListed ==
    ASSUME out' = NoOutput, detail' = <<>>
    PROVE  Listed'
BY NothingShown DEF Listed, NoOutput

\* A step of others.
LEMMA SameHeaders ==
    ASSUME HeadersInv, UNCHANGED <<out, allbuf, detail, purpose>>,
           pc # "read" \/ pc' = "read"
    PROVE  HeadersInv'
BY DEF HeadersInv, Listed, ShortLines

\* Every step keeps the promise.
LEMMA StepHeaders == HeadersInv /\ [Next]_vars => HeadersInv'
<1>1. SUFFICES ASSUME HeadersInv, [Next]_vars PROVE HeadersInv'
  OBVIOUS
<1>2. CASE StartCheck
  <2>1. pc' = "read" /\ purpose' = "check" /\ allbuf' = allbuf
    BY <1>2 DEF StartCheck, kind_popen
  <2> QED
    BY <1>1, <2>1 DEF HeadersInv
<1>3. CASE CannotStart
  <2>1. out' = NoOutput /\ detail' = <<>> /\ UNCHANGED <<allbuf, purpose>>
    BY <1>3 DEF CannotStart
  <2>2. Listed'
    BY <2>1, NothingListed
  <2> QED
    BY <1>1, <2>1, <2>2 DEF HeadersInv
<1>4. CASE StartExpand
  <2>1. pc = "idle" /\ purpose' = "path" /\ UNCHANGED <<out, allbuf, detail>>
    BY <1>4 DEF StartExpand, counters
  <2>2. Listed'
    BY <1>1, <2>1 DEF HeadersInv, Listed, ShortLines
  <2> QED
    BY <1>1, <2>1, <2>2 DEF HeadersInv
<1>5. CASE Grab
  <2>1. CASE purpose = "check"
    <3>1. PICK o \in Outputs : /\ out' = o /\ allbuf' = Overlay(Characters(o))
                               /\ detail' = String(allbuf')
      BY <1>5, <2>1 DEF Grab
    <3>2. allbuf' \in Seq(Stored) /\ Listed'
      BY <1>1, <3>1, GrabLists DEF HeadersInv
    <3>3. purpose' = purpose
      BY <1>5 DEF Grab
    <3> QED
      BY <1>1, <3>2, <3>3 DEF HeadersInv
  <2>2. CASE purpose # "check"
    <3>1. UNCHANGED <<out, allbuf, detail, purpose>>
      BY <1>5, <2>2 DEF Grab
    <3>2. purpose = "path"
      BY <1>1, <2>2 DEF HeadersInv
    <3> QED
      BY <1>1, <3>1, <3>2 DEF HeadersInv, Listed, ShortLines
  <2> QED
    BY <2>1, <2>2
<1>6. CASE Finish
  <2>1. pc = "close" /\ UNCHANGED <<out, allbuf, detail, purpose>>
    BY <1>6 DEF Finish, counters
  <2> QED
    BY <1>1, <2>1, SameHeaders
<1>7. CASE Around
  <2>1. UNCHANGED <<out, allbuf, detail, purpose>>
    BY <1>7 DEF Around, counters
  <2>2. pc # "read" \/ pc' = "read"
    BY <1>7 DEF Around, Ends, Reap, InstallHandlers, execCommand
  <2> QED
    BY <1>1, <2>1, <2>2, SameHeaders
<1>8. CASE Restart
  <2>1. out' = NoOutput /\ detail' = <<>> /\ allbuf' = <<>> /\ purpose' = "check"
    BY <1>8 DEF Restart, Fresh
  <2>2. Listed'
    BY <2>1, NothingListed
  <2> QED
    BY <2>1, <2>2 DEF HeadersInv
<1>9. CASE UNCHANGED vars
  BY <1>1, <1>9, SameHeaders DEF vars, counters, childVars
<1> QED
  BY <1>1, <1>2, <1>3, <1>4, <1>5, <1>6, <1>7, <1>8, <1>9 DEF Next

\* The popup shows every short line behind the first, whatever outputs were
\* read before and whatever paths were expanded since.
THEOREM HeadersSafety == Spec => []HeadersAreLines
<1>1. Init => HeadersInv
  <2>1. ASSUME Init PROVE HeadersInv
    <3>1. out = NoOutput /\ detail = <<>> /\ allbuf = <<>> /\ purpose = "check"
      BY <2>1 DEF Init
    <3>2. IsSuffix(Reverse(<<>>), shell_getHeaders(<<>>))
      BY NothingShown
    <3> QED
      BY <3>1, <3>2 DEF HeadersInv, Listed, NoOutput
  <2> QED
    BY <2>1
<1>2. HeadersInv => HeadersAreLines
  BY DEF HeadersInv, Listed, HeadersAreLines
<1> QED
  BY <1>1, <1>2, StepHeaders, PTL DEF Spec

-----------------------------------------------------------------------------
(* Mbox: the times.                                                         *)

\* The times while nobody else acts: what utime will put back is what was there.
TimesInv ==
    quiet /\ ~blind =>
        /\ call = "idle" => before = <<mtime, atime>>
        /\ call # "idle" => present /\ before = <<mtime, actime>> /\ saved.mtime = mtime

\* Every step keeps them.
LEMMA TimesStep == TimesInv /\ [MboxNext]_mboxVars => TimesInv'
<1> SUFFICES ASSUME TimesInv, [MboxNext]_mboxVars PROVE TimesInv'
  OBVIOUS
<1>1. CASE Stat
  <2>1. before' = <<mtime, atime>> /\ mtime' = mtime /\ atime' = atime
    BY <1>1 DEF Stat, folder
  <2>2. CASE Changed
    <3>1. saved'.mtime = mtime /\ actime' = atime /\ present'
      BY <1>1, <2>2 DEF Stat, Changed, folder
    <3> QED
      BY <2>1, <3>1 DEF TimesInv
  <2>3. CASE ~Changed /\ OldMsgs < 0
    <3>1. blind'
      BY <1>1, <2>3 DEF Stat
    <3> QED
      BY <3>1 DEF TimesInv
  <2>4. CASE ~Changed /\ ~ (OldMsgs < 0)
    <3>1. call' = "idle"
      BY <1>1, <2>4 DEF Stat
    <3> QED
      BY <2>1, <3>1 DEF TimesInv
  <2> QED
    BY <2>2, <2>3, <2>4
<1>2. CASE Open
  BY <1>2 DEF Open, TimesInv, folder
<1>3. CASE Read
  BY <1>3 DEF Read, TimesInv
<1>4. CASE Utime
  BY <1>4 DEF Utime, TimesInv
<1>5. CASE Deliver \/ MarkRead \/ Delete \/ Record
  <2>1. ~quiet'
    BY <1>5 DEF Deliver, MarkRead, Delete, Record, Write
  <2> QED
    BY <2>1 DEF TimesInv
<1>6. CASE Look \/ Replace
  BY <1>6 DEF Look, Replace, TimesInv
<1>7. CASE Tick \/ UNCHANGED mboxVars
  BY <1>7 DEF Tick, TimesInv, mboxVars, folder
<1> QED
  BY <1>1, <1>2, <1>3, <1>4, <1>5, <1>6, <1>7 DEF MboxNext, Check, Others

\* Every check of an mbox that nobody else touches, but a blind recount, puts
\* back the times it found: utime restores what stat saw.
THEOREM TimesSafety == MboxSpec => []NoTraceOfTheCheck
<1>1. MboxInit => TimesInv
  <2>1. MboxInit => ~quiet
    BY DEF MboxInit
  <2> QED
    BY <2>1 DEF TimesInv
<1>2. TimesInv => NoTraceOfTheCheck
  BY DEF TimesInv, NoTraceOfTheCheck
<1> QED
  BY <1>1, <1>2, TimesStep, PTL DEF MboxSpec

-----------------------------------------------------------------------------
(* The folder: at most one message is the one clients keep for themselves.  *)

Message == [kind : Kinds \union {"imap"}, read : BOOLEAN]

Kept(s) ==
    /\ s \in Seq(Message)
    /\ \A j, k \in DOMAIN s : s[j].kind = "imap" /\ s[k].kind = "imap" => j = k

\* A message that arrives is not the clients' own.
LEMMA DeliveredKept ==
    ASSUME NEW s, Kept(s), NEW kind \in Kinds
    PROVE  Kept(Append(s, [kind |-> kind, read |-> FALSE]))
<1> DEFINE m == [kind |-> kind, read |-> FALSE]
           t == Append(s, m)
<1>1. m \in Message /\ m.kind # "imap"
  BY MboxAssumption DEF Message
<1> HIDE DEF m
<1>2. s \in Seq(Message)
  BY DEF Kept
<1>3. /\ t \in Seq(Message) /\ DOMAIN t = 1 .. Len(s) + 1 /\ DOMAIN s = 1 .. Len(s) /\ Len(s) \in Nat
      /\ t[Len(s) + 1] = m /\ \A k \in 1 .. Len(s) : t[k] = s[k]
  BY <1>1, <1>2
<1>4. \A k \in DOMAIN t : t[k].kind = "imap" => k \in DOMAIN s /\ t[k] = s[k]
  BY <1>1, <1>3
<1> HIDE DEF t
<1>5. Kept(t)
  BY <1>3, <1>4 DEF Kept
<1> QED
  BY <1>5 DEF t, m

\* A mark keeps every message in its place.
LEMMA MarkedKept ==
    ASSUME NEW s, Kept(s), NEW i \in DOMAIN s
    PROVE  Kept([s EXCEPT ![i].read = TRUE])
<1> DEFINE t == [s EXCEPT ![i].read = TRUE]
<1>1. s \in Seq(Message) /\ \A k \in DOMAIN s : s[k] \in Message
  BY DEF Kept
<1>2. [s[i] EXCEPT !.read = TRUE] \in Message /\ [s[i] EXCEPT !.read = TRUE].kind = s[i].kind
      /\ [s[i] EXCEPT !.read = TRUE].read
  BY <1>1 DEF Message
<1>3. /\ t \in Seq(Message) /\ DOMAIN t = DOMAIN s
      /\ \A k \in DOMAIN s : t[k] = IF k = i THEN [s[i] EXCEPT !.read = TRUE] ELSE s[k]
  BY <1>1, <1>2
<1>4. \A k \in DOMAIN s : t[k].kind = s[k].kind
  BY <1>2, <1>3
<1> HIDE DEF t
<1>5. Kept(t)
  BY <1>3, <1>4 DEF Kept
<1> QED
  BY <1>5 DEF t

\* So does the removal of another.
LEMMA RemovedKept ==
    ASSUME NEW s, Kept(s), NEW i \in DOMAIN s
    PROVE  Kept(RemoveAt(s, i))
<1> DEFINE n == Len(s)
           t == RemoveAt(s, i)
           place(k) == IF k < i THEN k ELSE k + 1
<1>1. s \in Seq(Message) /\ n \in Nat /\ i \in 1 .. n /\ DOMAIN s = 1 .. n
  BY DEF Kept
<1>2. /\ SubSeq(s, 1, i - 1) \in Seq(Message) /\ Len(SubSeq(s, 1, i - 1)) = i - 1
      /\ \A k \in 1 .. i - 1 : SubSeq(s, 1, i - 1)[k] = s[k]
  BY <1>1
<1>3. /\ SubSeq(s, i + 1, n) \in Seq(Message) /\ Len(SubSeq(s, i + 1, n)) = n - i
      /\ \A k \in 1 .. n - i : SubSeq(s, i + 1, n)[k] = s[i + k]
  BY <1>1
<1>4. /\ t \in Seq(Message) /\ Len(t) = n - 1
      /\ \A k \in 1 .. n - 1 : t[k] = s[place(k)]
  <2> DEFINE u == SubSeq(s, 1, i - 1)
             v == SubSeq(s, i + 1, n)
  <2>1. t = u \o v
    BY DEF RemoveAt
  <2> HIDE DEF t, u, v
  <2>2. /\ u \o v \in Seq(Message) /\ Len(u \o v) = Len(u) + Len(v)
        /\ \A k \in 1 .. Len(u) + Len(v) : (u \o v)[k] = IF k <= Len(u) THEN u[k] ELSE v[k - Len(u)]
    BY <1>2, <1>3, ConcatProperties DEF u, v
  <2>3. Len(u) = i - 1 /\ Len(v) = n - i /\ Len(u) + Len(v) = n - 1
    BY <1>1, <1>2, <1>3 DEF u, v
  <2>4. ASSUME NEW k \in 1 .. n - 1 PROVE t[k] = s[place(k)]
    <3>1. CASE k < i
      BY <1>1, <1>2, <2>1, <2>2, <2>3, <3>1 DEF u
    <3>2. CASE ~(k < i)
      <4>1. k - (i - 1) \in 1 .. n - i /\ i + (k - (i - 1)) = k + 1 /\ ~(k <= i - 1)
        BY <1>1, <3>2
      <4>2. t[k] = v[k - (i - 1)]
        BY <2>1, <2>2, <2>3, <4>1
      <4>3. v[k - (i - 1)] = s[k + 1]
        BY <1>3, <4>1 DEF v
      <4> QED
        BY <3>2, <4>2, <4>3
    <3> QED
      BY <3>1, <3>2
  <2> QED
    BY <2>1, <2>2, <2>3, <2>4
<1>5. DOMAIN t = 1 .. n - 1
  BY <1>4
<1>6. /\ \A k \in 1 .. n - 1 : place(k) \in 1 .. n
      /\ \A j, k \in 1 .. n - 1 : place(j) = place(k) => j = k
  BY <1>1
<1> HIDE DEF t, place, n
<1>7. \A j, k \in DOMAIN t : t[j].kind = "imap" /\ t[k].kind = "imap" => j = k
  <2> TAKE j, k \in DOMAIN t
  <2> HAVE t[j].kind = "imap" /\ t[k].kind = "imap"
  <2>1. s[place(j)].kind = "imap" /\ s[place(k)].kind = "imap"
    BY <1>4, <1>5
  <2>2. place(j) \in DOMAIN s /\ place(k) \in DOMAIN s
    BY <1>1, <1>5, <1>6
  <2>3. place(j) = place(k)
    BY <2>1, <2>2 DEF Kept
  <2> QED
    BY <1>5, <1>6, <2>3
<1> QED
  BY <1>4, <1>7 DEF Kept, t

\* And clients put in their own only where there is none.
LEMMA RecordedKept ==
    ASSUME NEW s, Kept(s), \A k \in DOMAIN s : s[k].kind # "imap", NEW m \in Message
    PROVE  Kept(<<m>> \o s)
<1> DEFINE n == Len(s)
           t == <<m>> \o s
<1>1. s \in Seq(Message) /\ n \in Nat /\ DOMAIN s = 1 .. n
  BY DEF Kept
<1>2. /\ t \in Seq(Message) /\ Len(t) = 1 + n
      /\ \A k \in 1 .. 1 + n : t[k] = IF k <= 1 THEN m ELSE s[k - 1]
  <2>1. <<m>> \in Seq(Message) /\ Len(<<m>>) = 1 /\ <<m>>[1] = m
    OBVIOUS
  <2> DEFINE u == <<m>>
  <2> HIDE DEF u
  <2>2. /\ u \o s \in Seq(Message) /\ Len(u \o s) = Len(u) + Len(s)
        /\ \A k \in 1 .. Len(u) + Len(s) : (u \o s)[k] = IF k <= Len(u) THEN u[k] ELSE s[k - Len(u)]
    BY <1>1, <2>1, ConcatProperties DEF u
  <2>3. Len(u) = 1 /\ u[1] = m
    BY <2>1 DEF u
  <2>4. \A k \in 1 .. 1 + n : k <= 1 => k = 1
    BY <1>1
  <2> QED
    BY <1>1, <2>2, <2>3, <2>4 DEF u
<1>3. DOMAIN t = 1 .. 1 + n
  BY <1>2
<1>4. \A k \in 1 .. 1 + n : ~(k <= 1) => k - 1 \in DOMAIN s
  BY <1>1
<1>5. \A k \in DOMAIN t : t[k].kind = "imap" => k = 1
  BY <1>1, <1>2, <1>3, <1>4
<1> HIDE DEF t
<1>6. Kept(t)
  BY <1>2, <1>5 DEF Kept
<1> QED
  BY <1>6 DEF t

\* Messages add to the size, and marks do if the size tells.
LEMMA MarksFinite ==
    ASSUME NEW s \in Seq(Message)
    PROVE  /\ IsFiniteSet({k \in DOMAIN s : s[k].read})
           /\ Cardinality({k \in DOMAIN s : s[k].read}) \in Nat
<1>1. Len(s) \in Nat /\ DOMAIN s = 1 .. Len(s)
  OBVIOUS
<1>2. IsFiniteSet(1 .. Len(s))
  BY <1>1, FS_Interval
<1>3. {k \in DOMAIN s : s[k].read} \in SUBSET (1 .. Len(s))
  BY <1>1
<1> QED
  BY <1>2, <1>3, FS_Subset, FS_CardinalityType

\* The type of the size.
LEMMA SizeType ==
    ASSUME Kept(msgs)
    PROVE  Size \in Int
<1>1. msgs \in Seq(Message) /\ Len(msgs) \in Nat
  BY DEF Kept
<1>2. PICK marks \in Nat : marks = Cardinality({k \in DOMAIN msgs : msgs[k].read})
  BY <1>1, MarksFinite
<1>3. Size = Len(msgs) * 2 + (IF setup.sizeTells THEN marks ELSE 0)
  BY <1>2 DEF Size
<1> QED
  BY <1>1, <1>2, <1>3

\* And in the next state.
LEMMA SizeTypeNext == (Kept(msgs) => Size \in Int)'
<1>1. Kept(msgs) => Size \in Int
  BY SizeType
<1> QED
  BY <1>1, PTL

\* Mail makes the file longer.
LEMMA DeliveryGrows ==
    ASSUME Kept(msgs), NEW m \in Message, ~m.read, msgs' = Append(msgs, m), UNCHANGED setup
    PROVE  Size' > Size
<1>1. msgs \in Seq(Message) /\ Len(msgs) \in Nat /\ DOMAIN msgs = 1 .. Len(msgs)
  BY DEF Kept
<1>2. /\ Len(msgs') = Len(msgs) + 1 /\ DOMAIN msgs' = 1 .. Len(msgs) + 1
      /\ msgs'[Len(msgs) + 1] = m /\ \A k \in 1 .. Len(msgs) : msgs'[k] = msgs[k]
  BY <1>1
<1>3. {k \in DOMAIN msgs' : msgs'[k].read} = {k \in DOMAIN msgs : msgs[k].read}
  BY <1>1, <1>2
<1>4. PICK marks \in Nat : marks = Cardinality({k \in DOMAIN msgs : msgs[k].read})
  BY <1>1, MarksFinite
<1>5. Size = Len(msgs) * 2 + (IF setup.sizeTells THEN marks ELSE 0)
  BY <1>4 DEF Size
<1>6. Size' = Len(msgs') * 2 + (IF setup.sizeTells THEN marks ELSE 0)
  BY <1>3, <1>4 DEF Size
<1>7. Size' = (Len(msgs) + 1) * 2 + (IF setup.sizeTells THEN marks ELSE 0)
  BY <1>2, <1>6
<1>8. PICK n \in Nat : n = Len(msgs)
  BY <1>1
<1> QED
  BY <1>4, <1>5, <1>7, <1>8

\* A mark does, if the size tells.
LEMMA MarkGrows ==
    ASSUME Kept(msgs), NEW i \in DOMAIN msgs, ~msgs[i].read, msgs' = [msgs EXCEPT ![i].read = TRUE],
           UNCHANGED setup, setup.sizeTells
    PROVE  Size' > Size
<1> DEFINE marks == {k \in DOMAIN msgs : msgs[k].read}
<1>1. /\ msgs \in Seq(Message) /\ Len(msgs) \in Nat /\ DOMAIN msgs = 1 .. Len(msgs)
      /\ \A k \in DOMAIN msgs : msgs[k] \in Message
  BY DEF Kept
<1>2. [msgs[i] EXCEPT !.read = TRUE].read
  BY <1>1 DEF Message
<1>3. Len(msgs') = Len(msgs) /\ DOMAIN msgs' = DOMAIN msgs
      /\ \A k \in DOMAIN msgs : msgs'[k] = IF k = i THEN [msgs[i] EXCEPT !.read = TRUE] ELSE msgs[k]
  BY <1>1
<1>4. {k \in DOMAIN msgs' : msgs'[k].read} = marks \union {i}
  BY <1>2, <1>3
<1>5. i \notin marks /\ IsFiniteSet(marks) /\ Cardinality(marks) \in Nat
  BY <1>1, MarksFinite
<1>6. Cardinality(marks \union {i}) = Cardinality(marks) + 1
  BY <1>5, FS_AddElement
<1>7. PICK c \in Nat : c = Cardinality(marks)
  BY <1>5
<1>8. PICK n \in Nat : n = Len(msgs)
  BY <1>1
<1>9. Size = n * 2 + c
  BY <1>7, <1>8 DEF Size
<1>10. Size' = n * 2 + (c + 1)
  BY <1>3, <1>4, <1>6, <1>7, <1>8 DEF Size
<1> QED
  BY <1>7, <1>8, <1>9, <1>10

-----------------------------------------------------------------------------
(* countMessages.                                                           *)

\* The states of its loop.
LineStates == [header : BOOLEAN, start : BOOLEAN, pseudo : BOOLEAN, from : Nat, status : Nat]

\* A line keeps the type of a state.
LEMMA LineType == \A x \in LineStates : \A line : Line(x, line) \in LineStates
<1> SUFFICES ASSUME NEW x \in LineStates, NEW line PROVE Line(x, line) \in LineStates
  OBVIOUS
<1> DEFINE t == [x EXCEPT !.pseudo = @ \/ (x.header /\ line = "X-IMAP: ")]
<1>1. t \in LineStates
  BY DEF LineStates
<1> HIDE DEF t
<1>2. /\ [t EXCEPT !.header = FALSE] \in LineStates
      /\ [t EXCEPT !.start = TRUE] \in LineStates
  BY <1>1 DEF LineStates
<1>3. \A n \in Nat : /\ [t EXCEPT !.start = FALSE, !.status = n] \in LineStates
                     /\ [t EXCEPT !.header = TRUE, !.from = n] \in LineStates
                     /\ [t EXCEPT !.header = FALSE, !.from = n] \in LineStates
  BY <1>1 DEF LineStates
<1>4. t.from \in Nat /\ t.from + 1 \in Nat /\ t.status \in Nat /\ t.status + 1 \in Nat
  BY <1>1 DEF LineStates
<1>5. CASE line = ""
  BY <1>2, <1>5 DEF Line, t
<1>6. CASE line = "From "
  <2>1. CASE x.header \/ x.start
    <3>1. Line(x, line) = [t EXCEPT !.header = TRUE, !.from = t.from + 1]
      BY <1>6, <2>1 DEF Line, t
    <3> QED
      BY <1>3, <1>4, <3>1
  <2>2. CASE ~(x.header \/ x.start)
    <3>1. Line(x, line) = [t EXCEPT !.header = FALSE, !.from = t.from]
      BY <1>6, <2>2 DEF Line, t
    <3> QED
      BY <1>3, <1>4, <3>1
  <2> QED
    BY <2>1, <2>2
<1>7. CASE line # "" /\ line # "From "
  <2>1. CASE x.header /\ line = "Status: R"
    <3>1. Line(x, line) = [t EXCEPT !.start = FALSE, !.status = t.status + 1]
      BY <1>7, <2>1 DEF Line, t
    <3> QED
      BY <1>3, <1>4, <3>1
  <2>2. CASE ~(x.header /\ line = "Status: R")
    <3>1. Line(x, line) = [t EXCEPT !.start = FALSE, !.status = t.status]
      BY <1>7, <2>2 DEF Line, t
    <3> QED
      BY <1>3, <1>4, <3>1
  <2> QED
    BY <2>1, <2>2
<1> QED
  BY <1>5, <1>6, <1>7

\* Where the loop stands in the file: between two messages, after the first
\* line of one, in its headers, and in its text.
At(h, st, p, f, c) == [header |-> h, start |-> st, pseudo |-> p, from |-> f, status |-> c]
Between(p, f, c) == At(FALSE, TRUE, p, f, c)
Begun(p, f, c) == At(TRUE, TRUE, p, f, c)
Headers(p, f, c) == At(TRUE, FALSE, p, f, c)
Text(p, f, c) == At(FALSE, FALSE, p, f, c)

\* What one line does there.
LineTable(p, f, c) ==
    /\ Line(Between(p, f, c), "From ") = Begun(p, f + 1, c)
    /\ Line(Begun(p, f, c), "text") = Headers(p, f, c)
    /\ Line(Headers(p, f, c), "X-IMAP: ") = Headers(TRUE, f, c)
    /\ Line(Headers(p, f, c), "Status: R") = Headers(p, f, c + 1)
    /\ Line(Headers(p, f, c), "Status: O") = Headers(p, f, c)
    /\ Line(Headers(p, f, c), "") = Text(p, f, c)
    /\ Line(Text(p, f, c), "") = Between(p, f, c)
    /\ Line(Text(p, f, c), "From ") = Text(p, f, c)
    /\ Line(Text(p, f, c), "text") = Text(p, f, c)
    /\ Line(Text(p, f, c), "Status: R") = Text(p, f, c)

LEMMA LineIs == \A p \in BOOLEAN : \A f, c \in Nat : LineTable(p, f, c)
<1> TAKE p \in BOOLEAN
<1> TAKE f, c \in Nat
<1> QED
  BY DEF LineTable, Line, At, Between, Begun, Headers, Text

\* The loop of countMessages, from the state b.
Counting(b, s) == FoldLeft(Line, b, s)

\* The states it goes through.
IsRun(r, n, s, b) ==
    /\ r \in [0 .. n -> LineStates]
    /\ r[0] = b /\ \A k \in 1 .. n : r[k] = Line(r[k - 1], s[k])
    /\ Counting(b, s) = r[n]

\* The fold is the last state of a run.
LEMMA LineRuns ==
    ASSUME NEW n \in Nat, NEW s, DOMAIN s = 1 .. n, NEW b \in LineStates
    PROVE  \E r : IsRun(r, n, s, b)
<1> DEFINE g == [p \in LineStates \X (1 .. n) |-> Line(p[1], s[p[2]])]
           Equation(f) == f = [S \in SUBSET (1 .. n) |->
                                 IF S = {} THEN b ELSE Line(f[S \ {Max(S)}], s[Max(S)])]
           iter == CHOOSE f : Equation(f)
           r == [k \in 0 .. n |-> iter[1 .. k]]
<1>1. Counting(b, s) = iter[1 .. n]
  BY DEF Counting, FoldLeft, MapThenFoldSet
<1>2. g \in [LineStates \X (1 .. n) -> LineStates]
  BY LineType
<1>3. PICK f : IsTable(f, LineStates, b, g, n)
  <2> HIDE DEF g
  <2> QED
    BY <1>2, TableExists
<1>4. Equation(f)
  <2>1. f \in [SUBSET (1 .. n) -> LineStates]
    BY <1>3 DEF IsTable
  <2>2. ASSUME NEW S \in SUBSET (1 .. n)
        PROVE  f[S] = IF S = {} THEN b ELSE Line(f[S \ {Max(S)}], s[Max(S)])
    <3>1. CASE S = {}
      BY <1>3, <3>1 DEF IsTable
    <3>2. CASE S # {}
      <4>1. Max(S) \in 1 .. n
        BY <3>2, LastIn
      <4>2. f[S \ {Max(S)}] \in LineStates
        BY <2>1
      <4>3. f[S] = g[<<f[S \ {Max(S)}], Max(S)>>]
        BY <1>3, <3>2 DEF IsTable
      <4>4. <<f[S \ {Max(S)}], Max(S)>> \in LineStates \X (1 .. n)
        BY <4>1, <4>2
      <4> QED
        BY <3>2, <4>3, <4>4
    <3> QED
      BY <3>1, <3>2
  <2> QED
    BY <2>1, <2>2
<1>5. Equation(iter)
  BY <1>4
<1> HIDE DEF iter, g
<1>6. iter[{}] = b
  BY <1>5
<1>7. ASSUME NEW k \in 1 .. n PROVE iter[1 .. k] = Line(iter[1 .. k - 1], s[k])
  <2>1. 1 .. k \in SUBSET (1 .. n) /\ k \in 1 .. k /\ (1 .. k) \ {k} = 1 .. k - 1
    OBVIOUS
  <2>2. Max(1 .. k) = k
    BY LastUpTo
  <2> QED
    BY <1>5, <2>1, <2>2
<1>8. r[0] = b /\ \A k \in 1 .. n : r[k] = Line(r[k - 1], s[k])
  <2>1. 1 .. 0 = {}
    OBVIOUS
  <2> QED
    BY <1>6, <1>7, <2>1
<1> HIDE DEF r
<1>9. \A k \in 0 .. n : r[k] \in LineStates
  <2> DEFINE T == {k \in 0 .. n : r[k] \in LineStates}
  <2>1. 0 \in T
    BY <1>8
  <2>2. ASSUME NEW k \in 1 .. n, k - 1 \in T PROVE k \in T
    <3>1. r[k - 1] \in LineStates /\ k \in 0 .. n
      BY <2>2
    <3>2. r[k] \in LineStates
      BY <1>8, <3>1, LineType
    <3> QED
      BY <3>1, <3>2
  <2>3. \A k \in 0 .. n : k \in T
    <3> HIDE DEF T
    <3> QED
      BY <2>1, <2>2, UpTo
  <2> QED
    BY <2>3
<1>10. r \in [0 .. n -> LineStates] /\ r[n] = Counting(b, s)
  BY <1>1, <1>9 DEF r
<1>11. IsRun(r, n, s, b)
  BY <1>8, <1>10 DEF IsRun
<1> QED
  BY <1>11

\* One more line is one more step.
LEMMA LineFold ==
    ASSUME NEW A, NEW s \in Seq(A), NEW c \in A, NEW b \in LineStates
    PROVE  /\ Counting(b, s) \in LineStates
           /\ Counting(b, Append(s, c)) = Line(Counting(b, s), c)
<1> DEFINE n == Len(s)
           u == s
           t == Append(s, c)
<1>1. /\ n \in Nat /\ n + 1 \in Nat /\ DOMAIN u = 1 .. n /\ DOMAIN t = 1 .. n + 1
      /\ t[n + 1] = c /\ \A k \in 1 .. n : t[k] = u[k]
  OBVIOUS
<1> HIDE DEF t, u, n
<1>2. n \in Nat /\ DOMAIN u = 1 .. n
  BY <1>1
<1>3. (\E q : IsRun(q, n, u, b)) /\ (\E r : IsRun(r, n + 1, t, b))
  BY <1>1, <1>2, LineRuns
<1>4. PICK q : IsRun(q, n, u, b)
  BY <1>3
<1>5. PICK r : IsRun(r, n + 1, t, b)
  BY <1>3
<1>6. /\ q \in [0 .. n -> LineStates]
      /\ q[0] = b /\ \A k \in 1 .. n : q[k] = Line(q[k - 1], u[k])
      /\ Counting(b, u) = q[n]
  BY <1>4 DEF IsRun
<1>7. /\ r \in [0 .. n + 1 -> LineStates]
      /\ r[0] = b /\ \A k \in 1 .. n + 1 : r[k] = Line(r[k - 1], t[k])
      /\ Counting(b, t) = r[n + 1]
  BY <1>5 DEF IsRun
<1>8. \A k \in 1 .. n : r[k - 1] = q[k - 1] => r[k] = q[k]
  BY <1>1, <1>6, <1>7
<1>9. r[0] = q[0]
  BY <1>6, <1>7
<1>10. r[n] = q[n]
  BY <1>2, <1>9, <1>8, SameRun, Zenon
<1>11. n \in 0 .. n /\ n + 1 \in 1 .. n + 1 /\ (n + 1) - 1 = n
  BY <1>1
<1>12. r[n + 1] = Line(r[n], t[n + 1])
  BY <1>7, <1>11
<1>13. Counting(b, t) = Line(Counting(b, u), c)
  BY <1>1, <1>6, <1>7, <1>10, <1>12
<1>14. Counting(b, u) \in LineStates
  BY <1>6, <1>11
<1> QED
  BY <1>13, <1>14 DEF t, u

\* Of no lines, there is no step.
LEMMA LineFoldEmpty ==
    ASSUME NEW b \in LineStates
    PROVE  Counting(b, <<>>) = b
<1>1. DOMAIN <<>> = 1 .. 0 /\ 0 \in Nat
  OBVIOUS
<1>2. PICK r : IsRun(r, 0, <<>>, b)
  BY <1>1, LineRuns
<1> QED
  BY <1>2 DEF IsRun

\* The lines a file is made of.
LineSet == {"From ", "text", "X-IMAP: ", "Status: R", "Status: O", ""}

\* One or two more lines.
LEMMA ReadTuples ==
    ASSUME NEW s \in Seq(LineSet), NEW b \in LineStates, NEW x \in LineSet, NEW y \in LineSet
    PROVE  /\ s \o <<x>> \in Seq(LineSet) /\ s \o <<x, y>> \in Seq(LineSet) /\ s \o <<>> = s
           /\ Counting(b, s \o <<x>>) = Line(Counting(b, s), x)
           /\ Counting(b, s \o <<x, y>>) = Line(Line(Counting(b, s), x), y)
<1>1. s \o <<x>> = Append(s, x)
  OBVIOUS
<1>2. s \o <<x, y>> = Append(Append(s, x), y)
  OBVIOUS
<1>3. s \o <<>> = s
  BY ConcatEmptySeq
<1>4. Append(s, x) \in Seq(LineSet) /\ Append(Append(s, x), y) \in Seq(LineSet)
  OBVIOUS
<1>5. Counting(b, Append(s, x)) = Line(Counting(b, s), x)
  BY LineFold
<1>6. Counting(b, Append(Append(s, x), y)) = Line(Counting(b, Append(s, x)), y)
  BY <1>4, LineFold
<1> QED
  BY <1>1, <1>2, <1>3, <1>4, <1>5, <1>6

\* The type of the parts of a message.
LEMMA TuplesType ==
    /\ <<"From ", "text">> \in Seq(LineSet) /\ <<"X-IMAP: ">> \in Seq(LineSet) /\ <<>> \in Seq(LineSet)
    /\ <<"Status: R", "">> \in Seq(LineSet) /\ <<"Status: O", "">> \in Seq(LineSet)
    /\ <<"text", "From ">> \in Seq(LineSet) /\ <<"text", "Status: R">> \in Seq(LineSet)
    /\ <<"text">> \in Seq(LineSet) /\ <<"">> \in Seq(LineSet)
BY DEF LineSet

\* countMessages, having read the file s from the state b, is at x.
Reads(b, s, x) == b \in LineStates /\ s \in Seq(LineSet) /\ Counting(b, s) = x

\* No line, one line or two lines more.
LEMMA ReadsNone == \A b, s, x : Reads(b, s, x) => Reads(b, s \o <<>>, x)
<1> TAKE b, s, x
<1> HAVE Reads(b, s, x)
<1>1. b \in LineStates /\ s \in Seq(LineSet) /\ Counting(b, s) = x
  BY DEF Reads
<1>2. s \o <<>> = s
  BY <1>1, ConcatEmptySeq
<1> QED
  BY <1>1, <1>2, Zenon DEF Reads

LEMMA ReadsOne ==
    \A b, s, x : \A l \in LineSet : Reads(b, s, x) => Reads(b, s \o <<l>>, Line(x, l))
<1> TAKE b, s, x
<1> TAKE l \in LineSet
<1> HAVE Reads(b, s, x)
<1>1. b \in LineStates /\ s \in Seq(LineSet) /\ Counting(b, s) = x
  BY DEF Reads
<1>2. s \o <<l>> \in Seq(LineSet) /\ Counting(b, s \o <<l>>) = Line(x, l)
  BY <1>1, ReadTuples
<1> QED
  BY <1>1, <1>2, Zenon DEF Reads

LEMMA ReadsTwo ==
    \A b, s, x : \A l, k \in LineSet :
        Reads(b, s, x) => Reads(b, s \o <<l, k>>, Line(Line(x, l), k))
<1> TAKE b, s, x
<1> TAKE l, k \in LineSet
<1> HAVE Reads(b, s, x)
<1>1. b \in LineStates /\ s \in Seq(LineSet) /\ Counting(b, s) = x
  BY DEF Reads
<1>2. s \o <<l, k>> \in Seq(LineSet) /\ Counting(b, s \o <<l, k>>) = Line(Line(x, l), k)
  BY <1>1, ReadTuples
<1> QED
  BY <1>1, <1>2, Zenon DEF Reads

\* Files put behind one another.
LEMMA Joined ==
    \A s, t, u \in Seq(LineSet) :
        s \o t \in Seq(LineSet) /\ (s \o t) \o u = s \o (t \o u)
<1> TAKE s, t, u \in Seq(LineSet)
<1> QED
  BY ConcatProperties, ConcatAssociative

\* r is the file s with t put behind it.
Follows(s, t, r) == t \in Seq(LineSet) /\ s \in Seq(LineSet) /\ s \o t = r

\* A part put at the end of both.
LEMMA FollowsOn ==
    \A s, t, r : \A u \in Seq(LineSet) :
        Follows(s, t, r) => Follows(s, t \o u, r \o u)
<1> TAKE s, t, r
<1> TAKE u \in Seq(LineSet)
<1> HAVE Follows(s, t, r)
<1>1. s \in Seq(LineSet) /\ t \in Seq(LineSet)
  BY DEF Follows
<1>2. t \o u \in Seq(LineSet)
  BY <1>1, Joined, Zenon
<1>3. (s \o t) \o u = s \o (t \o u)
  BY <1>1, ConcatAssociative
<1>4. s \o t = r
  BY DEF Follows
<1> QED
  BY <1>1, <1>2, <1>3, <1>4, Zenon DEF Follows

\* The type of a message.
LEMMA LinesType == \A m : Lines(m) \in Seq(LineSet)
<1> TAKE m
<1> DEFINE imap == IF m.kind = "imap" THEN <<"X-IMAP: ">> ELSE <<>>
           status == IF m.read THEN "Status: R" ELSE "Status: O"
           body == Body(m.kind)
           a == <<"From ", "text">>
           e == <<status, "">>
           z == <<"">>
<1>1. /\ imap \in Seq(LineSet) /\ e \in Seq(LineSet) /\ body \in Seq(LineSet)
      /\ a \in Seq(LineSet) /\ z \in Seq(LineSet)
  BY TuplesType DEF Body
<1>2. Lines(m) = (((a \o imap) \o e) \o body) \o z
  BY DEF Lines
<1> HIDE DEF imap, status, body, a, e, z
<1>3. a \o imap \in Seq(LineSet)
  BY <1>1, Joined, Zenon
<1>4. (a \o imap) \o e \in Seq(LineSet)
  BY <1>1, <1>3, Joined, Zenon
<1>5. ((a \o imap) \o e) \o body \in Seq(LineSet)
  BY <1>1, <1>4, Joined, Zenon
<1>6. (((a \o imap) \o e) \o body) \o z \in Seq(LineSet)
  BY <1>1, <1>5, Joined, Zenon
<1> QED
  BY <1>2, <1>6

\* countMessages, having read whole messages, reads one more: it takes the line
\* it begins with for the beginning of a message, and no line of its body.
LEMMA MessageRead ==
    ASSUME NEW s \in Seq(LineSet), NEW b \in LineStates, NEW m, m.read \in BOOLEAN,
           NEW p \in BOOLEAN, NEW f \in Nat, NEW c \in Nat,
           Counting(b, s) = Between(p, f, c)
    PROVE  /\ s \o Lines(m) \in Seq(LineSet)
           /\ Lines(m) \in Seq(LineSet)
           /\ Counting(b, s \o Lines(m)) =
                Between(p \/ m.kind = "imap", f + 1, IF m.read THEN c + 1 ELSE c)
<1> DEFINE imap == IF m.kind = "imap" THEN <<"X-IMAP: ">> ELSE <<>>
           status == IF m.read THEN "Status: R" ELSE "Status: O"
           body == Body(m.kind)
           q == p \/ m.kind = "imap"
           d == IF m.read THEN c + 1 ELSE c
           s1 == s \o <<"From ", "text">>
           s2 == s1 \o imap
           s3 == s2 \o <<status, "">>
           s4 == s3 \o body
           s5 == s4 \o <<"">>
<1>1. imap \in Seq(LineSet) /\ <<status, "">> \in Seq(LineSet) /\ body \in Seq(LineSet)
  BY TuplesType DEF Body
<1>2. Lines(m) = (((<<"From ", "text">> \o imap) \o <<status, "">>) \o body) \o <<"">>
  BY DEF Lines
<1>3. Reads(b, s, Between(p, f, c))
  BY DEF Reads
<1>4. q \in BOOLEAN /\ d \in Nat /\ f + 1 \in Nat
  OBVIOUS
<1>12. LineTable(p, f, c) /\ LineTable(p, f + 1, c) /\ LineTable(q, f + 1, c) /\ LineTable(q, f + 1, d)
  <2> HIDE DEF q, d
  <2> QED
    BY <1>4, LineIs, Zenon
<1>5. /\ "From " \in LineSet /\ "text" \in LineSet /\ "X-IMAP: " \in LineSet
      /\ "Status: R" \in LineSet /\ "" \in LineSet /\ status \in LineSet
  BY DEF LineSet
<1>6. Reads(b, s1, Headers(p, f + 1, c))
  <2>1. Line(Between(p, f, c), "From ") = Begun(p, f + 1, c)
    BY <1>12, Zenon DEF LineTable
  <2>2. Line(Begun(p, f + 1, c), "text") = Headers(p, f + 1, c)
    BY <1>12, Zenon DEF LineTable
  <2>3. Reads(b, s1, Line(Line(Between(p, f, c), "From "), "text"))
    BY <1>3, <1>5, ReadsTwo, Zenon
  <2> QED
    BY <2>1, <2>2, <2>3, Zenon
<1> HIDE DEF s1
<1>7. Reads(b, s2, Headers(q, f + 1, c))
  <2>1. CASE m.kind = "imap"
    <3>1. Line(Headers(p, f + 1, c), "X-IMAP: ") = Headers(TRUE, f + 1, c)
      BY <1>12, Zenon DEF LineTable
    <3>2. s2 = s1 \o <<"X-IMAP: ">> /\ q = TRUE
      BY <2>1
    <3>3. Reads(b, s1 \o <<"X-IMAP: ">>, Line(Headers(p, f + 1, c), "X-IMAP: "))
      BY <1>5, <1>6, ReadsOne, Zenon
    <3> QED
      BY <3>1, <3>2, <3>3, Zenon
  <2>2. CASE m.kind # "imap"
    <3>1. s2 = s1 \o <<>> /\ q = p
      BY <2>2
    <3>2. Reads(b, s1 \o <<>>, Headers(p, f + 1, c))
      BY <1>6, ReadsNone, Zenon
    <3> QED
      BY <3>1, <3>2, Zenon
  <2> QED
    BY <2>1, <2>2
<1> HIDE DEF s2
<1>8. Reads(b, s3, Text(q, f + 1, d))
  <2> HIDE DEF q
  <2>1. Line(Headers(q, f + 1, c), status) = Headers(q, f + 1, d)
    <3>1. CASE m.read
      <4>1. Line(Headers(q, f + 1, c), "Status: R") = Headers(q, f + 1, c + 1)
        BY <1>12, Zenon DEF LineTable
      <4> QED
        BY <3>1, <4>1
    <3>2. CASE ~m.read
      <4>1. Line(Headers(q, f + 1, c), "Status: O") = Headers(q, f + 1, c)
        BY <1>12, Zenon DEF LineTable
      <4> QED
        BY <3>2, <4>1
    <3> QED
      BY <3>1, <3>2
  <2> HIDE DEF status, d
  <2>2. Line(Headers(q, f + 1, d), "") = Text(q, f + 1, d)
    BY <1>12, Zenon DEF LineTable
  <2>3. Reads(b, s3, Line(Line(Headers(q, f + 1, c), status), ""))
    BY <1>5, <1>7, ReadsTwo, Zenon
  <2> QED
    BY <2>1, <2>2, <2>3, Zenon
<1> HIDE DEF s3, q, d
<1>9. Reads(b, s4, Text(q, f + 1, d))
  <2> DEFINE at == Text(q, f + 1, d)
  <2>1. Line(at, "text") = at /\ Line(at, "From ") = at /\ Line(at, "Status: R") = at
    BY <1>12, Zenon DEF LineTable
  <2>2. Reads(b, s3, at)
    BY <1>8
  <2>3. body \in {<<"text", "From ">>, <<"text", "Status: R">>, <<>>, <<"text">>}
    BY DEF Body
  <2> HIDE DEF at, body
  <2>4. /\ Reads(b, s3 \o <<>>, at) /\ Reads(b, s3 \o <<"text">>, Line(at, "text"))
        /\ Reads(b, s3 \o <<"text", "From ">>, Line(Line(at, "text"), "From "))
        /\ Reads(b, s3 \o <<"text", "Status: R">>, Line(Line(at, "text"), "Status: R"))
    BY <1>5, <2>2, ReadsNone, ReadsOne, ReadsTwo, Zenon
  <2>5. /\ Reads(b, s3 \o <<>>, at) /\ Reads(b, s3 \o <<"text">>, at)
        /\ Reads(b, s3 \o <<"text", "From ">>, at) /\ Reads(b, s3 \o <<"text", "Status: R">>, at)
    BY <2>1, <2>4, Zenon
  <2>6. Reads(b, s3 \o body, at)
    BY <2>3, <2>5, Zenon
  <2> QED
    BY <2>6 DEF at
<1> HIDE DEF s4
<1>10. Reads(b, s5, Between(q, f + 1, d))
  <2>1. Line(Text(q, f + 1, d), "") = Between(q, f + 1, d)
    BY <1>12, Zenon DEF LineTable
  <2>2. Reads(b, s5, Line(Text(q, f + 1, d), ""))
    BY <1>5, <1>9, ReadsOne, Zenon
  <2> QED
    BY <2>1, <2>2, Zenon
<1>11. s \o Lines(m) = s5 /\ Lines(m) \in Seq(LineSet)
  <2> DEFINE a == <<"From ", "text">>
             e == <<status, "">>
             z == <<"">>
  <2>1. /\ imap \in Seq(LineSet) /\ e \in Seq(LineSet)
        /\ body \in Seq(LineSet) /\ z \in Seq(LineSet)
    BY <1>1, TuplesType
  <2>2. Follows(s, a, s1)
    BY TuplesType DEF Follows, s1
  <2>3. s5 = (((s1 \o imap) \o e) \o body) \o z
    BY DEF s2, s3, s4
  <2>4. Lines(m) = (((a \o imap) \o e) \o body) \o z
    BY <1>2
  <2> HIDE DEF a, e, z, imap, body, status, s5
  <2>5. Follows(s, a \o imap, s1 \o imap)
    BY <2>1, <2>2, FollowsOn, Zenon
  <2>6. Follows(s, (a \o imap) \o e, (s1 \o imap) \o e)
    BY <2>1, <2>5, FollowsOn, Zenon
  <2>7. Follows(s, ((a \o imap) \o e) \o body, ((s1 \o imap) \o e) \o body)
    BY <2>1, <2>6, FollowsOn, Zenon
  <2>8. Follows(s, (((a \o imap) \o e) \o body) \o z, (((s1 \o imap) \o e) \o body) \o z)
    BY <2>1, <2>7, FollowsOn, Zenon
  <2>9. Follows(s, Lines(m), s5)
    BY <2>3, <2>4, <2>8, Zenon
  <2> QED
    BY <2>9, Zenon DEF Follows
<1> QED
  BY <1>10, <1>11 DEF Reads, q, d

\* The messages that are read, and whether the clients' own is there, among the
\* first k.
ReadUpTo(s, k) == {j \in 1 .. k : s[j].read}
OwnUpTo(s, k) == \E j \in 1 .. k : s[j].kind = "imap"

\* One message more.
LEMMA ReadGrows ==
    ASSUME NEW s, NEW n \in Nat, NEW k \in 1 .. n, \A j \in 1 .. n : s[j].read \in BOOLEAN
    PROVE  /\ IsFiniteSet(ReadUpTo(s, k)) /\ Cardinality(ReadUpTo(s, k - 1)) \in Nat
           /\ Cardinality(ReadUpTo(s, k)) =
                IF s[k].read THEN Cardinality(ReadUpTo(s, k - 1)) + 1
                             ELSE Cardinality(ReadUpTo(s, k - 1))
           /\ OwnUpTo(s, k) <=> (OwnUpTo(s, k - 1) \/ s[k].kind = "imap")
<1>1. IsFiniteSet(1 .. k) /\ IsFiniteSet(1 .. k - 1)
  BY FS_Interval
<1>2. ReadUpTo(s, k) \in SUBSET (1 .. k) /\ ReadUpTo(s, k - 1) \in SUBSET (1 .. k - 1)
  BY DEF ReadUpTo
<1>3. IsFiniteSet(ReadUpTo(s, k)) /\ IsFiniteSet(ReadUpTo(s, k - 1))
  BY <1>1, <1>2, FS_Subset
<1>4. Cardinality(ReadUpTo(s, k - 1)) \in Nat
  BY <1>3, FS_CardinalityType
<1>5. k \notin ReadUpTo(s, k - 1)
  BY DEF ReadUpTo
<1>6. k - 1 \in Nat /\ 1 .. k = (1 .. k - 1) \union {k}
  OBVIOUS
<1>7. Cardinality(ReadUpTo(s, k)) =
        IF s[k].read THEN Cardinality(ReadUpTo(s, k - 1)) + 1
                     ELSE Cardinality(ReadUpTo(s, k - 1))
  <2>1. CASE s[k].read
    <3>1. ReadUpTo(s, k) = ReadUpTo(s, k - 1) \union {k}
      BY <1>6, <2>1 DEF ReadUpTo
    <3>2. Cardinality(ReadUpTo(s, k)) = Cardinality(ReadUpTo(s, k - 1)) + 1
      BY <1>3, <1>5, <3>1, FS_AddElement
    <3> QED
      BY <2>1, <3>2, Zenon
  <2>2. CASE ~s[k].read
    <3>1. ReadUpTo(s, k) = ReadUpTo(s, k - 1)
      BY <1>6, <2>2 DEF ReadUpTo
    <3> QED
      BY <2>2, <3>1, Zenon
  <2> QED
    BY <2>1, <2>2
<1>8. OwnUpTo(s, k) <=> (OwnUpTo(s, k - 1) \/ s[k].kind = "imap")
  BY DEF OwnUpTo
<1> QED
  BY <1>3, <1>4, <1>7, <1>8

\* Where the loop of countMessages ends.
LEMMA FileRead ==
    ASSUME Kept(msgs)
    PROVE  Counting(Between(FALSE, 0, 0), File) =
             Between(OwnUpTo(msgs, Len(msgs)), Len(msgs), Cardinality(ReadUpTo(msgs, Len(msgs))))
<1> DEFINE n == Len(msgs)
           ss == [k \in 1 .. n |-> Lines(msgs[k])]
           b == Between(FALSE, 0, 0)
           at(k) == Between(OwnUpTo(msgs, k), k, Cardinality(ReadUpTo(msgs, k)))
<1>1. n \in Nat /\ DOMAIN msgs = 1 .. n /\ \A k \in 1 .. n : msgs[k].read \in BOOLEAN
  <2>1. msgs \in Seq(Message)
    BY DEF Kept
  <2>2. n \in Nat /\ DOMAIN msgs = 1 .. n /\ \A k \in 1 .. n : msgs[k] \in Message
    BY <2>1
  <2> QED
    BY <2>2 DEF Message
<1>2. File = FlattenSeq(ss)
  BY <1>1 DEF File
<1> HIDE DEF n
<1>3. b \in LineStates
  BY DEF Between, At, LineStates
<1> HIDE DEF b
<1>4. Counting(b, <<>>) = b
  BY <1>3, LineFoldEmpty
<1>5. at(0) = b
  <2>1. ReadUpTo(msgs, 0) = {} /\ OwnUpTo(msgs, 0) = FALSE
    BY DEF ReadUpTo, OwnUpTo
  <2> QED
    BY <2>1, FS_EmptySet DEF b
<1>6. \A s \in Seq(LineSet), k \in 1 .. n : Counting(b, s) = at(k - 1) =>
          Counting(b, s \o Lines(msgs[k])) = at(k)
  <2> TAKE s \in Seq(LineSet), k \in 1 .. n
  <2> HAVE Counting(b, s) = at(k - 1)
  <2> DEFINE m == msgs[k]
             p == OwnUpTo(msgs, k - 1)
             c == Cardinality(ReadUpTo(msgs, k - 1))
  <2>1. m.read \in BOOLEAN /\ p \in BOOLEAN /\ k - 1 \in Nat /\ (k - 1) + 1 = k
    BY <1>1 DEF OwnUpTo
  <2>2. /\ c \in Nat /\ Cardinality(ReadUpTo(msgs, k)) = (IF m.read THEN c + 1 ELSE c)
        /\ OwnUpTo(msgs, k) = (p \/ m.kind = "imap")
    <3>1. /\ c \in Nat /\ Cardinality(ReadUpTo(msgs, k)) = (IF m.read THEN c + 1 ELSE c)
          /\ OwnUpTo(msgs, k) <=> (p \/ m.kind = "imap")
      BY <1>1, ReadGrows
    <3>2. OwnUpTo(msgs, k) \in BOOLEAN
      BY DEF OwnUpTo
    <3> QED
      BY <2>1, <3>1, <3>2
  <2>3. Counting(b, s) = Between(p, k - 1, c)
    OBVIOUS
  <2>4. at(k) = Between(p \/ m.kind = "imap", (k - 1) + 1, IF m.read THEN c + 1 ELSE c)
    BY <2>1, <2>2
  <2> HIDE DEF m, p, c, at
  <2>5. Counting(b, s \o Lines(m)) =
             Between(p \/ m.kind = "imap", (k - 1) + 1, IF m.read THEN c + 1 ELSE c)
    BY <1>3, <2>1, <2>2, <2>3, MessageRead
  <2> QED
    BY <2>4, <2>5 DEF m
<1>7. ss \in [1 .. n -> Seq(LineSet)]
  BY LinesType
<1>8. \A k \in 1 .. n : ss[k] = Lines(msgs[k])
  OBVIOUS
<1> HIDE DEF at, ss
<1>9. PICK e \in [0 .. n -> Seq(LineSet)] :
              /\ e[0] = <<>> /\ \A k \in 1 .. n : e[k] = e[k - 1] \o ss[k]
              /\ FlattenSeq(ss) = e[n]
  BY <1>1, <1>7, FlattenRuns, ZenonT(40)
<1> DEFINE T == {k \in 0 .. n : Counting(b, e[k]) = at(k)}
<1>10. 0 \in T
  BY <1>1, <1>4, <1>5, <1>9
<1>11. ASSUME NEW k \in 1 .. n, k - 1 \in T PROVE k \in T
  <2>1. k - 1 \in 0 .. n /\ k \in 0 .. n
    BY <1>1
  <2>2. e[k] = e[k - 1] \o ss[k] /\ ss[k] = Lines(msgs[k])
    BY <1>8, <1>9
  <2>3. e[k - 1] \in Seq(LineSet) /\ Counting(b, e[k - 1]) = at(k - 1)
    BY <1>9, <1>11, <2>1
  <2>4. Counting(b, e[k - 1] \o Lines(msgs[k])) = at(k)
    BY <1>6, <2>3, Zenon
  <2>5. Counting(b, e[k]) = at(k)
    BY <2>2, <2>4, Zenon
  <2> QED
    BY <2>1, <2>5
<1>12. \A k \in 0 .. n : k \in T
  <2> HIDE DEF T
  <2> QED
    BY <1>1, <1>10, <1>11, UpTo
<1>13. Counting(b, e[n]) = at(n)
  BY <1>1, <1>12
<1>14. File = e[n]
  BY <1>2, <1>9, Zenon
<1>15. Counting(b, File) = at(n)
  BY <1>13, <1>14, Zenon
<1> QED
  BY <1>15 DEF b, at, n

\* countMessages returns the true numbers of a file, but for the clients' own
\* message if that is unread.
LEMMA CountIsTrue ==
    ASSUME Kept(msgs)
    PROVE  /\ countMessages(File).total = Cardinality(Genuine)
           /\ countMessages(File).unread = Cardinality(Unread) + Miscounted
<1> DEFINE n == Len(msgs)
           own == OwnUpTo(msgs, n)
           read == Cardinality(ReadUpTo(msgs, n))
           d == IF own THEN 1 ELSE 0
<1>1. n \in Nat /\ DOMAIN msgs = 1 .. n /\ \A k \in 1 .. n : msgs[k].read \in BOOLEAN
  <2>1. msgs \in Seq(Message)
    BY DEF Kept
  <2>2. n \in Nat /\ DOMAIN msgs = 1 .. n /\ \A k \in 1 .. n : msgs[k] \in Message
    BY <2>1
  <2> QED
    BY <2>2 DEF Message
<1>2. Counting(Between(FALSE, 0, 0), File) = Between(own, n, read)
  BY FileRead
<1> HIDE DEF n
<1>3. IsFiniteSet(1 .. n) /\ Cardinality(1 .. n) = n
  <2>1. 1 \in Int /\ n \in Int
    BY <1>1
  <2>2. /\ IsFiniteSet(1 .. n)
        /\ Cardinality(1 .. n) = IF 1 > n THEN 0 ELSE n - 1 + 1
    BY <2>1, FS_Interval
  <2> QED
    BY <1>1, <2>2
<1>4. ReadUpTo(msgs, n) \in SUBSET (1 .. n)
  BY DEF ReadUpTo
<1>5. IsFiniteSet(ReadUpTo(msgs, n)) /\ read \in Nat
  BY <1>3, <1>4, FS_Subset, FS_CardinalityType
<1>6. ASSUME NEW S, S \in SUBSET (1 .. n), ReadUpTo(msgs, n) \in SUBSET S
      PROVE  IsFiniteSet(S) /\ Cardinality(S \ ReadUpTo(msgs, n)) = Cardinality(S) - read
  <2>1. S \cap ReadUpTo(msgs, n) = ReadUpTo(msgs, n)
    BY <1>6
  <2>2. IsFiniteSet(S)
    BY <1>3, <1>6, FS_Subset
  <2>3. Cardinality(S \ ReadUpTo(msgs, n)) = Cardinality(S) - Cardinality(S \cap ReadUpTo(msgs, n))
    BY <2>2, FS_Difference
  <2> QED
    BY <2>1, <2>2, <2>3
<1>7. CASE own
  <2>1. PICK k \in 1 .. n : msgs[k].kind = "imap"
    BY <1>7 DEF OwnUpTo
  <2>2. Genuine = (1 .. n) \ {k} /\ DOMAIN msgs \ Genuine = {k}
    BY <1>1, <2>1 DEF Genuine, Kept
  <2>3. Cardinality(Genuine) = n - 1
    BY <1>3, <2>1, <2>2, FS_RemoveElement
  <2>4. n > 0
    BY <1>1, <2>1
  <2>5. countMessages(File) =
            [total |-> n - 1, unread |-> (n - 1) - (IF read > 0 THEN read - 1 ELSE 0)]
    <3> HIDE DEF own, read
    <3> QED
      BY <1>1, <1>2, <1>5, <1>7, <2>4 DEF countMessages, Counting, Between, At
  <2>6. CASE msgs[k].read
    <3>1. k \in ReadUpTo(msgs, n) /\ Miscounted = 0
      BY <2>1, <2>2, <2>6 DEF ReadUpTo, Miscounted
    <3>2. Unread = (1 .. n) \ ReadUpTo(msgs, n)
      BY <1>1, <2>1, <2>2, <3>1 DEF Unread, ReadUpTo
    <3>3. Cardinality(Unread) = n - read
      BY <1>3, <1>4, <1>6, <3>2
    <3>4. read > 0
      BY <1>5, <3>1, FS_EmptySet
    <3> HIDE DEF own, read
    <3> QED
      BY <1>1, <1>5, <2>3, <2>5, <3>1, <3>3, <3>4
  <2>7. CASE ~msgs[k].read
    <3>1. ReadUpTo(msgs, n) \in SUBSET Genuine /\ Unread = Genuine \ ReadUpTo(msgs, n)
      BY <1>1, <2>1, <2>2, <2>7 DEF Unread, ReadUpTo
    <3>2. Cardinality(Unread) = (n - 1) - read
      BY <1>6, <2>2, <2>3, <3>1
    <3>3. Miscounted = IF read > 0 THEN 1 ELSE 0
      <4>1. Unread # Genuine <=> ReadUpTo(msgs, n) # {}
        BY <3>1
      <4>2. ReadUpTo(msgs, n) = {} <=> read = 0
        BY <1>5, FS_EmptySet
      <4>3. Miscounted = IF Unread # Genuine THEN 1 ELSE 0
        BY <2>2, <2>7 DEF Miscounted
      <4> HIDE DEF own, read
      <4> QED
        BY <1>5, <4>1, <4>2, <4>3
    <3> HIDE DEF own, read
    <3> QED
      BY <1>1, <1>5, <2>3, <2>5, <3>2, <3>3
  <2> QED
    BY <2>6, <2>7
<1>8. CASE ~own
  <2>1. Genuine = 1 .. n /\ DOMAIN msgs \ Genuine = {}
    BY <1>1, <1>8 DEF Genuine, OwnUpTo
  <2>2. Unread = (1 .. n) \ ReadUpTo(msgs, n) /\ Miscounted = 0
    BY <1>1, <2>1 DEF Unread, ReadUpTo, Miscounted
  <2>3. Cardinality(Unread) = n - read
    BY <1>3, <1>4, <1>6, <2>2
  <2> HIDE DEF own, read
  <2>4. countMessages(File) = [total |-> n - 0, unread |-> (n - 0) - (IF read > 0 THEN read - 0 ELSE 0)]
    BY <1>1, <1>2, <1>5, <1>8 DEF countMessages, Counting, Between, At
  <2> QED
    BY <1>1, <1>3, <1>5, <2>1, <2>2, <2>3, <2>4
<1> QED
  BY <1>7, <1>8

-----------------------------------------------------------------------------
(* The counts.                                                              *)

\* The type of the count.
LEMMA GenuineType ==
    ASSUME Kept(msgs)
    PROVE  Cardinality(Genuine) \in Nat
<1>1. Len(msgs) \in Nat /\ DOMAIN msgs = 1 .. Len(msgs)
  BY DEF Kept
<1>2. IsFiniteSet(1 .. Len(msgs))
  BY <1>1, FS_Interval
<1>3. Genuine \in SUBSET (1 .. Len(msgs))
  BY <1>1 DEF Genuine
<1> QED
  BY <1>2, <1>3, FS_Subset, FS_CardinalityType

-----------------------------------------------------------------------------
(* A change of the folder shows in its time or in its size.                 *)

Truth ==
    /\ TotalMsgs = Cardinality(Genuine)
    /\ UnreadMsgs = Cardinality(Unread) + Miscounted

\* The clock, and what fileHasChanged remembers.
ClockInv ==
    /\ setup \in Setup
    /\ Kept(msgs)
    /\ call \in {"idle", "open", "read", "utime"}
    /\ now \in Int /\ mtime \in Int /\ startedAt \in Int
    /\ saved \in [mtime : Int, size : Int]
    /\ saved.mtime <= startedAt /\ startedAt <= now
    /\ saved.mtime <= mtime /\ mtime <= now

\* While the time of the file is the one it was counted at, the file has only
\* grown, and if it has not its counts are true.
CountInv ==
    /\ TotalMsgs \in Int /\ OldMsgs \in Int
    /\ call # "idle" /\ present => saved.size <= Size
    /\ call = "read" => present
    /\ call = "utime" /\ TotalMsgs >= 0 => present /\ (Size = saved.size => Truth)
    /\ call = "idle" /\ OldMsgs >= 0 =>
          /\ OldMsgs = TotalMsgs
          /\ mtime = saved.mtime => saved.size <= Size /\ (Size = saved.size => Truth)

\* Every step keeps the clock.
LEMMA ClockStep == ClockInv /\ [MboxNext]_mboxVars => ClockInv'
<1> SUFFICES ASSUME ClockInv, [MboxNext]_mboxVars PROVE ClockInv'
  OBVIOUS
<1>1. CASE Stat
  <2>1. UNCHANGED <<setup, now, msgs, mtime>> /\ startedAt' = now
    BY <1>1 DEF Stat, folder
  <2>2. call' \in {"idle", "open", "read", "utime"}
    BY <1>1 DEF Stat
  <2>3. saved' \in [mtime : Int, size : Int] /\ saved'.mtime <= mtime
    <3>1. CASE Changed
      <4>1. saved' = [mtime |-> mtime, size |-> Size]
        BY <1>1, <3>1 DEF Stat
      <4> QED
        BY <4>1, SizeType DEF ClockInv
    <3>2. CASE ~Changed
      BY <1>1, <3>2 DEF Stat, ClockInv
    <3> QED
      BY <3>1, <3>2
  <2>4. saved'.mtime \in Int
    BY <2>3
  <2> QED
    BY <2>1, <2>2, <2>3, <2>4 DEF ClockInv
<1>2. CASE Open
  BY <1>2 DEF Open, ClockInv, folder
<1>3. CASE Read
  BY <1>3 DEF Read, ClockInv
<1>4. CASE Utime
  <2>1. saved.mtime \in Int
    BY DEF ClockInv
  <2> QED
    BY <1>4, <2>1 DEF Utime, ClockInv
<1>5. CASE Deliver
  <2>1. Kept(msgs')
    BY <1>5, DeliveredKept DEF Deliver, ClockInv
  <2>2. saved.mtime \in Int
    BY DEF ClockInv
  <2> QED
    BY <1>5, <2>1, <2>2 DEF Deliver, Write, ClockInv
<1>6. CASE MarkRead
  <2>1. Kept(msgs')
    <3>1. PICK i \in DOMAIN msgs : msgs' = [msgs EXCEPT ![i].read = TRUE]
      BY <1>6 DEF MarkRead
    <3> QED
      BY <3>1, MarkedKept DEF ClockInv
  <2>2. saved.mtime \in Int
    BY DEF ClockInv
  <2> QED
    BY <1>6, <2>1, <2>2 DEF MarkRead, Write, ClockInv
<1>7. CASE Delete
  <2>1. Kept(msgs')
    BY <1>7, RemovedKept DEF Delete, ClockInv
  <2>2. saved.mtime \in Int
    BY DEF ClockInv
  <2> QED
    BY <1>7, <2>1, <2>2 DEF Delete, Write, ClockInv
<1>8. CASE Record
  <2>1. Kept(msgs')
    <3>1. PICK m \in Own : msgs' = <<m>> \o msgs
      BY <1>8 DEF Record
    <3>2. m \in Message /\ \A k \in DOMAIN msgs : msgs[k].kind # "imap"
      BY <1>8 DEF Record, Genuine, Own, Message
    <3> QED
      BY <3>1, <3>2, RecordedKept DEF ClockInv
  <2>2. saved.mtime \in Int
    BY DEF ClockInv
  <2> QED
    BY <1>8, <2>1, <2>2 DEF Record, Write, ClockInv
<1>9. CASE Look
  BY <1>9 DEF Look, ClockInv
<1>10. CASE Replace
  BY <1>10 DEF Replace, ClockInv
<1>11. CASE Tick
  BY <1>11 DEF Tick, ClockInv, folder
<1>12. CASE UNCHANGED mboxVars
  BY <1>12 DEF mboxVars, ClockInv, folder
<1> QED
  BY <1>1, <1>2, <1>3, <1>4, <1>5, <1>6, <1>7, <1>8, <1>9, <1>10, <1>11, <1>12
    DEF MboxNext, Check, Others

\* Whoever writes in the second of a stat makes the file longer.
LEMMA WriteShows ==
    ASSUME ClockInv, Deliver \/ MarkRead \/ Delete \/ Record
    PROVE  /\ UNCHANGED <<setup, present, saved, mail, call>> /\ mtime' = now
           /\ Size' > Size \/ (call = "idle" /\ now > saved.mtime)
<1>1. setup \in Setup /\ saved.mtime \in Int /\ startedAt \in Int /\ now \in Int /\ saved.mtime <= startedAt
  BY DEF ClockInv
<1>2. call = "idle" /\ now > startedAt => call = "idle" /\ now > saved.mtime
  BY <1>1
<1>3. UNCHANGED <<setup, present, saved, mail, call>> /\ mtime' = now
  BY DEF Deliver, MarkRead, Delete, Record, Write, mail
<1>4. CASE Deliver
  <2>1. PICK kind \in Kinds : msgs' = Append(msgs, [kind |-> kind, read |-> FALSE])
    BY <1>4 DEF Deliver
  <2>2. [kind |-> kind, read |-> FALSE] \in Message /\ ~[kind |-> kind, read |-> FALSE].read
    BY DEF Message
  <2>3. Size' > Size
    BY <1>3, <2>1, <2>2, DeliveryGrows DEF ClockInv
  <2> QED
    BY <1>3, <2>3
<1>5. CASE MarkRead
  <2>1. PICK i \in DOMAIN msgs : ~msgs[i].read /\ msgs' = [msgs EXCEPT ![i].read = TRUE]
    BY <1>5 DEF MarkRead
  <2>2. CASE setup.sizeTells
    BY <1>3, <2>1, <2>2, MarkGrows DEF ClockInv
  <2>3. CASE ~setup.sizeTells
    <3>1. call = "idle" /\ now > startedAt
      BY <1>5, <2>3 DEF MarkRead, Write, Undisturbed
    <3> QED
      BY <1>2, <1>3, <3>1
  <2> QED
    BY <1>3, <2>2, <2>3
<1>6. CASE Delete \/ Record
  <2>1. call = "idle" /\ now > startedAt
    BY <1>6 DEF Delete, Record, Write, Undisturbed
  <2> QED
    BY <1>2, <1>3, <2>1
<1> QED
  BY <1>4, <1>5, <1>6

\* Every step keeps what a stat can tell.
LEMMA CountStep == ClockInv /\ CountInv /\ [MboxNext]_mboxVars => CountInv'
<1> SUFFICES ASSUME ClockInv, CountInv, [MboxNext]_mboxVars PROVE CountInv'
  OBVIOUS
<1>1. Size \in Int /\ saved.size \in Int /\ saved.mtime \in Int /\ mtime \in Int /\ Cardinality(Genuine) \in Nat
      /\ ClockInv' /\ Size' \in Int /\ saved'.size \in Int
  <2>1. ClockInv'
    BY ClockStep
  <2> QED
    BY <2>1, SizeType, SizeTypeNext, GenuineType DEF ClockInv
<1>2. CASE Stat
  <2>1. UNCHANGED <<present, msgs, setup, mtime, TotalMsgs, UnreadMsgs>>
    BY <1>2 DEF Stat, folder
  <2>2. Size' = Size /\ Genuine' = Genuine /\ Unread' = Unread /\ Miscounted' = Miscounted
    BY <2>1 DEF Size, Genuine, Unread, Miscounted
  <2>3. Truth' <=> Truth
    BY <2>1, <2>2 DEF Truth
  <2>4. CASE Changed
    <3>1. saved'.size = Size /\ call' = "open" /\ OldMsgs' = OldMsgs
      BY <1>2, <2>4 DEF Stat
    <3> QED
      BY <1>1, <2>1, <2>2, <3>1 DEF CountInv
  <2>5. CASE ~Changed /\ OldMsgs < 0
    <3>1. saved' = saved /\ call' = "open" /\ OldMsgs' = OldMsgs
      BY <1>2, <2>5 DEF Stat
    <3>2. present => Size = saved.size
      BY <2>5 DEF Changed
    <3> QED
      BY <1>1, <2>1, <2>2, <3>1, <3>2 DEF CountInv
  <2>6. CASE ~Changed /\ ~(OldMsgs < 0)
    <3>1. saved' = saved /\ call = "idle" /\ call' = "idle" /\ OldMsgs' = TotalMsgs
      BY <1>2, <2>6 DEF Stat
    <3>2. OldMsgs >= 0 /\ OldMsgs \in Int
      BY <2>6 DEF CountInv
    <3> QED
      BY <1>1, <2>1, <2>2, <2>3, <3>1, <3>2 DEF CountInv
  <2> QED
    BY <2>4, <2>5, <2>6
<1>3. CASE Open \/ Read \/ Utime
  <2>1. UNCHANGED <<present, msgs, setup, saved>>
    BY <1>3 DEF Open, Read, Utime, folder
  <2>2. Size' = Size /\ Genuine' = Genuine /\ Unread' = Unread /\ Miscounted' = Miscounted
    BY <2>1 DEF Size, Genuine, Unread, Miscounted
  <2>3. CASE Open
    <3>1. call = "open" /\ UNCHANGED OldMsgs
      BY <2>3 DEF Open
    <3>2. CASE present /\ readable
      <4>1. call' = "read" /\ UNCHANGED <<TotalMsgs, UnreadMsgs>>
        BY <2>3, <3>2 DEF Open
      <4> QED
        BY <2>1, <2>2, <3>1, <3>2, <4>1 DEF CountInv
    <3>3. CASE ~(present /\ readable)
      <4>1. call' = "utime" /\ TotalMsgs' = -1
        BY <2>3, <3>3 DEF Open
      <4> QED
        BY <2>1, <2>2, <3>1, <4>1 DEF CountInv
    <3> QED
      BY <3>2, <3>3
  <2>4. CASE Read
    <3>1. /\ call = "read" /\ call' = "utime" /\ UNCHANGED OldMsgs
          /\ TotalMsgs' = Cardinality(Genuine) /\ UnreadMsgs' = Cardinality(Unread) + Miscounted
      BY <2>4, CountIsTrue DEF Read, ClockInv
    <3>2. Truth'
      BY <2>2, <3>1 DEF Truth
    <3> QED
      BY <1>1, <2>1, <2>2, <3>1, <3>2 DEF CountInv
  <2>5. CASE Utime
    <3>1. call = "utime" /\ call' = "idle" /\ OldMsgs' = TotalMsgs /\ UNCHANGED <<TotalMsgs, UnreadMsgs>>
      BY <2>5 DEF Utime
    <3>2. Truth' <=> Truth
      BY <2>2, <3>1 DEF Truth
    <3> QED
      BY <1>1, <2>1, <2>2, <3>1, <3>2 DEF CountInv
  <2> QED
    BY <1>3, <2>3, <2>4, <2>5
<1>4. CASE Deliver \/ MarkRead \/ Delete \/ Record
  <2>1. /\ UNCHANGED <<setup, present, saved, TotalMsgs, UnreadMsgs, OldMsgs, call>> /\ mtime' = now
        /\ Size' > Size \/ (call = "idle" /\ now > saved.mtime)
    BY <1>4, WriteShows DEF mail
  <2>2. now \in Int /\ saved.mtime <= mtime /\ mtime <= now
    BY DEF ClockInv
  <2>3. CASE call = "idle" /\ now > saved.mtime
    <3>1. mtime' # saved'.mtime
      BY <1>1, <2>1, <2>2, <2>3
    <3> QED
      BY <2>1, <2>3, <3>1 DEF CountInv
  <2>4. CASE Size' > Size
    <3>1. saved.size <= Size => saved'.size <= Size' /\ Size' # saved'.size
      BY <1>1, <2>1, <2>4
    <3>2. mtime' = saved'.mtime => mtime = saved.mtime
      BY <1>1, <2>1, <2>2
    <3> QED
      BY <2>1, <3>1, <3>2 DEF CountInv
  <2> QED
    BY <2>1, <2>3, <2>4
<1>5. CASE Look \/ Replace \/ Tick \/ UNCHANGED mboxVars
  <2>1. UNCHANGED <<msgs, setup, mtime, saved, TotalMsgs, UnreadMsgs, OldMsgs, call>>
    BY <1>5 DEF Look, Replace, Tick, mboxVars, folder, mail
  <2>2. call = "idle" \/ UNCHANGED present
    BY <1>5 DEF Look, Replace, Undisturbed, Tick, mboxVars, folder
  <2>3. Size' = Size /\ Genuine' = Genuine /\ Unread' = Unread /\ Miscounted' = Miscounted
    BY <2>1 DEF Size, Genuine, Unread, Miscounted
  <2>4. Truth' <=> Truth
    BY <2>1, <2>3 DEF Truth
  <2> QED
    BY <2>1, <2>2, <2>3, <2>4 DEF CountInv
<1> QED
  BY <1>2, <1>3, <1>4, <1>5 DEF MboxNext, Check, Others

\* What a check knows in which nobody else acts.
QuietInv ==
    quiet =>
        /\ call # "idle" /\ present => mtime = saved.mtime /\ Size = saved.size
        /\ call = "read" => readable
        /\ call = "utime" => IF present /\ readable THEN Truth ELSE TotalMsgs = -1
        /\ call = "idle" /\ present =>
              IF readable THEN Truth ELSE TotalMsgs = -1 \/ (mtime = saved.mtime /\ Size = saved.size)

\* Every step keeps what an undisturbed check knows.
LEMMA QuietStep == ClockInv /\ CountInv /\ QuietInv /\ [MboxNext]_mboxVars => QuietInv'
<1> SUFFICES ASSUME ClockInv, CountInv, QuietInv, [MboxNext]_mboxVars PROVE QuietInv'
  OBVIOUS
<1>1. CASE Stat
  <2>1. UNCHANGED <<present, readable, msgs, setup, mtime, TotalMsgs, UnreadMsgs>>
    BY <1>1 DEF Stat, folder
  <2>2. Size' = Size /\ Genuine' = Genuine /\ Unread' = Unread /\ Miscounted' = Miscounted
    BY <2>1 DEF Size, Genuine, Unread, Miscounted
  <2>3. Truth' <=> Truth
    BY <2>1, <2>2 DEF Truth
  <2>4. CASE Changed
    <3>1. saved'.size = Size /\ saved'.mtime = mtime /\ call' = "open"
      BY <1>1, <2>4 DEF Stat
    <3> QED
      BY <2>1, <2>2, <3>1 DEF QuietInv
  <2>5. CASE ~Changed
    <3>1. saved' = saved /\ (present => mtime = saved.mtime /\ Size = saved.size)
      BY <1>1, <2>5 DEF Stat, Changed
    <3>2. CASE OldMsgs < 0
      <4>1. call' = "open"
        BY <1>1, <3>2 DEF Stat
      <4> QED
        BY <2>1, <2>2, <3>1, <4>1 DEF QuietInv
    <3>3. CASE ~(OldMsgs < 0)
      <4>1. call = "idle" /\ call' = "idle" /\ OldMsgs >= 0
        BY <1>1, <2>5, <3>3 DEF Stat, CountInv
      <4>2. present => Truth
        BY <3>1, <4>1 DEF CountInv
      <4> QED
        BY <2>1, <2>2, <2>3, <3>1, <4>1, <4>2 DEF QuietInv
    <3> QED
      BY <3>2, <3>3
  <2> QED
    BY <2>4, <2>5
<1>2. CASE Open \/ Read \/ Utime
  <2>1. UNCHANGED <<present, readable, msgs, setup, saved, quiet>>
    BY <1>2 DEF Open, Read, Utime, folder
  <2>2. Size' = Size /\ Genuine' = Genuine /\ Unread' = Unread /\ Miscounted' = Miscounted
    BY <2>1 DEF Size, Genuine, Unread, Miscounted
  <2>3. CASE Open
    <3>1. call = "open" /\ mtime' = mtime
      BY <2>3 DEF Open, folder
    <3>2. CASE present /\ readable
      <4>1. call' = "read"
        BY <2>3, <3>2 DEF Open
      <4> QED
        BY <2>1, <2>2, <3>1, <3>2, <4>1 DEF QuietInv
    <3>3. CASE ~(present /\ readable)
      <4>1. call' = "utime" /\ TotalMsgs' = -1
        BY <2>3, <3>3 DEF Open
      <4> QED
        BY <2>1, <2>2, <3>1, <3>3, <4>1 DEF QuietInv
    <3> QED
      BY <3>2, <3>3
  <2>4. CASE Read
    <3>1. /\ call = "read" /\ call' = "utime" /\ mtime' = mtime
          /\ TotalMsgs' = Cardinality(Genuine) /\ UnreadMsgs' = Cardinality(Unread) + Miscounted
      BY <2>4, CountIsTrue DEF Read, ClockInv
    <3>2. Truth'
      BY <2>2, <3>1 DEF Truth
    <3>3. present
      BY <3>1 DEF CountInv
    <3> QED
      BY <2>1, <2>2, <3>1, <3>2, <3>3 DEF QuietInv
  <2>5. CASE Utime
    <3>1. call = "utime" /\ call' = "idle" /\ UNCHANGED <<TotalMsgs, UnreadMsgs>>
      BY <2>5 DEF Utime
    <3>2. Truth' <=> Truth
      BY <2>2, <3>1 DEF Truth
    <3> QED
      BY <2>1, <2>2, <3>1, <3>2 DEF QuietInv
  <2> QED
    BY <1>2, <2>3, <2>4, <2>5
<1>3. CASE Deliver \/ MarkRead \/ Delete \/ Record \/ Look \/ Replace
  <2>1. ~quiet'
    BY <1>3 DEF Deliver, MarkRead, Delete, Record, Look, Replace, Write
  <2> QED
    BY <2>1 DEF QuietInv
<1>4. CASE Tick \/ UNCHANGED mboxVars
  <2>1. UNCHANGED <<present, readable, msgs, setup, mtime, saved, TotalMsgs, UnreadMsgs, call, quiet>>
    BY <1>4 DEF Tick, mboxVars, folder, mail
  <2>2. Size' = Size /\ Genuine' = Genuine /\ Unread' = Unread /\ Miscounted' = Miscounted
    BY <2>1 DEF Size, Genuine, Unread, Miscounted
  <2>3. Truth' <=> Truth
    BY <2>1, <2>2 DEF Truth
  <2> QED
    BY <2>1, <2>2, <2>3 DEF QuietInv
<1> QED
  BY <1>1, <1>2, <1>3, <1>4 DEF MboxNext, Check, Others

\* Every undisturbed check of an mbox leaves the true counts, for any number of
\* messages of any kinds that are delivered, whatever others did during the checks
\* before and in the second of their stat; if the clients' own message is there,
\* unread, beside one that is read, it counts one unread message too many.
THEOREM CountsSafety == MboxSpec => []ChecksTellTheTruth
<1>1. MboxInit => ClockInv /\ CountInv /\ QuietInv
  <2> SUFFICES ASSUME MboxInit PROVE ClockInv /\ CountInv /\ QuietInv
    OBVIOUS
  <2>1. Kept(msgs)
    <3>1. msgs = <<>> \/ \E m \in Own : msgs = <<m>>
      BY DEF MboxInit
    <3>2. Own \in SUBSET Message
      BY DEF Own, Message
    <3>3. Kept(<<>>)
      BY DEF Kept
    <3>4. ASSUME NEW m \in Message PROVE Kept(<<m>>)
      BY <3>4 DEF Kept
    <3> QED
      BY <3>1, <3>2, <3>3, <3>4
  <2>2. /\ setup \in Setup /\ call = "idle" /\ now = 1 /\ mtime = 1 /\ startedAt = 0
        /\ saved = [mtime |-> 0, size |-> 0] /\ TotalMsgs = 0 /\ OldMsgs = -1
    BY MboxAssumption DEF MboxInit
  <2>3. ~quiet
    BY DEF MboxInit
  <2>4. ClockInv
    BY <2>1, <2>2 DEF ClockInv
  <2>5. CountInv
    BY <2>2 DEF CountInv
  <2> QED
    BY <2>3, <2>4, <2>5 DEF QuietInv
<1>2. QuietInv => ChecksTellTheTruth
  BY DEF QuietInv, Truth, ChecksTellTheTruth
<1> QED
  BY <1>1, <1>2, ClockStep, CountStep, QuietStep, PTL DEF MboxSpec
=============================================================================
