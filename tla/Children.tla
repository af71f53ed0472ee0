------------------------------ MODULE Children ------------------------------
(***************************************************************************)
(* The processes wmbiff starts and the signals about them: sigchld_handler  *)
(* and restart_wmbiff of wmbiff.c, kind_popen and kind_pclose of            *)
(* ShellClient.c, execCommand of wmgeneral.                                 *)
(*                                                                         *)
(* A child that ends is a zombie until somebody waits for it.  While the    *)
(* output of a command is read SIGCHLD has its default action, so that the  *)
(* handler does not take the command's exit status from pclose.             *)
(*                                                                         *)
(* Actions of the program itself have the place it goes on at as parameter; *)
(* a module that extends this one adds what it does with the output.        *)
(***************************************************************************)
EXTENDS Naturals, FiniteSets

CONSTANTS
    Pids,       \* BOUND: children at a time
    NULL        \* no child; also what SIG_DFL is

ASSUME ChildrenAssumption == NULL \notin Pids

VARIABLES
    pc,         \* where the program is: starting, idle, read, close
    procs,      \* the state of each child
    cmd,        \* the child whose output is read
    handler,    \* the action for SIGCHLD: "reap" for sigchld_handler
    old,        \* old_signal_handler
    pending,    \* a SIGCHLD was sent and not yet handled
    blocked,    \* SIGUSR1 is blocked
    missed      \* HISTORY: zombies whose SIGCHLD was thrown away

signals == <<handler, old, pending, blocked, missed>>
childVars == <<pc, procs, cmd, signals>>

With(state) == {p \in Pids : procs[p] = state}

\* A process just started, or just restarted: exec keeps the children and
\* forgets the handler.
ChildrenInit ==
    /\ pc = "starting"
    /\ procs = [p \in Pids |-> "none"]
    /\ cmd = NULL
    /\ handler = NULL
    /\ old = NULL
    /\ pending = FALSE /\ blocked = FALSE
    /\ missed = {}

-----------------------------------------------------------------------------
\* A child ends.  A SIGCHLD with the default action is gone at once.
Ends ==
    /\ \E p \in With("running") :
          /\ procs' = [procs EXCEPT ![p] = "zombie"]
          /\ pending' = (handler # NULL)
          /\ missed' = IF handler = NULL THEN missed \union {p} ELSE missed
    /\ UNCHANGED <<pc, cmd, handler, old, blocked>>

ReapOne ==                                                         \* mutant
    /\ pending
    /\ handler # NULL
    /\ \E p \in With("zombie") : /\ procs' = [procs EXCEPT ![p] = "none"]
                                 /\ missed' = missed \ {p}
    /\ pending' = FALSE
    /\ UNCHANGED <<pc, cmd, handler, old, blocked>>
\* sigchld_handler: one signal may stand for several children.
Reap ==
    /\ pending
    /\ handler # NULL
    /\ procs' = [p \in Pids |-> IF procs[p] = "zombie" THEN "none" ELSE procs[p]]
    /\ pending' = FALSE
    /\ missed' = {}
    /\ UNCHANGED <<pc, cmd, handler, old, blocked>>

\* main, when the configuration is read.
InstallHandlers ==
    /\ pc = "starting"
    /\ handler' = "reap"
    /\ pc' = "idle"
    /\ UNCHANGED <<procs, cmd, old, pending, blocked, missed>>

\* execCommand: a notification, or the command of a button or of a fetch;
\* nobody keeps its pid.
execCommand ==
    /\ pc = "idle"
    /\ \E p \in With("none") : procs' = [procs EXCEPT ![p] = "running"]
    /\ UNCHANGED <<pc, cmd, signals>>

kind_popenPlain(then) ==                                           \* mutant
    /\ \E p \in With("none") : procs' = [procs EXCEPT ![p] = "running"] /\ cmd' = p
    /\ pc' = then
    /\ UNCHANGED signals
\* kind_popen, when popen works.  Changing the action throws away a SIGCHLD
\* that is pending.
kind_popen(then) ==
    /\ \E p \in With("none") : procs' = [procs EXCEPT ![p] = "running"] /\ cmd' = p
    /\ pc' = then
    /\ old' = handler
    /\ handler' = NULL
    /\ pending' = FALSE
    /\ missed' = With("zombie")
    /\ UNCHANGED blocked

\* kind_popen, when popen fails: the handler is back at once.
kind_popenFails ==
    /\ missed' = With("zombie")
    /\ pending' = FALSE
    /\ UNCHANGED <<pc, procs, cmd, handler, old, blocked>>

kind_pcloseForgetful(then) ==                                      \* mutant
    /\ procs[cmd] # "running"
    /\ procs' = [procs EXCEPT ![cmd] = "none"]
    /\ missed' = missed \ {cmd}
    /\ cmd' = NULL
    /\ pc' = then
    /\ handler' = IF old # NULL THEN old ELSE handler
    /\ UNCHANGED <<old, pending, blocked>>
\* kind_pclose: pclose waits for the command.
kind_pclose(then) ==
    /\ procs[cmd] # "running"
    /\ procs' = [procs EXCEPT ![cmd] = "none"]
    /\ missed' = missed \ {cmd}
    /\ cmd' = NULL
    /\ pc' = then
    /\ handler' = IF old # NULL THEN old ELSE handler
    /\ old' = NULL
    /\ UNCHANGED <<pending, blocked>>

\* exec: signals lose their handlers, but one that is being handled stays
\* blocked in the new program.
Exec(bySignal) ==
    /\ pc' = "starting"
    /\ handler' = NULL /\ old' = NULL
    /\ pending' = FALSE
    /\ missed' = With("zombie")
    /\ cmd' = NULL
    /\ blocked' = (blocked \/ bySignal)
    /\ UNCHANGED procs

\* restart_wmbiff, from a button with control and shift, or as the handler of
\* SIGUSR1, at any point.
RestartByButton == pc = "idle" /\ Exec(FALSE)
RestartBySignal == pc # "starting" /\ ~blocked /\ Exec(TRUE)
-----------------------------------------------------------------------------
\* TYPES.
ChildrenTypeOK ==
    /\ pc \in {"starting", "idle", "read", "close"}
    /\ procs \in [Pids -> {"none", "running", "zombie"}]
    /\ cmd \in Pids \union {NULL}
    /\ handler \in {NULL, "reap"} /\ old \in {NULL, "reap"}
    /\ pending \in BOOLEAN /\ blocked \in BOOLEAN
    /\ missed \subseteq Pids

\* "we care whether a checking program fails": nobody else waits for the
\* command whose output is read, so pclose gets its exit status.
CommandIsOurs == cmd # NULL => procs[cmd] # "none"

\* The handler is in place whenever no command is being read, and kind_popen's
\* assertion that none is nested holds.
HandlerComesBack ==
    /\ pc = "idle" => handler = "reap" /\ old = NULL
    /\ pc \in {"read", "close"} => handler = NULL /\ old = "reap"

\* No zombie stays behind but those that ended while the handler was away (the
\* next child to end takes them along), and the command itself.
OnlyMissedLinger ==
    handler = "reap" /\ ~pending => With("zombie") \subseteq missed
=============================================================================
