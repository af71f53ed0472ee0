# Specifications of wmbiff

wmbiff is a dock application that shows, for up to 40 mailboxes, how much mail
they hold. It is one process with one thread. A loop checks the mailboxes one
after another; the clients it calls talk to IMAP and POP3 servers, look at
files and directories or run commands. What makes it hard is that the thread
re-enters itself: every wait for a server serves X events, and a button press
served there may use the same connection, the same password cache and the same
list of headers as the call that waits.

This directory holds TLA+ specifications of that program, TLC configurations
that check them on small instances, and proofs that TLAPS checks. Every
definition is written from the C code; `PROJECT.json` maps each of them to its
lines. Paths below are relative to `src/wmbiff/`.

    tlc -workers 2 -config Poller.cfg MCPoller      # a run
    tlapm PollerProofs.tla                          # the proofs of a module

- [Inventory](#inventory)
- [Hard behaviour](#hard-behaviour)
- [Modules](#modules)
- [Runs](#runs)
- [Fairness](#fairness)
- [Proofs](#proofs)
- [Divergences](#divergences)
- [What is not modelled](#what-is-not-modelled)
- [Plan](#plan)

## Inventory

| component | code | state | operations | status |
|---|---|---|---|---|
| polling loop | `wmbiff.c` `do_biff`, `periodic_mail_check`, `count_mail`, `displayMsgCounters`, `blitMsgCounters` | the counters of each `mbox_t`, `prevtime`, `prevfetch_time`, `blink_stat`, `Blink_Mode`, the rows on the screen | one pass over the mailboxes; verdict, drawing, blinking, notify, fetch; choice of the sleep | `Poller` |
| password cache | `passwordMgr.c` | the list `pass_list`, `PCU.password` and `checkMail` of each mailbox | `passwordFor`, with and without the order to flush; its callers in both login functions | `PasswordMgr`, `PasswordCache` |
| maildir client | `maildirClient.c` | saved times and sizes, counters | `maildirCheckHistory` | `Maildir` |
| IMAP client | `Imap4Client.c` | `fdmap`, one connection per account; the `scs` each call holds | `imap_checkmail`, `imap_open`, `imap_cacheHeaders`, `bind_state_to_pcu`, `unbind` | `Imap`; its lists of headers in `MsgList`, its login dialogue in `PasswordMgr` |
| lines from the server | `tlsComm.c` `tlscomm_expect`, `wait_for_it`, `getline_from_buffer` | the buffer `unprocessed`, `buffered_bytes` of each call | wait, read, split, match | `TlsComm` |
| header popup | `MessageList.c`, the header functions of the IMAP and POP3 clients | `newwin`, `Headers`, `headerCache` of each mailbox, `in_use` | `msglst_show`, `msglst_hide`, `*_getHeaders`, `*_cacheHeaders`, `imap_releaseHeaders` | `MsgList` |
| POP3 client | `Pop3Client.c` | a connection that lives for one check or popup; counters and `headerCache` of the mailbox | login by CRAM-MD5, APOP or USER/PASS, STAT, LAST, TOP, `pop3_getHeaders` | `Pop3`; its passwords in `PasswordMgr`, its lists beside those of IMAP in `MsgList` |
| TLS session | `tlsComm.c` `initialize_gnutls`, `tls_check_certificate` | the library's | handshake, verification, comparison with a file | what the program does with the outcomes: `TlsSession` |
| mbox client | `mboxClient.c` | saved time and size, counters | `mboxCheckHistory`, `countMessages` | `Mbox` |
| shell client | `ShellClient.c` | the static `allbuf`; `TextStatus` and the counters of the mailbox | `shellCmdCheck`, `grabCommandOutput`, `backtickExpand`, `shell_getHeaders` | `Shell` |
| children and signals | `wmbiff.c` `sigchld_handler`, `restart_wmbiff`; `kind_popen`, `kind_pclose`; `../wmgeneral/misc.c` `execCommand` | the action for SIGCHLD, `old_signal_handler`, the children | start, end, reap, restart | `Children` |
| configuration | `wmbiff.c` `ReadLine`, `Read_Config_File`, `parse_mbox_path`, `init_biff`; the creators of the clients | `num_mailboxes`, the `mbox_t` array, the global settings | find the file, one line, the end of the file | `Config` |
| X events | `wmbiff.c` `ProcessPendingEvents`, `../wmgeneral/wmgeneral.c` | the mouse regions | press, release, Expose, keys | presses and releases are actions of `Poller`, `Imap`, `Pop3`, `MsgList`, `Children`; not keys |
| sockets | `socket.c` | none | connect | outcomes only |
| command line and start | `wmbiff.c` `main`, `parse_cmd` | the options | runs once | no |

How they interact:

- **Calls.** `do_biff` calls `periodic_mail_check` and `ProcessPendingEvents`
  for ever. A pass calls each mailbox's `checkMail`; a press calls its
  `getHeaders` through `msglst_show`, a release its `releaseHeaders` through
  `msglst_hide`.
- **Re-entry.** `wait_for_it` (`tlsComm.c:127`) calls `ProcessPendingEvents`
  at the start of each wait, so a press may run any of those calls inside a
  check, or inside another press. The inner call ends before the outer one goes
  on: the calls under way are a stack, and that is how `Imap`, `Pop3`,
  `PasswordMgr`, `TlsComm` and `MsgList` model them.
- **Signals.** SIGCHLD runs the handler between any two instructions, except
  while the output of a command is read, and SIGUSR1 replaces the process.
- **Shared state.** `fdmap` and each connection's buffer are shared by all
  calls of an account; `pass_list` by all mailboxes with an interactive
  password; `headerCache` by a mailbox's checks and popups; `prevtime` and
  `checkMail` are set by the loop, by `imap_open` (a connection that timed out
  puts the mailbox 300 seconds off) and by `passwordFor`.

What makes each component correct:

- *Polling loop*: the row of a mailbox shows what its counters say; new mail
  is announced; blinking is complete, private to a mailbox, and ends; every
  mailbox is checked again and again, as long as the calls of the others return;
  the global command runs once per pass.
- *Password cache*: it keeps the last answer for each account; an IMAP login asks
  again only if a password was refused (a POP3 login always asks); every lookup
  returns.
- *Maildir client*: after a check that nobody disturbs the counts are true,
  whatever happened during the checks before.
- *IMAP client*: `fdmap` holds open connections only, none is lost, none is
  closed twice, and its five slots are enough.
- *Lines from the server*: bytes leave in the order they came, lines are
  whole, and a call returns.
- *Header popup*: no list is freed while something still points to it, and
  none is lost, nor a message, unless its FETCH was not answered.
- *POP3 client*: each session is closed however it ends, stays in step with the
  server, and gives the server's counts and headers, though a popup may run a
  session of its own inside it.
- *TLS session*: it begins only after the tests of the certificate that the code
  makes, which are fewer than the manual says.
- *mbox client*: after an undisturbed check the counts are true, unless the message
  clients keep for themselves is unread, and nobody can see from the times of
  the file that it was read.
- *Shell client*: the row shows the number the command printed if it comes with
  "new" or in classic mode, and 0 otherwise; the popup shows its lines, whatever other
  commands printed before.
- *Children*: the exit status of a command goes to `pclose`, the handler
  comes back, and no zombie stays for ever.
- *Configuration*: the last good line about a setting counts, in the spelling the
  parser knows; every mailbox with a label has a checker and an interval; TLS is
  used where the path says so.

## Hard behaviour

`PROJECT.json` lists every hazard at its line, with the properties that watch
it or the reason why none does. In short:

- *Interleaving.* Only through re-entry, but there at every wait: inner calls
  free, replace or fill what outer calls hold in local variables.
- *Stale state.* `scs` held over a wait (`Imap4Client.c:295`), `headerCache`
  read again after it, `mbox` counters compared with those of an older check,
  the head of a list that carries the mark for the whole list.
- *Atomicity.* The maildir and mbox checks are rows of system calls; mail may
  arrive between any two of them.
- *Signals.* A child may end at any point, also while the handler is put aside.
- *Timeouts.* A wait for a POP3 server that times out is treated as an answer;
  the line that comes late is read as the answer to the next command.
- *Partial failure.* A failed check sets counters to -1 and keeps the row at
  XX; a failed login must give back its connection and no other.
- *Limits.* The bits of `Blink_Mode`, the slots of `fdmap`, the bytes of
  `unprocessed`.
- *Liveness.* The loop must come back to each mailbox; lookups and waits must
  end. One call that never returns stops everything: there is one thread.

Nothing is persisted, so there is nothing to recover after a crash; a restart
(`exec`) keeps the children and the blocked signals of the old process, which
`Children` models.

## Modules

Each module's header comment says what it abstracts. `MC*` modules hold the
small instances and nothing else. Operators whose line is marked `mutant` are
plausible bugs in the definition below them; nothing uses them. Some variables
are marked `HISTORY`: they record what happened for the properties' sake and no
guard reads them, except that `Maildir` says with `startedAt` when others may
act, and `TlsComm` bounds `sent`.

**`Poller`** is one iteration of the `for` loop, step by step: `StartPass`
samples the clock, `BeginCheck`/`NotDue`/`SkipUnlabelled` decide, the `Check*`
actions are the outcomes of `count_mail`, `BlinkAndFetch` the rest of the body,
`EndPass` the code behind the loop. What a client leaves in the counters is the
environment's choice, so that one module covers every client. Times are kept
relative to the loop's `curtime` and not told apart once a mailbox is due, which
makes the state finite for any run of the clock: `since[i]` is
`curtime - mbox[i].prevtime`, and `lag` how far the wall clock is ahead. The
bits of `Blink_Mode` are a set; `Bit(i)` is what `1 << i` yields, with the
width of an `int` and what the machine does beyond it as constants. `row[i]` is
what was last drawn. Between passes and inside a remote check a popup may push an
IMAP mailbox into the future (`PopupTimesOut`) or disable an IMAP or POP3 mailbox
(`PopupDisables`). A check or a popup may also never return (`CheckHangs`,
`PopupHangs`): the output of a command is read to its end, an askpass waits for the
user, a read may block (`tlsComm.c:225`), an IMAP login goes on while the server refuses,
and a lookup may walk a cycle (`password_refused`).

**`PasswordCache`** is the abstract promise: one remembered password per
account, changed only by an answer for that account. **`PasswordMgr`** is the
code: heap nodes, `next` pointers, the walk of `passwordFor` node by node, and
the logins of both clients that call it, nested. Passwords are four kinds; one
begins with an asterisk, because frobnicating it yields a NUL and the code then
takes the password for empty (`LooksEmpty`). `Cache` maps the list to the
abstract cache: the password of an account is what a walk from `pass_list`
finds first.

**`Maildir`** is `maildirCheckHistory` with one action per system call, beside
programs that deliver, read, delete and mount, and a clock of whole seconds. A
setup says whether `st_size` of a directory tells how many entries it has
(it does not on ext4 until a block fills), whether the F flag is set, and when
others act. `utime` puts back the modification time, as the code does.

**`Imap`** has `fdmap`, the allocated connections, and the stack of calls with
the connection each one holds. One action per wait and outcome; `Drop` is
`tlscomm_close(unbind(scs))`. Addresses of closed connections are reused.

**`TlsComm`** has the bytes on the wire, in the socket and in `unprocessed`,
and the stack of calls of `tlscomm_expect`, each with its own
`buffered_bytes`. Bytes are three letters: a tag, a star, a newline. Actions
are the steps between the two loops of the function. The buffer is a sequence
without its NUL, so `unprocessed[buffered_bytes] == '\0'` is
`n = Len(buf)`: the code relies on it when it decides between reading and using
what an inner call left, which is what `CountIsTrue` is about.

**`MsgList`** has the allocated messages with their `in_use` bit, each
mailbox's cached list, the popup's list, and the stack of calls. A list is a
sequence of addresses, its head the message whose `in_use` stands for the whole
list; `FetchOne` puts a message in front of the list, as the code does, and
`FetchUnanswered` is the FETCH that IMAP gives up on: the message allocated for it
is in no list and is not freed (`unlinked` records it). `Hide` releases the lists of
IMAP mailboxes only, since `pop3Create` installs no `releaseHeaders`; which
mailbox the release is about is that of the last press, `Active_pc`. A setup
says when the user presses: when nothing else goes on (`calm`), in any wait but a fetch of the
same mailbox (`apart`), or at any time (`any`).

**`Pop3`** is a POP3 session from one wait to the next, one action per wait.
The server's lines that are under way (`wire`) and what it takes the program to
have done (`stage`) are part of the session, so that an answer that comes after
its wait timed out is found by a later read. Which commands the server knows,
whether answers may be late and when the user presses is the setup's choice. The
number of a line without one is whatever the uninitialized `int` holds
(`Garbage`). **`TlsSession`** has the operators for a connection over TLS: a
server is a record of what GnuTLS says of it, what verification found (`status`) with
it, and `Initialize` is what the program makes of it, in the order of the code.
`Status` is the chain of tests of the bits of the status: the first that is set is
the only one looked at, an insecure algorithm is only warned of, and nothing is
done about an invalid certificate of type X.509. `FatalFlags` depends on whether
GnuTLS defines the corrupted bit, an option of the build. `Unusable` are the options
that end the program whatever the server is.

**`Mbox`** is `mboxCheckHistory` with one action per system call, beside
programs that deliver, read, delete, look and replace, with a clock of whole
seconds. Messages are sequences of lines, told apart as far as `countMessages`
tells them apart, and `countMessages` is a fold over the lines of the file. The
message clients keep for themselves (`Own`) is there from the start or put in later
(`Record`), read or unread.

**`Children`** has the processes and the signals about them; a SIGCHLD that
comes while the action is the default one is gone, and the child is in `missed`.
**`Shell`** extends it with what a mailbox makes of a command's output, up to
the row on the screen. `allbuf` is static and `fread` does not end it with a
NUL: `Overlay` writes the new output over the old.

**`Config`** reads a file line by line. A line is a record of the words the
parser tells apart; what the parsers of a path look for is given by constant
operators on values (`Scheme`, `Letters`, `WellFormed`, `Rest`), and so are the
lengths of labels (`Padded`, `Cut`), so that characters do not appear. Whether a
label is padded depends on the option for a font. The properties compare the array that results with
what the lines mean taken together.

**`PollerProofs`**, **`PasswordMgrProofs`**, **`MaildirProofs`**, **`ImapProofs`**,
**`TlsCommProofs`**, **`MsgListProofs`**, **`Pop3Proofs`** and **`ShellProofs`** hold
invariants, theorems and their proofs only; each extends the module it is named
after. `PollerProofs` also has the proofs about `Config`, which makes the array
`Poller` works on, and `ShellProofs` those about `Mbox`: both read a text with a
fold over its lines, so they share what is proved of folds. The specifications
stay apart (`ConfigSpec`, `MboxSpec`), and no name of one is used by the other.

Apart from `Shell`, which extends `Children`, and `Pop3`, which extends
`TlsSession`, the modules do not extend each other. They meet at interfaces that each states
on its own side: `Poller`'s `CheckTimesOut` and `CheckDisables` are outcomes of
`Imap`, `Pop3` and `PasswordMgr`; `Imap`'s answers and timeouts are the returns of
`TlsComm`; `MsgList`'s `NoAnswer` stands for those of `Imap`'s actions that end
a call early.

## Runs

Passing runs; TLC finishes each of them.

| run | instance | states | what it shows |
|---|---|---|---|
| `poller` | 3 mailboxes: an IMAP one, one without label and client, and a remote one that fetches; two mails; blinking of 4 visits; clock lag up to 2 | 562,170 | `RowCurrent`, `NoRowLeftDark`, `GlobalNotifyOnce`, `BlinkRunsItsCourse`, `NewMailAnnounced`, and under fairness `Rechecked`, `BlinkingEnds` |
| `password` | 3 IMAP mailboxes on 2 accounts, or one IMAP and two POP3 mailboxes on one, logins two deep; or one IMAP or POP3 mailbox whose password is refused | 38,083 | `OneBindingEach`, `ImapAsksOnce`, `LookupReturns`; the list implements `PasswordCache` (`ImplementsCache`) |
| `maildir` | directories of at most one message, three seconds, sizes that tell nothing; others act between checks, or at any time with the F flag | 374,852 | `ChecksTellTheTruth` |
| `imap` | 3 mailboxes on 2 accounts, 2 slots, 4 addresses; without popups, or popups three deep | 24,971 | `SlotsHoldOpenConnections`, `NothingLeaks`; without popups `OneSocketPerAccount` |
| `tls` | 3 lines; whole, short, long or cut into any pieces; a buffer of 10 bytes; calls up to three deep; a server that may hang up | 137,266 | `BytesInOrder`, `CountIsTrue`, `LinesAreWhole`, `ReturnsOnLongLines` |
| `msglist` | one IMAP and one POP3 mailbox, 4 addresses, lists of 2, calls three deep; presses `calm` or `apart` | 169,631 | `ShownIsLiveApart`, `CacheIsLive`, `NothingLost` |
| `pop3` | one mailbox, two messages; servers that know all commands, or not CRAM-MD5 and LAST, or a machine without digests; plain with popups two deep, with late answers, or over TLS with fourteen kinds of server and different options | 2,647,073 | `NothingLost`, `InStep`, `CountsAreTheServers`, `HeadersInOrder`, `SessionsAreChecked` |
| `mbox` | folders of two messages of five kinds, and the one clients keep for themselves, three seconds; others act between checks, or, where sizes tell of every change, also add and read during them | 3,991,637 | `ChecksTellTheTruth`, `NoTraceOfTheCheck` |
| `shell` | 18 outputs, three children at a time, with and without classic mode, restarts | 1,053,992 | `CommandIsOurs`, `HandlerComesBack`, `OnlyMissedLinger`, `RowIsCurrent`, `HeadersAreLines` |
| `config` | files of four of thirty-two lines, about three mailboxes, with neither or both of `-relax` and a font | 3,878,796 | `LastLineWins`, `BoxesAreReady`, `TlsWhenAsked` |

Every module has a type invariant. It is part of the run where it holds a bound
of the code: `blink_stat` within `0 .. 2 * BLINK_TIMES` (`poller`), the buffer
shorter than `unprocessed` (`tls`), `in_use` within one bit (`msglist`). Those of
`Children`, `Imap`, `PasswordMgr` and `Maildir` are proved with the rest.

Violation runs; each one is a disagreement between the code and what its
comments or its manual say, listed under `findings` and [below](#divergences).

| run | property | what happens |
|---|---|---|
| `password_refused` | `LookupReturns` | a refused password makes the list a cycle |
| `imap_twice` | `ClosedOnce` | a popup closes the connection a check is waiting on |

The other disagreements have a property and a configuration each, beside the
runs; TLC finds each of the properties violated:

| configuration, module | property | what happens |
|---|---|---|
| `PollerNotify`, `MCPoller` | `OwnNotifyOverrides` | the global notification runs though each announced mailbox has its own |
| `PasswordMgrPop3`, `MCPasswordMgr` | `AskedOnce` | of two POP3 mailboxes that share an account each asks |
| `Pop3Certfile`, `MCPop3` | `ExitsOnFailure` | verification finds fault with a certificate, and the session begins |
| `Pop3Trusting`, `MCPop3` | `TrustsAll` | without a certfile a bad certificate ends the program |
| `MboxOwn`, `MCMbox` | `OwnIsIgnored` | the clients' own message, unread, makes a read one count as unread |
| `ShellNumber`, `MCShell` | `NumbersAreShown` | a number without "new" is shown as 0 |
| `ConfigAskpass`, `MCConfig` | `AskpassPerMailbox` | `askpass.2` sets nothing |
| `ConfigLabels`, `MCConfig` | `LabelsEnd` | a label keeps six characters |

Why the bounds are enough:

- `poller`: two remote mailboxes that blink suffice for what one does to another's
  bit or row, and for a popup on one inside the check of the other; the one between
  them has no label, and no client, as a mailbox whose path was refused. Intervals of
  one second with a lag of two make every order of due times possible; no unread mail,
  another total and one unread make every verdict possible. `BLINK_TIMES` is 2 in place
  of 8: dark and lit phases alternate twice, so that one mailbox may end while the other
  has more than one visit to go. The proofs drop all of these bounds.
- `password`: two accounts and three mailboxes are the least with a shared and
  a separate binding. With refusals, and where POP3 mailboxes share an account, the run
  keeps to one account, since a flush with two makes the cycle of `password_refused`.
- `maildir`: one message in each directory lets the counts differ between any
  two system calls. Three seconds are one for a change, one for the check that misses
  or sees it, and one for the check that must tell the truth.
- `imap`: two slots for two accounts is the tightest cache that should not
  overflow (the code has five for up to 40 mailboxes). Three nested calls are a
  check and two popups; four addresses are one more than they can hold.
- `tls`: a call may see an earlier line, its own and a later one. `BUF_SIZE` is
  10, so two long lines do not quite fit and the cut of a full buffer happens.
- `msglist`: two messages tell the head of a list from the rest; four addresses
  let one list be shown, one be cached and one be built, and FETCHes go unanswered.
- `pop3`: two messages let the counts of a check and of the popup inside it
  differ either way; three descriptors are one more than two nested
  sessions hold.
- `mbox`: two messages let one hide the other (the message clients keep for
  themselves, a body that looks like a header); three seconds are a change, a
  check that misses or sees it, and a check that must tell the truth.
- `shell`: three children are the command, one that ends while it runs and one
  that ends later. Subjects have two characters in place of 49, so that lines
  below, at and above the limit fit; outputs are numbers and texts that come with
  and without a word, so that each verdict follows each other one.
- `config`: four lines are two mailboxes' labels, a path and one more setting
  on either side of them; the third mailbox is the one a wrong count misses.

`MaxLag`, `MaxFiles`, `MaxTime`, `MaxLines`, `MaxMsgs`, `Depth`/`depth` and the
number of heap addresses are bounds of the models, not of the program; each is
marked `BOUND` or described where it is declared (so are `MaxMail`, `Fds`, `Pids`
and `MAX_LINES`). Symmetry is used in `imap` and
`msglist`, over addresses only, in runs without liveness.

`CHECK_DEADLOCK FALSE` is set where the program really ends, or the model with
its last step: a cancelled question (`password`), an overflow or a crash
(`imap`), a bad certificate (`pop3`), a configuration that has been read or
found missing (`config`). `Poller` stutters in a call that never returns (`Hung`).

## Fairness

Only three specifications state any; `Imap`, `Maildir`, `MsgList`, `Pop3`,
`Mbox`, `Shell` and `Config` are about safety.

- `Poller`: weak fairness of the loop's steps, and of the clock: the process is
  scheduled. That a check returns is not assumed: `CheckHangs` is one of the loop's
  steps, and once a call hangs nothing else happens. Nothing is assumed of the user, who
  may open popups for ever or never. So both properties make an exception for a call
  that never returns; `Rechecked` makes another for a user who keeps opening popups
  that time out, and `BlinkingEnds` for mail that keeps arriving.
- `PasswordMgr`: weak fairness of the lookup's steps (straight-line code, and a
  user who answers or cancels) and of the server's, who answers or is timed out.
  Whether a login ends is not claimed: IMAP retries as long as it is refused.
- `TlsComm`: weak fairness of the steps of a call. A step that waits or
  reads is enabled only when it can go on; nothing is assumed of the server.
  `ReturnsOnLongLines` holds for finitely many lines (`MaxLines`): a server that
  sends other lines for ever keeps a call in its loop.

## Proofs

TLC shows the properties on the instances above; the theorems hold for every
value of the constants that the modules' named assumptions allow:

- `ImapAssumption`: finitely many mailboxes, at least one slot, and a NULL that is
  no connection and no account.
- `PasswordAssumption`: finitely many addresses, none of them NULL.
- `MaildirAssumption`: a directory may hold a file.
- `TlsCommAssumption`: lines are what a newline ends, so each has exactly one;
  the buffers hold a byte and its NUL.
- `Pop3Assumption`: 0 is no descriptor a connect returns, and a number read from a
  line is an `int`.
- `BoxesAssumption`, `DataAssumption`, `NumbersAssumption`: the types of the
  poller's constants, intervals that `MaxLag` covers, at least one blink.
- `MsgListAssumption`: a mailbox is IMAP or POP3 and not both, and not NULL; the types.
- `ShellAssumption`, `ChildrenAssumption`: the types, and a NULL that is no pid.
- `MboxAssumption`: the surroundings are of the kinds `Setup` lists; the message clients
  keep for themselves is not one that is delivered (`Record` puts it in).
- `ConfigAssumption`: the types of the words of a line and of what the parsers
  find in them (`Scheme`, `Length`, `atoi`); a line without a word has no index; a
  label that is cut is not empty; room for one mailbox at least.

Six theorems have a hypothesis of their own: `DarkRowsAreRedrawn`,
`BlinkingIsPrivate`, `RowsAreCurrent`, `ListImplementsCache`,
`ImapQuestionAskedOnce` and `ChecksAreTrue`. Each hypothesis leaves out a behaviour of
the code that the property does not survive; the theorem's paragraph below says which, and the
runs check the property on setups that satisfy the hypothesis.

**`PollerProofs`**, for any number of mailboxes, intervals, counts and blink times:

- `TypeCorrect`: `Spec => []TypeOK`. Inductive as it stands; one lemma per
  group of actions. It includes that `blink_stat` never leaves its range.
- `DarkRowsAreRedrawn` and `BlinkingIsPrivate`, assuming
  `NumBoxes <= IntBits`: no row stays dark over the long sleep, and no
  mailbox cuts another's blinking short. Neither is inductive. `BlinkInv` ties
  the mask to the counters: a bit is set exactly while its mailbox's
  `blink_stat` is positive, and a row is dark only while it is positive.
  The mask is then empty only when no mailbox is half way through its blinking.
  Without the assumption two mailboxes
  share a bit and the invariant fails at the first of them to finish.
- `NewMailIsAnnounced`: follows from `BaselineInv`, which relates the counts the
  code compares with to those of the last check that worked: they are equal, or
  forgotten (-1) by a failure, so a rise over the last good check is a rise over
  what the code remembers.
- `RowsAreCurrent`, assuming that no client sets a text (`CountsOnly`) and
  `NumBoxes <= IntBits`: the row is up to date however checks, failures,
  blinking and popups interleave. `CountInv` says when counters and the old
  counters agree, `DisabledInv` what a mailbox without a check function
  shows. They are needed because a verdict of 0 draws nothing: it must never be
  given to a row that is out of date.

- `GlobalNotificationRunsOnce`: at the end of a pass the global command has run
  once, last, if some mailbox was announced, and not otherwise. `PassInv` is what
  makes it inductive: while the pass goes on, `NewMail` is set exactly if a
  notify command has run, and the global one has not. It is what the code does, not
  what the manual says of a mailbox with its own `notify` (`PollerNotify.cfg`).

And about `Config`, for any lines in any number and order, any paths, lengths of
buffers and number of mailboxes:

- `SettingsSafety`: the strings, the two intervals, the debugging and the askpass
  program of each mailbox, and the strings and the interval for the whole program,
  are what the last good line about them says. (An `askpass` with a dot is no line
  about it: `ConfigAskpass.cfg`.) `ConfigInv` says of the whole array, at every line, that it is
  what the lines read so far mean (`Meant`): a string what the latest line that
  fits says, a number what the latest that is one says. One line more
  either becomes the latest or leaves the latest what it was, so no induction over
  the file is needed; the invariant is what carries it from line to line.
- `ReadySafety` and `TlsSafety`: once the program runs, a mailbox that is shown
  has its label, padded and cut as the code does, the checker of its path, its own
  interval or the one for all, and TLS where its path asks for it (but for the one [spelling](#divergences)).
  `ReadyInv` adds to `ConfigInv` what `init_biff` made of each mailbox (`Ready`),
  or that there was no file and nothing asks for TLS.

**`PasswordMgrProofs`**, for any mailboxes, accounts, passwords and depth of nested
logins:

- `TypeCorrect`, and `AccountsShareABinding`: no account has two bindings.
  `HeapInv` says why: the bindings in the heap are one chain from
  `pass_list` or, after a flush, a ring; only the innermost login walks; and a walk
  has met, without finding its account, exactly what lies between `pass_list` and
  where it stands (`Met`). So one that comes to the end has met every
  binding, and none was for the account it now adds. No induction over
  the list is needed: the chain is a sequence of addresses that the invariant says
  exists, and each step shortens or extends it.
- `ListImplementsCache`: each step of the list is a step of `PasswordCache`, or
  none of its steps, when servers take what the user types and no mailbox is POP3, or
  all mailboxes share an account (`OneAccount`). Otherwise a flush of a binding that is not the
  only one cuts off those behind it, and their passwords are forgotten.
- `ImapQuestionAskedOnce`: an IMAP login asks again only for a refused password, when
  servers take what is typed, however IMAP and POP3 mailboxes share accounts; or when
  mailboxes have accounts of their own and logins do not nest (`EachItsOwn`).
  Otherwise a login that waits with the old password, while one inside it was told a
  new one, has the user type it again. `OwnInv` relates the password a mailbox keeps
  to the one in the list. Of POP3 nothing is claimed: its logins order a flush each
  time they need a password (`Pop3Client.c:429`), so POP3 mailboxes that share an
  account each ask (`PasswordMgrPop3.cfg`).

**`MaildirProofs`**, for any number of files and seconds:

- `TypeCorrect`: with it, that no saved time is ahead of the clock.
- `ChecksAreTrue`: a check that began after the last change leaves the true
  counts, or -1. The hypothesis is the F flag, or other programs that keep to
  the time between checks; without either, mail that comes during a check is
  never counted ([below](#divergences)). The two cases have different
  reasons, and an invariant each. `FlushInv`: with the flag the check itself
  gives `new/` the second it started in, and in that second a quiet maildir was
  not changed, so a saved time later than the last change means that the
  counts are right. `BetweenInv`: without it, no change leaves a directory with
  the time that was saved.

**`ImapProofs`**, for any mailboxes, slots, addresses and depth of popups:

- `CacheCorrect` is the inductive invariant, `CacheInv`; `TypeCorrect`,
  `CacheHoldsOpenConnections` and `ConnectionsDoNotLeak` follow. The last two are
  inductive only with `LoginsHold` and `LoginsApart`: a call that logs in holds
  an open connection that is in no slot yet, and no other call that logs in
  holds the same. It is what lets a failed login close its connection without
  closing another's.
- `AccountsShareASocket`: without popups an account has one slot at most, and a
  cache with a slot for each account never overflows. `OneInv` adds that the
  one call that logs in found no slot for its account (`Alone`); that fewer
  slots than accounts are then in use is a pigeonhole argument, from the
  library's theorems on cardinalities.

**`TlsCommProofs`**, for any lines, pieces, sizes of buffers, prefixes and depth of
nested calls:

- `TypeCorrect`: with it, that the buffer never outgrows `unprocessed`, though
  each call computes the room left from a count of its own.
- `CountSafety`: that count is true whenever lines are taken. It is proved
  together with the types, by `CountInv`: all calls but the innermost are in a
  wait, and a call in a wait has counted 0. What an inner call does to the buffer
  therefore makes no outer count false; the outer call finds the bytes uncounted.
- `ByteSafety`: no byte is lost, repeated or moved. What `FlattenSeq` of the
  community modules makes of the lines is characterised once (`FlattenAppend`,
  `FlattenNext`, by least counterexamples); each step then moves a piece from
  the front of one text to the end of the one before.
- `LineSafety`: lines that arrive whole are taken whole. `WholeInv` adds that the
  buffer and the socket each end with a newline or are empty, `AllFits` that a
  read never has to cut; then what is left of the buffer begins with the next
  line, and the first newline is that line's.

**`MsgListProofs`**, for any mailboxes, any number of messages, and any depth of nesting:

- `TypeCorrect`: `in_use` keeps to its bit, the stack is well formed.
- `ShownStaysLive` and `CachesStayLive`: unless a press comes while the pressed
  mailbox is fetching, neither the popup nor a cache ever holds a freed message,
  and two mailboxes share none. The inductive invariant is `HeldInv`:
  `CachesHeld` (the lists are allocated and pairwise apart), `ShownHeld` (the
  popup's list is a mailbox's *whole* list, and then its head is marked, or
  shares nothing with it), `FetchHidden` (a list being fetched is not the one that is
  shown) and `FetchAlone` (no call inside a fetch is for the same mailbox).
  The last two are what the code does not ensure by itself: a press during
  a fetch breaks `FetchHidden`, the shown list becomes the tail of a longer one
  with an unmarked head, and the next fetch frees it.

- `NoListIsLost`: while presses do not overlap (`calm`), each allocated message is
  in a list that somebody still has, or was allocated for a FETCH that an IMAP server
  did not answer; that one the code loses (`Imap4Client.c:406`, `:412`, `:448`).
  `KeptInv` adds to `HeldInv` that one call at most is under way (`OneCall`) and
  that a marked list of an IMAP mailbox is the one it shares with the popup
  (`MarksAreShared`): whichever lets it go last frees it. What the popup shows of a
  POP3 mailbox, which nobody releases, the mailbox still has (`ShownOfActive`).

**`Pop3Proofs`**, for any servers, options, numbers of messages, descriptors and
depth of popups. All of them rest on `Typed`, the types of sessions and
counters without the bound of what an uninitialized number may hold:

- `SessionSafety`: a session over TLS begins only with a certificate that passed the
  tests the code makes, unless the user skips the check: it could be verified,
  none of the fatal bits is set, its times hold, it names the host, and it is in the
  certfile if there is one. An insecure algorithm and, for X.509, the bare verdict
  `invalid` are let through, and the theorem does not exclude them (`Pop3Certfile.cfg`
  finds one). `CheckedInv` says it of all sessions under way; `ReadyIsChecked` is the lemma
  about `Initialize`, for any combination of what GnuTLS reports.
- `DescriptorSafety`: over plain connections the open descriptors are those of the
  sessions under way, until a STAT has gone unanswered. `OpenInv` also has that
  no two sessions share one, which is why a close never takes
  another's.
- `LoginSafety`: while answers are in time a session is in step with its server.
  `StepInv` gives for each wait what is on the wire, and what the server takes
  the program to have done (`Fine`), through each method of logging in and each
  fall-back; a session with an answer that was late is excused, since what it
  reads is then another command's.
- `CountSafety`: the counters are those of the last check's session, or -1 after
  one that failed. `CountInv` is excused between STAT and the end of a check;
  what makes it inductive is that only the outermost session is a check
  (`StepInv`), so no popup inside it counts.
- `ListSafety`: the list that is built has the unread messages so far, newest
  first, none twice. `OrderInv` ties the length of the list to the
  number of the message that is asked for.

**`ShellProofs`**, for any number of children, any outputs and any length of subjects:

- `HandlerSafety`, `CommandSafety`, `ZombieSafety`: `HandlerComesBack`,
  `CommandIsOurs` and `OnlyMissedLinger` hold however commands, failures of
  `popen`, notifications and restarts follow each other. The first is
  inductive with the facts that a process just started has no handler, and that
  a command is read exactly at `read` and `close`; the second needs the first
  (the handler could reap the command only while it is installed), and the third
  that, while the action is the default one, *every* zombie is in `missed`.
  `ChildrenInv` is their conjunction and `ChildrenAlways` the theorem about it;
  all of the mailbox's own state is framed away by one lemma per action.

- `RowSafety`: the row of an idle shell mailbox tells of the number its command
  printed last: the number itself if its line has "new", or in classic mode, and 0
  otherwise (`ShellNumber.cfg`); or that it printed none. `RowInv`: the old counters are what the row
  shows, or -1, which a number never equals; so a verdict of "nothing
  changed" is given only to a row that is right already.

- `HeadersSafety`: the popup shows every short line of the output behind the
  first, the last one first. `HeadersInv`: the list is made anew by each check and left
  alone while a path is expanded. What one output makes of the static buffer is
  the work: the fold over its characters is taken apart into one run per line
  (`TakeFold`, `LineTaken`), a line that fits adds one subject and the rest of the
  characters none that is lost (`CharactersTaken`), and what an earlier, longer
  output left behind only adds in front of what the new one gave (`MoreTaken`).

And about `Mbox`, for any kinds and numbers of messages and any seconds:

- `TimesSafety`: a check leaves the times of a file nobody else touches as it found
  them. `TimesInv`: between `stat` and `utime` the access time to put back is
  the one that was there, unless the recount is blind ([below](#divergences)).
- `CountsSafety`: an undisturbed check leaves the true counts of a file it may
  read, and -1 or the counts of the same file of one it may not; but one unread
  message too many if the message clients keep for themselves is unread and another
  was read (`Miscounted`, `MboxOwn.cfg`). `CountIsTrue`
  is the half about data: the fold of `countMessages` over the lines of a file gives
  the number of its genuine messages, and of the unread ones with that error. It
  rests on there being one such message at most, and in front. `ClockInv`, `CountInv`
  and `QuietInv` are the half about time: no time is ahead of the clock, and while
  the time of the file is the one it was counted at, the file has only
  grown. So if also the size is the one that was saved, the counts are true,
  whatever others did in the second of the `stat`.

The library's induction theorems cannot be used (they take an operator), so
where a fold over a sequence has to be known for every sequence, the proofs go by
a least counterexample: a fold over a set of places equals a table of values that
exists (`TableExists`), which makes it a run of states, one for each place; and
the set of places where a run is not what it should be, if it had a member, would
have a first (`FirstIn`).

Each safety property of the passing runs is stated by a theorem. Only model-checked
are the liveness properties (`Rechecked`, `BlinkingEnds`,
`LookupReturns`, `ReturnsOnLongLines`), which are out of the prover's reach; and
the types of `Pop3`, whose bound on numbers depends on what an uninitialized
`int` may hold, and of `Mbox`, `Shell` and `Config`, of which the invariants above contain
what the proofs need.

## Divergences

Shown by a run, or by one of the [configurations beside the runs](#runs):

- `passwordMgr.c:283`: a flushed binding is linked in front of the list again.
- `Imap4Client.c:337`: a connection held over a wait may be gone after it.
- `wmbiff.c:872`: the manual says `notify.n` overrides `globalnotify` for mailbox n
  (`wmbiffrc.5.in:100`); the code runs both. `GlobalNotifyOnce` states what the
  code does.
- `Pop3Client.c:429`: a POP3 login asks for the password whatever the cache has,
  which is there so that an account's password is asked for once (`passwordMgr.c:4`).
- `tlsComm.c:457`: with a certfile the manual promises an exit on a failure
  (`wmbiffrc.5.in:33`); an insecure algorithm is only warned of and hides the bits
  tested behind it, and the exit for an invalid X.509 certificate is commented out.
- `tlsComm.c:500`: without a certfile the manual says that all certificates are
  trusted (`wmbiffrc.5.in:35`); the tests are the same, but for the comparison.
- `mboxClient.c:92`: the message clients keep for themselves is taken off the read
  messages though it may not be read.
- `wmbiff.c:708`: a shell command's number without "new" is shown as 0, though the manual
  speaks of a count that is yellow if new (`wmbiffrc.5.in:207`).
- `wmbiff.c:257`: the name of a per-mailbox askpass keeps its dot, so that
  `askpass.3` (`wmbiffrc.5.in:91`) sets nothing and `askpass3` does; a later
  `askpass` for all mailboxes overrides it. `interval3` sets the interval of all.
- `wmbiff.c:511`: labels are cut "after 5 characters", at the seventh.

Shown by TLC with another constant in a configuration:

- `wmbiff.c:749`: one bit of an `int` per mailbox, for up to 40 mailboxes. Shifting by 32 or
  more is undefined in C; on x86 it wraps and two mailboxes share a bit, on ARM
  it yields nothing and a mailbox has none (`ShiftWraps` chooses). `Poller`
  with `IntBits = 2`, of either kind, violates `NoRowLeftDark`.
- `maildirClient.c:124`: `utime` puts back the modification time too. `Maildir`
  with `Setups <- DuringCheck` violates `ChecksTellTheTruth`: mail delivered
  during a check is never counted.
- `tlsComm.c:225`: the wait is skipped while a short line is in the buffer.
  `TlsComm` with lines `WholeButShort` violates `Returns`: a call reads without
  waiting first.
- `Imap4Client.c:447`: `in_use` stays behind in the old head of a list that
  grows. `MsgList` with presses `AtAnyTime` violates `ShownIsLive`: a press
  during a fetch shows a list the next fetch frees.

Read in the code, without a run of their own:

- `wmbiff.c:796`: a shell command that prints another text with the same counts
  is not redrawn. `RowCurrent` is proved for mailboxes without a text.
- `wmbiff.c:788`: the first check after a failed one announces unread mail that
  was announced before.
- `wmbiff.c:855`: the manual offers a `fetchinterval` of -1, "autofetching on
  new mail arrival" (`wmbiffrc.5.in:240`); the code never fetches then.
- `Imap4Client.c:614`: a login with a password that looks empty disables the
  mailbox and goes on trying until the server ends it.
- `Imap4Client.c:406`, `:412`, `:448`: the message allocated for a FETCH that is not
  answered is neither put into the list nor freed. `NothingLost` makes an exception
  for it.
- `MessageList.c:171`: the list of a POP3 mailbox is not released, since `pop3Create`
  installs no `releaseHeaders`.
- `Pop3Client.c:187`: once it has a list a POP3 mailbox never fetches headers
  again.
- `MessageList.c:144`: a second press before the release of the first opens a
  second window; the first is not closed.
- `tlsComm.c:135`: the X connection is left out of the `select`, so events are
  served at the start of a wait, not during it.
- `ShellClient.c:111`: `allbuf` is static and not ended behind what `fread`
  read; a shorter output is followed by the rest of a longer one, of any shell
  mailbox. `HeadersAreLines` speaks of the output's own lines.
- `ShellClient.c:238`: a last line without its newline (4095 characters are
  the most that is read) is read past its end.
- `ShellClient.c:250`: `shell_releaseHeaders` is installed nowhere, so a shell
  mailbox's lists are not freed.
- `wmbiff.c:1001`: `execvp` keeps the blocked signals, and SIGUSR1 is blocked in
  its own handler: a restart by signal (`wmbiff.1:37`) works once.
- `wmbiff.c:216`: the prefix `SSLimap:` is an IMAP mailbox, accepted by its regular
  expression, but compared with `sslimap` in small letters where TLS is decided:
  it is read in the clear.
- `wmbiff.c:247`: a read error of the configuration file is not its end; the
  loop spins.
- `wmbiff.c:1461`: the name of the skin is freed, though in classic mode it may be
  the literal put in its place at line 401.
- `Pop3Client.c:148`: a STAT that is not answered returns without closing;
  `tlsComm.c:94` closes the descriptor of plain connections only.
- `Pop3Client.c:168`: an answer that comes late is read as the answer to the
  next command.
- `tlsComm.c:607`: the certificate is looked at before the outcome of the
  handshake is.
- `mboxClient.c:132`: a recount of an unchanged file, after a failure, puts
  back an access time that was never read. `mboxClient.c:111`: a removed file keeps
  its counts.
- `maildirClient.c:99`: times are whole seconds; a change in the second of the
  last stat, with the size unchanged, looks like none.
- `wmbiff.c:1042`: a press outside every region indexes the array with -1.
- A call served inside a wait of a call on the same connection may consume the
  answer the outer one waits for; the outer one then times out. `TlsComm` has this
  behaviour: its properties are about bytes, not about whose answer it is.

## What is not modelled

- Encryption, the handshake and the verification of certificates: calls into
  GnuTLS, whose outcomes `TlsSession` takes from the environment. Decrypted
  bytes the library holds back are not modelled, so a wait that times out
  although the library has the answer (`tlsComm.c:235`) is not seen.
  `gnutls-common.c` prints the state of a session.
- `socket.c`: one sequence of system calls; its outcomes (connected, refused,
  timed out) are actions of `Imap`, `Pop3` and `Poller`.
- The loop of an IMAP login ends when the server ends it (`Imap4Client.c:597`);
  no liveness is claimed of it.
- The text of anything: rows are values, headers addresses or numbers, passwords
  kinds. The regular expressions of `regulo.c` and of the creators are the
  constant operators of `Config`.
- Drawing, fonts, colours, keys, the command line: no state the program acts on.
- STARTTLS and the CRAM-MD5 and APOP arithmetic; the permission check on the askpass
  program, and the Apple keychain.

## Plan

Done, in this order: the loop and its proofs; the password cache with its
refinement; the maildir check; the connection cache; the lines; the header
lists and their proofs; POP3 sessions with their TLS; the mbox check; children
and their proofs, and the shell client; the configuration; the proofs about
configuration, mbox and the shell client's header lines. Left, most important
first:

1. *Composition*: `Imap` over an abstract `TlsComm`, to say whose answer a call
   gets when calls share a connection.
2. *X events*: the keys and the mouse regions.
