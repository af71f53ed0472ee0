-------------------------------- MODULE Pop3 --------------------------------
(***************************************************************************)
(* Pop3Client.c: a check, or a popup that fetches headers, is a session of   *)
(* its own: connect, log in by the first method that works, ask, close.     *)
(*                                                                         *)
(* The program sends a command and waits for one line.  A wait that times   *)
(* out (EXPECT_TIMEOUT) is treated as an answer, and the line that comes    *)
(* late is read as the answer to a later command.  Waits serve presses, so  *)
(* a popup's session may run inside a check's: they share no connection,    *)
(* but the counters and the list of headers of the mailbox.                 *)
(*                                                                         *)
(* An action is the code from one wait to the next.  Challenges and         *)
(* passwords are left out; a message's headers are its number.              *)
(***************************************************************************)
EXTENDS Integers, Sequences, FiniteSets, TlsSession

CONSTANTS
    Setups,     \* the configurations and servers: see Setup
    Fds,        \* BOUND: the descriptors the process may have
    MaxMail,    \* BOUND: messages a server holds
    Garbage     \* what an uninitialized int may hold

Methods == <<"cram-md5", "apop", "plaintext">>

\* The mailbox: dossl, opt (see TlsSession), authList, interactive.
\* The machine: gcry, whether libgcrypt hands out a digest.
\* The server: tls, cram, apop, last (which commands it knows), asks (it says
\* that a password is required).
\* late: its answers may come late.
\* apart: the user presses in checks only, or at any time.  depth, a BOUND: how
\* deep calls nest.
Setup == [dossl : BOOLEAN, opt : Options, authList : SUBSET {"cram-md5", "apop", "plaintext"},
          interactive : BOOLEAN, gcry : BOOLEAN, tls : SUBSET Server,
          cram : BOOLEAN, apop : BOOLEAN, last : BOOLEAN, asks : BOOLEAN,
          late : BOOLEAN, apart : BOOLEAN, depth : Nat \ {0}]

ASSUME Pop3Assumption ==
    /\ Setups \subseteq Setup
    /\ 0 \notin Fds
    /\ MaxMail \in Nat
    /\ Garbage \subseteq Int

VARIABLES
    setup,          \* never changes
    total, unread,  \* TotalMsgs and UnreadMsgs
    cache,          \* headerCache, its head first; empty for NULL
    fds,            \* the descriptors that are open
    stack,          \* the sessions under way, innermost last
    ended,          \* the program has ended over a certificate
    lastCheck,      \* HISTORY: how the last check ended
    unanswered      \* HISTORY: some STAT was never answered

vars == <<setup, total, unread, cache, fds, stack, ended, lastCheck, unanswered>>
mailbox == <<total, unread, cache>>
history == <<lastCheck, unanswered>>

\* Lines: what the program tells apart.  Nothing is the buffer after a wait
\* that timed out.
Nothing == <<>>
Ok == <<"+OK">>
OkNumber(n) == <<"+OK", n>>
Greeting == <<"+OK <challenge>">>
Challenge == <<"+ ">>
Err == <<"-ERR">>
Required == <<"-ERR [AUTH] Password required">>
Header(i) == <<"header", i>>
Dot == <<".">>
Plus(line) == line # Nothing /\ line[1] \in {"+OK", "+OK <challenge>", "+ "}
IsOk(line) == line # Nothing /\ line[1] \in {"+OK", "+OK <challenge>"}

Top == stack[Len(stack)]
Below == SubSeq(stack, 1, Len(stack) - 1)
At(where) == stack # <<>> /\ Top.at = where /\ ~ended
Goto(f) == stack' = Append(Below, f)

Init ==
    /\ setup \in Setups
    /\ total = 0 /\ unread = 0
    /\ cache = <<>>
    /\ fds = {}
    /\ stack = <<>>
    /\ ended = FALSE
    /\ lastCheck = [how |-> "none", late |-> FALSE, mail |-> 0, unread |-> 0]
    /\ unanswered = FALSE

-----------------------------------------------------------------------------
(* The server.  A session sees the mail that was there when it began.       *)

Reply(stage, lines) == [stage |-> stage, lines |-> lines]
Accepts(stage) == Reply(stage, <<Ok>>)
Refuses == Reply("auth", <<Err>>)

\* Its replies to command c in session f.  After a challenge, whatever comes
\* is taken for the response to it.
Serve(f, c) ==
    IF f.stage = "in"
    THEN { Reply("in", CASE c = "STAT" -> <<OkNumber(f.mail)>>
                         [] c = "LAST" /\ setup.last -> <<OkNumber(f.seen)>>
                         [] c = "TOP" /\ f.i \in 1 .. f.mail -> <<Header(f.i), Dot>>
                         [] OTHER -> <<Err>>) }
    ELSE IF f.stage = "challenged"
    THEN {Refuses} \union {r \in {Accepts("in")} : c = "response"}
    ELSE CASE c = "AUTH" -> {IF setup.cram THEN Reply("challenged", <<Challenge>>) ELSE Refuses}
           [] c = "APOP" -> {Accepts("in"), Refuses}
           [] c = "USER" -> {Accepts("named"), Refuses}
           [] c = "PASS" /\ f.stage = "named" ->
                 {Accepts("in"), Refuses}
                 \union {r \in {Reply("named", <<Required>>)} : setup.asks}
           [] OTHER -> {Reply(f.stage, <<Err>>)}

\* The session after command c was sent, waiting at the given place.
Ask(f, c, at) == { [f EXCEPT !.at = at, !.stage = r.stage, !.wire = @ \o r.lines] :
                        r \in Serve(f, c) }

\* What a wait may bring: the next line, or nothing, if none is to come or it
\* comes late.
Reads ==
    {[line |-> Head(w), frame |-> [Top EXCEPT !.wire = Tail(w)]] : w \in {Top.wire} \ {<<>>}}
    \union {[line |-> Nothing, frame |-> [Top EXCEPT !.late = @ \/ w # <<>>]] :
                w \in {v \in {Top.wire} : v = <<>> \/ setup.late}}

-----------------------------------------------------------------------------
\* The session ends without an answer for its caller; a check then forgets
\* the counts (count_mail).
Fail ==
    /\ stack' = Below
    /\ IF Top.goal = "check"
       THEN /\ total' = -1 /\ unread' = -1
            /\ lastCheck' = [lastCheck EXCEPT !.how = "failed"]
       ELSE UNCHANGED <<total, unread, lastCheck>>
    /\ UNCHANGED cache

CloseNever(f) == fds' = fds                                        \* mutant
\* tlscomm_close: a descriptor that TLS was spoken on is not closed.
Close(f) == fds' = IF setup.dossl THEN fds ELSE fds \ {f.fd}

Start(goal) ==
    Append(stack, [goal |-> goal, at |-> "connect", fd |-> 0, server |-> {}, stage |-> "auth",
                   mail |-> 0, seen |-> 0, wire |-> <<>>, late |-> FALSE,
                   apop |-> FALSE, i |-> 0, item |-> 0])

\* The loop checks the mailbox.
Check ==
    /\ ~ended
    /\ stack = <<>>
    /\ stack' = Start("check")
    /\ UNCHANGED <<setup, mailbox, fds, ended, history>>

\* A press, at any wait: pop_getHeaders fetches if it has no list.
Popup ==
    /\ ~ended
    /\ stack # <<>> => Top.at # "connect"
    /\ Len(stack) < setup.depth
    /\ setup.apart => \A k \in DOMAIN stack : stack[k].goal = "check"
    /\ cache = <<>>
    /\ stack' = Start("headers")
    /\ UNCHANGED <<setup, mailbox, fds, ended, history>>

\* sock_connect: no descriptor, or no connection.
NoConnection ==
    /\ At("connect")
    /\ Fail
    /\ UNCHANGED <<setup, fds, ended, unanswered>>

\* The server greets, and says if it knows APOP.
Greeted(fd, server, mail, seen) ==
    [Top EXCEPT !.at = "greeting", !.fd = fd, !.server = server, !.mail = mail, !.seen = seen,
                !.wire = <<IF setup.apop THEN Greeting ELSE Ok>>]
Greets(fd, server) ==
    \E mail \in 0 .. MaxMail : \E seen \in 0 .. mail : Goto(Greeted(fd, server, mail, seen))

Connect ==
    /\ At("connect")
    /\ ~setup.dossl
    /\ \E fd \in Fds \ fds :
          /\ fds' = fds \union {fd}
          /\ Greets(fd, {})
    /\ UNCHANGED <<setup, mailbox, ended, history>>

\* The same with TLS, which may end the program.  The descriptor of a
\* handshake that failed is not closed.
ConnectTls ==
    /\ At("connect")
    /\ setup.dossl
    /\ \E fd \in Fds \ fds, s \in setup.tls :
          /\ fds' = fds \union {fd}
          /\ CASE Initialize(s, setup.opt) = "ready" ->
                     /\ Greets(fd, {s})
                     /\ UNCHANGED <<mailbox, ended, lastCheck>>
               [] Initialize(s, setup.opt) = "failed" -> Fail /\ UNCHANGED ended
               [] OTHER -> ended' = TRUE /\ UNCHANGED <<mailbox, stack, lastCheck>>
    /\ UNCHANGED <<setup, unanswered>>

\* The methods that come after the kth: those the user allows and, for APOP,
\* for which there are a challenge and a digest.
After(k, f) ==
    {m \in k + 1 .. 3 : /\ setup.authList = {} \/ Methods[m] \in setup.authList
                        /\ Methods[m] = "apop" => f.apop /\ setup.gcry}

\* Method k did not work, or k is 0: try the next one, or QUIT.
TryAfter(k, f) ==
    LET left == After(k, f)
    IN IF left = {} THEN Close(f) /\ Fail
       ELSE LET m == CHOOSE m \in left : \A n \in left : m <= n
            IN /\ \E g \in CASE m = 1 -> Ask(f, "AUTH", "auth")
                             [] m = 2 -> Ask(f, "APOP", "apop")
                             [] m = 3 -> Ask(f, "USER", "user") : Goto(g)
               /\ UNCHANGED <<mailbox, fds, lastCheck>>

\* TOP i, or QUIT after the last message.
Fetch(f, i) ==
    IF i <= total
    THEN /\ \E g \in Ask([f EXCEPT !.i = i, !.item = 0], "TOP", "top") : Goto(g)
         /\ UNCHANGED fds
    ELSE /\ Close(f)
         /\ stack' = Below

FirstTooEarly == total - unread                                    \* mutant
\* The first message that counts as unread.
First == total - unread + 1

\* pop3Login returns the session f: a check sends STAT, a popup starts a list.
LoggedIn(f) ==
    /\ IF f.goal = "check"
       THEN /\ \E g \in Ask(f, "STAT", "stat") : Goto(g)
            /\ UNCHANGED <<fds, cache>>
       ELSE Fetch(f, First) /\ cache' = <<>>
    /\ UNCHANGED <<total, unread, lastCheck>>

GreetingUnread ==                                                  \* mutant
    /\ At("greeting")
    /\ TryAfter(0, [Top EXCEPT !.apop = setup.apop])
    /\ UNCHANGED <<setup, ended, unanswered>>
\* The greeting, whatever it says, and the challenge in it.
ReadGreeting ==
    /\ At("greeting")
    /\ \E r \in Reads : TryAfter(0, [r.frame EXCEPT !.apop = r.line = Greeting])
    /\ UNCHANGED <<setup, ended, unanswered>>

\* authenticate_md5: the answers to AUTH and to the response.
ReadAuth ==
    /\ At("auth")
    /\ \E r \in Reads :
          IF r.line = Challenge /\ setup.gcry
          THEN /\ \E f \in Ask(r.frame, "response", "response") : Goto(f)
               /\ UNCHANGED <<mailbox, fds, lastCheck>>
          ELSE TryAfter(1, r.frame)
    /\ UNCHANGED <<setup, ended, unanswered>>

ReadResponse ==
    /\ At("response")
    /\ \E r \in Reads : IF IsOk(r.line) THEN LoggedIn(r.frame) ELSE TryAfter(1, r.frame)
    /\ UNCHANGED <<setup, ended, unanswered>>

\* authenticate_apop.
ReadApop ==
    /\ At("apop")
    /\ \E r \in Reads : IF IsOk(r.line) THEN LoggedIn(r.frame) ELSE TryAfter(2, r.frame)
    /\ UNCHANGED <<setup, ended, unanswered>>

\* authenticate_plaintext: USER, then PASS.
ReadUser ==
    /\ At("user")
    /\ \E r \in Reads :
          IF Plus(r.line)
          THEN /\ \E f \in Ask(r.frame, "PASS", "pass") : Goto(f)
               /\ UNCHANGED <<mailbox, fds, lastCheck>>
          ELSE TryAfter(3, r.frame)
    /\ UNCHANGED <<setup, ended, unanswered>>

ReadPassTrusting ==                                                \* mutant
    /\ At("pass")
    /\ \E r \in Reads : LoggedIn(r.frame)
    /\ UNCHANGED <<setup, ended, unanswered>>
\* If a password is required the user is asked for it, once.
ReadPass ==
    /\ At("pass")
    /\ \E r \in Reads :
          IF r.line = Required /\ setup.interactive
          THEN /\ \E f \in Ask(r.frame, "PASS", "pass again") : Goto(f)
               /\ UNCHANGED <<mailbox, fds, lastCheck>>
          ELSE IF Plus(r.line) THEN LoggedIn(r.frame) ELSE TryAfter(3, r.frame)
    /\ UNCHANGED <<setup, ended, unanswered>>

ReadPassAgain ==
    /\ At("pass again")
    /\ \E r \in Reads : IF Plus(r.line) THEN LoggedIn(r.frame) ELSE TryAfter(3, r.frame)
    /\ UNCHANGED <<setup, ended, unanswered>>

\* tlscomm_expect skips lines that do not begin with +.  A STAT that is not
\* answered leaves the connection open.
ReadStat ==
    /\ At("stat")
    /\ \E r \in Reads :
          IF r.line = Nothing THEN /\ Fail
                                   /\ unanswered' = TRUE
          ELSE /\ IF Plus(r.line)
                  THEN /\ total' = IF Len(r.line) = 2 THEN r.line[2] ELSE total
                       /\ \E f \in Ask(r.frame, "LAST", "last") : Goto(f)
                  ELSE Goto(r.frame) /\ total' = total
               /\ UNCHANGED <<unread, cache, lastCheck, unanswered>>
    /\ UNCHANGED <<setup, fds, ended>>

\* A line that begins with +, without a number, leaves the number as it was.
Numbers(line) == IF Len(line) = 2 THEN {line[2]} ELSE Garbage

ReadLastUnchecked ==                                               \* mutant
    /\ At("last")
    /\ \E r \in Reads : \E n \in Numbers(r.line) :
          /\ unread' = total - n
          /\ Close(r.frame)
          /\ lastCheck' = [how |-> "done", late |-> r.frame.late, mail |-> Top.mail,
                           unread |-> Top.mail - IF setup.last THEN Top.seen ELSE 0]
    /\ stack' = Below
    /\ UNCHANGED <<setup, total, cache, ended, unanswered>>
ReadLast ==
    /\ At("last")
    /\ \E r \in Reads : \E n \in IF Plus(r.line) THEN Numbers(r.line) ELSE {0} :
          /\ unread' = total - n
          /\ Close(r.frame)
          /\ lastCheck' = [how |-> "done", late |-> r.frame.late, mail |-> Top.mail,
                           unread |-> Top.mail - IF setup.last THEN Top.seen ELSE 0]
    /\ stack' = Below
    /\ UNCHANGED <<setup, total, cache, ended, unanswered>>

\* A line of the headers; after the dot, or a wait in vain, the message is put
\* in front of the list.
ReadTop ==
    /\ At("top")
    /\ \E r \in Reads :
          IF r.line \in {Nothing, Dot}
          THEN /\ cache' = <<Top.item>> \o cache
               /\ Fetch(r.frame, Top.i + 1)
          ELSE /\ Goto([r.frame EXCEPT !.item = IF r.line[1] = "header" THEN r.line[2] ELSE @])
               /\ UNCHANGED <<fds, cache>>
    /\ UNCHANGED <<setup, total, unread, ended, history>>

Next ==
    \/ Check \/ Popup \/ NoConnection \/ Connect \/ ConnectTls
    \/ ReadGreeting \/ ReadAuth \/ ReadResponse \/ ReadApop
    \/ ReadUser \/ ReadPass \/ ReadPassAgain
    \/ ReadStat \/ ReadLast \/ ReadTop

Spec == Init /\ [][Next]_vars
-----------------------------------------------------------------------------
Waits == {"greeting", "auth", "response", "apop", "user", "pass", "pass again",
          "stat", "last", "top"}
UnreadNumbers == total - unread + 1 .. total
Sessions == {stack[k] : k \in DOMAIN stack}

\* TYPES, and the bounds of what is shown: never more unread mail than a
\* number that was not read can make it.
TypeOK ==
    /\ setup \in Setups
    /\ total \in -1 .. MaxMail
    /\ unread \in -1 - MaxMail .. MaxMail + 1
    /\ fds \subseteq Fds
    /\ ended \in BOOLEAN
    /\ cache \in Seq(0 .. MaxMail)
    /\ \A f \in Sessions : /\ f.goal \in {"check", "headers"}
                           /\ f.at \in Waits \union {"connect"}
                           /\ f.at # "connect" => f.fd \in fds

\* A session over a plain connection closes it whichever way it ends, unless
\* its STAT was not answered; and no descriptor is closed that another session
\* uses.
NothingLost ==
    /\ setup.dossl \/ unanswered \/ fds = {f.fd : f \in Sessions} \ {0}
    /\ \A k, l \in DOMAIN stack : stack[k].fd = stack[l].fd /\ stack[k].fd # 0 => k = l

\* While answers are in time program and server are in step.  An answer is on
\* its way to every wait (one that waits in vain stops everything for 40
\* seconds), unless a popup asks for messages the server does not have, because
\* the counts are older than the session or half replaced; and mail is only
\* asked for when the server has accepted the login, by whichever method.
InStep ==
    \A f \in Sessions : ~f.late =>
        /\ f.at \in Waits /\ (f.at = "top" => UnreadNumbers \subseteq 1 .. f.mail)
              => f.wire # <<>>
        /\ f.at \in {"stat", "last", "top"} => f.stage = "in"

\* After a check whose answers were in time the counters are those of that
\* session, whatever popups ran inside it; after a failed check they are
\* forgotten.
CountsAreTheServers ==
    (\A f \in Sessions : f.at # "last") =>
        CASE lastCheck.how = "done" ->
                \/ lastCheck.late
                \/ total = lastCheck.mail /\ unread = lastCheck.unread
          [] lastCheck.how = "failed" -> total = -1 /\ unread = -1
          [] OTHER -> TRUE

\* The list a popup builds has the unread messages, newest first and none
\* twice, while answers are in time and nobody presses during a fetch.
HeadersInOrder ==
    \A f \in Sessions :
        /\ f.at = "top" /\ ~f.late /\ setup.apart
        /\ UnreadNumbers \subseteq 1 .. f.mail
        => cache = [j \in 1 .. f.i - (total - unread + 1) |-> f.i - j]

\* A session over TLS begins only after a handshake, with options that GnuTLS
\* takes, and unless the user chose to skip the check only with a certificate
\* that could be verified and read, is not revoked, holds now, names the host and
\* is in the certfile if there is one.  The rest of what verification may have
\* found is let by in these cases and no others: a corrupted certificate when
\* GnuTLS does not define that bit, an insecure algorithm (a warning), and an
\* invalid certificate that is of type X.509 or has an insecure algorithm too.
SessionsAreChecked ==
    \A f \in Sessions : \A s \in f.server :
        /\ s.shook /\ setup.opt.priorities /\ setup.opt.certfile \in {"none", "read"}
        /\ setup.opt.skip
           \/ /\ s.auth /\ s.verified /\ s.init /\ s.import /\ s.timely /\ s.host
              /\ setup.opt.certfile = "read" =>
                    \E k \in DOMAIN setup.opt.file : setup.opt.file[k] = s.id
              /\ s.status \intersect {"revoked", "expired"} = {}
              /\ "corrupted" \in s.status => ~setup.opt.corrupted
              /\ "invalid" \in s.status => s.x509 \/ "insecure" \in s.status

\* What the manual says of certfile: with it, "wmbiff will check certificates
\* and exit on a failure".  (A certificate verification finds fault with, by an
\* insecure algorithm for one, is used.)
ExitsOnFailure ==
    \A f \in Sessions : \A s \in f.server :
        setup.opt.certfile = "read" /\ ~setup.opt.skip => s.status = {}

\* And without it, "wmbiff will trust all certificates".  (One that does not name
\* the host, or whose time is over, ends the program all the same.)
TrustsAll == ended /\ setup.opt.priorities => setup.opt.certfile # "none"
=============================================================================
