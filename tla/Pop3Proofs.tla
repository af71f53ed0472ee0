----------------------------- MODULE Pop3Proofs -----------------------------
(***************************************************************************)
(* Theorems about the sessions of the POP3 client, for any servers, any     *)
(* number of messages and any nesting of popups.                            *)
(***************************************************************************)
EXTENDS Pop3, TLAPS

Stages == {"auth", "challenged", "named", "in"}
Lines == {Ok, Greeting, Challenge, Err, Required, Dot}
         \union {OkNumber(n) : n \in 0 .. MaxMail}
         \union {Header(n) : n \in 1 .. MaxMail}
Waiting == {"greeting", "auth", "response", "apop", "user", "pass", "pass again",
            "stat", "last", "top"}

Frames == [goal : {"check", "headers"}, at : Waiting \union {"connect"},
           fd : Fds \union {0}, server : SUBSET Server, stage : Stages,
           mail : 0 .. MaxMail, seen : 0 .. MaxMail, wire : Seq(Lines), late : BOOLEAN,
           apop : BOOLEAN, i : Int, item : Int]

\* What a session keeps from connect to its end.
Kin(f, g) ==
    /\ g.goal = f.goal /\ g.fd = f.fd /\ g.server = f.server
    /\ g.mail = f.mail /\ g.seen = f.seen

Typed ==
    /\ setup \in Setups
    /\ total \in Int /\ unread \in Int
    /\ fds \subseteq Fds
    /\ stack \in Seq(Frames)

-----------------------------------------------------------------------------
(* The stack of sessions: one begins, goes on, or ends.                     *)

LEMMA TopType ==
    ASSUME Typed, stack # <<>>
    PROVE  /\ Len(stack) \in Nat \ {0} /\ Top \in Frames /\ Top = stack[Len(stack)]
BY DEF Typed, Top

LEMMA BelowFrames ==
    ASSUME NEW F, NEW s \in Seq(F), s # <<>>
    PROVE  LET below == SubSeq(s, 1, Len(s) - 1)
           IN  /\ below \in Seq(F)
               /\ Len(below) = Len(s) - 1
               /\ \A k \in 1 .. Len(s) - 1 : below[k] = s[k]
<1>1. Len(s) \in Nat \ {0} /\ s \in [1 .. Len(s) -> F]
  OBVIOUS
<1>2. Len(s) - 1 \in 0 .. Len(s)
  BY <1>1
<1> DEFINE below == SubSeq(s, 1, Len(s) - 1)
<1>3. below \in Seq(F)
  BY <1>1, <1>2
<1>4. Len(below) = Len(s) - 1
  BY <1>1, <1>2
<1>5. \A k \in 1 .. Len(s) - 1 : below[k] = s[k]
  BY <1>1, <1>2
<1> QED
  BY <1>3, <1>4, <1>5

LEMMA PushFrames ==
    ASSUME Typed, NEW f \in Frames, stack' = Append(stack, f)
    PROVE  /\ stack' \in Seq(Frames)
           /\ Len(stack') = Len(stack) + 1 /\ Len(stack) \in Nat
           /\ \A k \in 1 .. Len(stack) : stack'[k] = stack[k]
           /\ stack'[Len(stack) + 1] = f
BY DEF Typed

LEMMA PopFrames ==
    ASSUME Typed, stack # <<>>, stack' = Below
    PROVE  /\ stack' \in Seq(Frames)
           /\ Len(stack') = Len(stack) - 1
           /\ \A k \in 1 .. Len(stack) - 1 : stack'[k] = stack[k]
BY BelowFrames DEF Typed, Below

LEMMA GotoFrames ==
    ASSUME Typed, stack # <<>>, NEW f \in Frames, Goto(f)
    PROVE  /\ stack' \in Seq(Frames)
           /\ Len(stack') = Len(stack)
           /\ \A k \in 1 .. Len(stack) - 1 : stack'[k] = stack[k]
           /\ stack'[Len(stack)] = f
<1>1. Len(stack) \in Nat \ {0} /\ stack \in Seq(Frames)
  BY TopType DEF Typed
<1>2. Below \in Seq(Frames) /\ Len(Below) = Len(stack) - 1
      /\ \A k \in 1 .. Len(stack) - 1 : Below[k] = stack[k]
  BY <1>1, BelowFrames DEF Below
<1> QED
  BY <1>1, <1>2 DEF Goto

-----------------------------------------------------------------------------
(* A wait, and a command.                                                   *)

\* What a wait brought: the next line, or nothing.
ReadLine(f, r) ==
    /\ f.wire # <<>> /\ r.line = Head(f.wire) /\ r.line \in Lines
    /\ r.frame.wire = Tail(f.wire) /\ r.frame.late = f.late
ReadNothing(f, r) ==
    /\ r.line = Nothing /\ r.frame.wire = f.wire
    /\ r.frame.late = TRUE \/ (f.wire = <<>> /\ r.frame.late = f.late)

LEMMA ReadsType ==
    ASSUME Typed, stack # <<>>, NEW r \in Reads
    PROVE  /\ r.frame \in Frames /\ Kin(Top, r.frame)
           /\ r.frame.at = Top.at /\ r.frame.stage = Top.stage /\ r.frame.apop = Top.apop
           /\ r.frame.i = Top.i /\ r.frame.item = Top.item
           /\ ReadLine(Top, r) \/ ReadNothing(Top, r)
<1>1. Top \in Frames /\ Top.wire \in Seq(Lines) /\ Top.late \in BOOLEAN
  BY TopType DEF Frames
<1>2. ASSUME Top.wire # <<>>,
             r = [line |-> Head(Top.wire), frame |-> [Top EXCEPT !.wire = Tail(Top.wire)]]
      PROVE  /\ r.frame \in Frames /\ Kin(Top, r.frame)
             /\ r.frame.at = Top.at /\ r.frame.stage = Top.stage /\ r.frame.apop = Top.apop
             /\ r.frame.i = Top.i /\ r.frame.item = Top.item
             /\ ReadLine(Top, r)
  <2>1. Head(Top.wire) \in Lines /\ Tail(Top.wire) \in Seq(Lines)
    BY <1>1, <1>2
  <2> QED
    BY <1>1, <1>2, <2>1 DEF Frames, Kin, ReadLine
<1>3. ASSUME NEW b \in BOOLEAN, b = (Top.late \/ Top.wire # <<>>),
             r = [line |-> Nothing, frame |-> [Top EXCEPT !.late = b]]
      PROVE  /\ r.frame \in Frames /\ Kin(Top, r.frame)
             /\ r.frame.at = Top.at /\ r.frame.stage = Top.stage /\ r.frame.apop = Top.apop
             /\ r.frame.i = Top.i /\ r.frame.item = Top.item
             /\ ReadNothing(Top, r)
  <2>1. b = TRUE \/ (Top.wire = <<>> /\ b = Top.late)
    BY <1>1, <1>3
  <2> QED
    BY <1>1, <1>3, <2>1 DEF Frames, Kin, ReadNothing
<1>4. \/ Top.wire # <<>>
         /\ r = [line |-> Head(Top.wire), frame |-> [Top EXCEPT !.wire = Tail(Top.wire)]]
      \/ r = [line |-> Nothing, frame |-> [Top EXCEPT !.late = @ \/ Top.wire # <<>>]]
  BY DEF Reads
<1>5. PICK b \in BOOLEAN : b = (Top.late \/ Top.wire # <<>>)
  OBVIOUS
<1>6. [Top EXCEPT !.late = @ \/ Top.wire # <<>>] = [Top EXCEPT !.late = b]
  BY <1>1, <1>5 DEF Frames
<1> QED
  BY <1>2, <1>3, <1>4, <1>5, <1>6

-----------------------------------------------------------------------------
(* A command: the server's reply comes behind the lines that are still to   *)
(* be read.                                                                 *)

LEMMA ServesMail ==
    ASSUME NEW f, f.stage = "in", NEW c, NEW r \in Serve(f, c)
    PROVE  /\ r.stage = "in"
           /\ c = "STAT" => r.lines = <<OkNumber(f.mail)>>
           /\ c = "LAST" => r.lines = <<OkNumber(f.seen)>> \/ r.lines = <<Err>>
           /\ c = "LAST" => (setup.last <=> r.lines = <<OkNumber(f.seen)>>)
           /\ c = "TOP" => r.lines = IF f.i \in 1 .. f.mail THEN <<Header(f.i), Dot>>
                                                           ELSE <<Err>>
           /\ c \notin {"STAT", "LAST", "TOP"} => r.lines = <<Err>>
<1> DEFINE lines == CASE c = "STAT" -> <<OkNumber(f.mail)>>
                      [] c = "LAST" /\ setup.last -> <<OkNumber(f.seen)>>
                      [] c = "TOP" /\ f.i \in 1 .. f.mail -> <<Header(f.i), Dot>>
                      [] OTHER -> <<Err>>
<1>1. r = Reply("in", lines)
  BY Zenon DEF Serve
<1>2. c = "STAT" => lines = <<OkNumber(f.mail)>>
  OBVIOUS
<1>3. c = "LAST" /\ setup.last => lines = <<OkNumber(f.seen)>>
  BY Zenon
<1>4. c = "LAST" /\ ~setup.last => lines = <<Err>>
  BY Zenon
<1>5. c = "TOP" => lines = IF f.i \in 1 .. f.mail THEN <<Header(f.i), Dot>> ELSE <<Err>>
  BY Zenon
<1>6. c \notin {"STAT", "LAST", "TOP"} => lines = <<Err>>
  BY Zenon
<1>7. <<OkNumber(f.seen)>> # <<Err>>
  BY DEF OkNumber, Err
<1> HIDE DEF lines
<1>8. r.stage = "in" /\ r.lines = lines
  BY <1>1 DEF Reply
<1> QED
  BY <1>2, <1>3, <1>4, <1>5, <1>6, <1>7, <1>8

LEMMA ServesLogin ==
    ASSUME NEW f, f.stage # "in", NEW c, NEW r \in Serve(f, c)
    PROVE  \/ r.stage = "auth" /\ r.lines = <<Err>>
           \/ (/\ r.stage = f.stage /\ r.lines = <<Err>> /\ f.stage # "challenged"
               /\ c \notin {"AUTH", "APOP", "USER"} /\ ~ (f.stage = "named" /\ c = "PASS"))
           \/ (f.stage = "challenged" /\ c = "response" /\ r.stage = "in" /\ r.lines = <<Ok>>)
           \/ (c = "AUTH" /\ r.stage = "challenged" /\ r.lines = <<Challenge>>)
           \/ (c = "APOP" /\ r.stage = "in" /\ r.lines = <<Ok>>)
           \/ (c = "USER" /\ r.stage = "named" /\ r.lines = <<Ok>>)
           \/ (f.stage = "named" /\ c = "PASS" /\ r.stage = "in" /\ r.lines = <<Ok>>)
           \/ (f.stage = "named" /\ c = "PASS" /\ r.stage = "named" /\ r.lines = <<Required>>)
BY DEF Serve, Reply, Refuses, Accepts

LEMMA ServeType ==
    ASSUME NEW f \in Frames, NEW c, NEW r \in Serve(f, c), MaxMail \in Nat
    PROVE  r.stage \in Stages /\ r.lines \in Seq(Lines) /\ r.lines # <<>>
<1>1. /\ \A x \in Lines : <<x>> \in Seq(Lines) /\ <<x>> # <<>>
      /\ \A x, y \in Lines : <<x, y>> \in Seq(Lines) /\ <<x, y>> # <<>>
  OBVIOUS
<1>2. Ok \in Lines /\ Challenge \in Lines /\ Err \in Lines /\ Required \in Lines
      /\ Dot \in Lines
  BY DEF Lines
<1>3. OkNumber(f.mail) \in Lines /\ OkNumber(f.seen) \in Lines
  BY DEF Lines, Frames
<1>4. f.i \in 1 .. f.mail => Header(f.i) \in Lines
  <2>1. f.i \in 1 .. f.mail => f.i \in 1 .. MaxMail
    BY DEF Frames
  <2> QED
    BY <2>1 DEF Lines
<1>5. CASE f.stage = "in"
  <2>1. r.stage = "in"
    BY <1>5, ServesMail
  <2>2. \/ r.lines = <<OkNumber(f.mail)>> \/ r.lines = <<OkNumber(f.seen)>>
        \/ r.lines = <<Err>>
        \/ (f.i \in 1 .. f.mail /\ r.lines = <<Header(f.i), Dot>>)
    BY <1>5, ServesMail
  <2> QED
    BY <2>1, <2>2, <1>1, <1>2, <1>3, <1>4 DEF Stages
<1>6. CASE f.stage # "in"
  <2>1. f.stage \in Stages
    BY DEF Frames
  <2> QED
    BY <1>6, <1>1, <1>2, <2>1, ServesLogin DEF Stages
<1> QED
  BY <1>5, <1>6

\* g is the session f after command c was sent.
Asked(f, c, at, g) ==
    /\ g \in Frames /\ Kin(f, g)
    /\ g.at = at /\ g.late = f.late /\ g.apop = f.apop /\ g.i = f.i /\ g.item = f.item
    /\ \E r \in Serve(f, c) : g.stage = r.stage /\ g.wire = f.wire \o r.lines

LEMMA AskIs ==
    ASSUME NEW f \in Frames, NEW c, NEW at \in Waiting, NEW g \in Ask(f, c, at)
    PROVE  Asked(f, c, at, g)
<1>1. MaxMail \in Nat
  BY Pop3Assumption
<1>2. PICK r \in Serve(f, c) :
          g = [f EXCEPT !.at = at, !.stage = r.stage, !.wire = f.wire \o r.lines]
  BY DEF Ask
<1>3. r.stage \in Stages /\ r.lines \in Seq(Lines)
  BY <1>1, ServeType
<1>4. f.wire \o r.lines \in Seq(Lines)
  BY <1>3 DEF Frames
<1>5. PICK w \in Seq(Lines) : w = f.wire \o r.lines
  BY <1>4
<1>6. g = [f EXCEPT !.at = at, !.stage = r.stage, !.wire = w]
  BY <1>2, <1>5
<1>7. g \in Frames /\ Kin(f, g) /\ g.at = at /\ g.late = f.late /\ g.apop = f.apop
      /\ g.i = f.i /\ g.item = f.item /\ g.stage = r.stage /\ g.wire = w
  BY <1>6, <1>3 DEF Frames, Kin
<1> QED
  BY <1>7, <1>5 DEF Asked

\* What becomes of a session whose login failed: the methods are tried in
\* order, each at most once.
GivesUp(f) == Close(f) /\ Fail
Sends(f, c, at) ==
    /\ \E g \in Frames : Asked(f, c, at, g) /\ Goto(g)
    /\ UNCHANGED fds

LEMMA TryAfterIs ==
    ASSUME NEW f \in Frames, NEW k \in 0 .. 3, TryAfter(k, f)
    PROVE  \/ GivesUp(f)
           \/ /\ \/ k = 0 /\ Sends(f, "AUTH", "auth")
                 \/ k \in {0, 1} /\ Sends(f, "APOP", "apop")
                 \/ k \in {0, 1, 2} /\ Sends(f, "USER", "user")
              /\ UNCHANGED <<mailbox, lastCheck>>

<1>1. CASE After(k, f) = {}
  BY <1>1 DEF TryAfter, GivesUp
<1>2. CASE After(k, f) # {}
  <2> DEFINE m == CHOOSE m \in After(k, f) : \A n \in After(k, f) : m <= n
  <2>1. After(k, f) \subseteq k + 1 .. 3
    BY DEF After
  <2>2. \E i \in After(k, f) : \A n \in After(k, f) : i <= n
    BY <2>1, <1>2
  <2>3. m \in After(k, f)
    BY <2>2
  <2>4. m \in k + 1 .. 3
    BY <2>1, <2>3
  <2>5. PICK g \in CASE m = 1 -> Ask(f, "AUTH", "auth")
                     [] m = 2 -> Ask(f, "APOP", "apop")
                     [] m = 3 -> Ask(f, "USER", "user") : Goto(g)
    BY <1>2 DEF TryAfter
  <2>6. UNCHANGED <<mailbox, fds, lastCheck>>
    BY <1>2 DEF TryAfter
  <2> HIDE DEF m
  <2>7. \/ m = 1 /\ k = 0 /\ g \in Ask(f, "AUTH", "auth")
        \/ m = 2 /\ k \in {0, 1} /\ g \in Ask(f, "APOP", "apop")
        \/ m = 3 /\ k \in {0, 1, 2} /\ g \in Ask(f, "USER", "user")
    BY <2>4, <2>5
  <2>8. \/ k = 0 /\ Asked(f, "AUTH", "auth", g)
        \/ k \in {0, 1} /\ Asked(f, "APOP", "apop", g)
        \/ k \in {0, 1, 2} /\ Asked(f, "USER", "user", g)
    BY <2>7, AskIs DEF Waiting
  <2>9. g \in Frames
    BY <2>8 DEF Asked
  <2> QED
    BY <2>5, <2>6, <2>8, <2>9 DEF Sends
<1> QED
  BY <1>1, <1>2

-----------------------------------------------------------------------------
(* The steps, by what they do to the stack and the descriptors.             *)

Begins ==
    /\ \E f \in Frames : /\ f.at = "connect" /\ f.fd = 0 /\ f.server = {}
                         /\ f.goal = "check" => stack = <<>>
                         /\ stack' = Append(stack, f)
    /\ UNCHANGED <<fds, unanswered>>

\* The server of the session was looked at.
Checked(servers) == \A s \in servers : Initialize(s, setup.opt) = "ready"

Opens ==
    /\ stack # <<>> /\ Top.at = "connect"
    /\ \E g \in Frames : /\ g.at # "connect" /\ g.goal = Top.goal
                         /\ g.fd \in Fds \ fds /\ fds' = fds \union {g.fd}
                         /\ Checked(g.server)
                         /\ Goto(g)
    /\ UNCHANGED unanswered

GoesOn ==
    /\ stack # <<>> /\ Top.at # "connect"
    /\ \E g \in Frames : Kin(Top, g) /\ g.at # "connect" /\ Goto(g)
    /\ UNCHANGED <<fds, unanswered>>

\* The session ends, and what it may leave open.
Leaves ==
    /\ stack # <<>> /\ stack' = Below
    /\ \/ (Close(Top) /\ UNCHANGED unanswered)
       \/ (UNCHANGED <<fds, unanswered>> /\ Top.at = "connect")
       \/ (UNCHANGED fds /\ unanswered' = TRUE)
       \/ (UNCHANGED unanswered /\ setup.dossl /\ Top.at = "connect"
           /\ \E fd \in Fds \ fds : fds' = fds \union {fd})

\* The program ends in the middle of a handshake.
Ends ==
    /\ UNCHANGED <<stack, unanswered>>
    /\ setup.dossl /\ \E fd \in Fds \ fds : fds' = fds \union {fd}

Counted == total' \in Int /\ unread' \in Int

LEMMA CloseKin ==
    ASSUME NEW f, Kin(Top, f), Close(f)
    PROVE  Close(Top)
BY DEF Kin, Close

LEMMA KinKin ==
    ASSUME NEW f, NEW g, NEW h, Kin(f, g), Kin(g, h)
    PROVE  Kin(f, h)
BY DEF Kin

LEMMA SendsGoesOn ==
    ASSUME stack # <<>>, Top.at # "connect", NEW f \in Frames, Kin(Top, f),
           NEW c, NEW at \in Waiting, Sends(f, c, at), UNCHANGED unanswered
    PROVE  GoesOn
<1>1. PICK g \in Frames : Asked(f, c, at, g) /\ Goto(g)
  BY DEF Sends
<1>2. Kin(Top, g) /\ g.at = at
  BY <1>1, KinKin DEF Asked
<1> QED
  BY <1>1, <1>2 DEF GoesOn, Sends, Waiting

LEMMA FailCounts ==
    ASSUME Typed, Fail
    PROVE  Counted /\ stack' = Below
BY DEF Typed, Fail, Counted

LEMMA TryAfterSteps ==
    ASSUME Typed, stack # <<>>, Top.at # "connect", NEW f \in Frames, Kin(Top, f),
           NEW k \in 0 .. 3, TryAfter(k, f), UNCHANGED unanswered
    PROVE  (GoesOn \/ Leaves) /\ Counted
<1>1. CASE GivesUp(f)
  BY <1>1, FailCounts, CloseKin DEF GivesUp, Leaves
<1>2. CASE /\ Sends(f, "AUTH", "auth") \/ Sends(f, "APOP", "apop") \/ Sends(f, "USER", "user")
           /\ UNCHANGED <<mailbox, lastCheck>>
  <2>1. GoesOn
    BY <1>2, SendsGoesOn DEF Waiting
  <2>2. Counted
    BY <1>2 DEF Counted, mailbox, Typed
  <2> QED
    BY <2>1, <2>2
<1> QED
  BY <1>1, <1>2, TryAfterIs

\* A popup asks for the next message, or is done.
LEMMA FetchIs ==
    ASSUME NEW f \in Frames, NEW i \in Int, Fetch(f, i)
    PROVE  \/ (i <= total /\ \E h \in Frames :
                  /\ h = [f EXCEPT !.i = i, !.item = 0]
                  /\ Sends(h, "TOP", "top"))
           \/ (~ (i <= total) /\ Close(f) /\ stack' = Below)
<1>1. CASE i <= total
  <2>1. [f EXCEPT !.i = i, !.item = 0] \in Frames
    <3>1. PICK z \in Int : z = 0
      OBVIOUS
    <3>2. PICK h : h = [f EXCEPT !.i = i, !.item = z]
      OBVIOUS
    <3>3. h \in Frames
      BY <3>2 DEF Frames
    <3> QED
      BY <3>1, <3>2, <3>3
  <2>2. PICK h \in Frames : h = [f EXCEPT !.i = i, !.item = 0]
    BY <2>1
  <2>3. PICK g \in Ask(h, "TOP", "top") : Goto(g)
    BY <1>1, <2>2 DEF Fetch
  <2>4. Asked(h, "TOP", "top", g)
    BY <2>2, <2>3, AskIs DEF Waiting
  <2>5. g \in Frames
    BY <2>4 DEF Asked
  <2>6. UNCHANGED fds
    BY <1>1 DEF Fetch
  <2> QED
    BY <1>1, <2>1, <2>2, <2>3, <2>4, <2>5, <2>6 DEF Sends
<1>2. CASE ~ (i <= total)
  BY <1>2 DEF Fetch
<1> QED
  BY <1>1, <1>2

LEMMA FetchSteps ==
    ASSUME stack # <<>>, Top.at # "connect", NEW f \in Frames, Kin(Top, f),
           NEW i \in Int, Fetch(f, i), UNCHANGED unanswered
    PROVE  GoesOn \/ Leaves
<1>1. CASE Close(f) /\ stack' = Below
  BY <1>1, CloseKin DEF Leaves
<1>2. CASE \E h \in Frames : /\ h = [f EXCEPT !.i = i, !.item = 0]
                             /\ Sends(h, "TOP", "top")
  <2>1. PICK h \in Frames : h = [f EXCEPT !.i = i, !.item = 0] /\ Sends(h, "TOP", "top")
    BY <1>2
  <2>2. Kin(Top, h)
    BY <2>1 DEF Kin, Frames
  <2> QED
    BY <2>1, <2>2, SendsGoesOn DEF Waiting
<1> QED
  BY <1>1, <1>2, FetchIs

LEMMA LoggedInSteps ==
    ASSUME Typed, stack # <<>>, Top.at # "connect", NEW f \in Frames, Kin(Top, f),
           LoggedIn(f), UNCHANGED unanswered
    PROVE  (GoesOn \/ Leaves) /\ Counted
<1>1. Counted
  BY DEF LoggedIn, Counted, Typed
<1>2. CASE f.goal = "check"
  <2>1. PICK g \in Ask(f, "STAT", "stat") : Goto(g)
    BY <1>2 DEF LoggedIn
  <2>2. Asked(f, "STAT", "stat", g)
    BY <2>1, AskIs DEF Waiting
  <2>3. UNCHANGED fds
    BY <1>2 DEF LoggedIn
  <2>4. Sends(f, "STAT", "stat")
    BY <2>1, <2>2, <2>3 DEF Sends, Asked
  <2> QED
    BY <1>1, <2>4, SendsGoesOn DEF Waiting
<1>3. CASE f.goal # "check"
  <2>1. Fetch(f, First)
    BY <1>3 DEF LoggedIn
  <2>2. First \in Int
    BY DEF First, Typed
  <2> QED
    BY <1>1, <2>1, <2>2, FetchSteps
<1> QED
  BY <1>2, <1>3

LEMMA AnswerSends ==
    ASSUME NEW f \in Frames, NEW c, NEW at \in Waiting,
           \E g \in Ask(f, c, at) : Goto(g), UNCHANGED fds
    PROVE  Sends(f, c, at)
<1>1. PICK g \in Ask(f, c, at) : Goto(g)
  OBVIOUS
<1>2. Asked(f, c, at, g)
  BY <1>1, AskIs
<1>3. g \in Frames
  BY <1>2 DEF Asked
<1> QED
  BY <1>1, <1>2, <1>3 DEF Sends

LEMMA StartType ==
    ASSUME NEW goal \in {"check", "headers"}, stack' = Start(goal)
    PROVE  \E f \in Frames :
              /\ f.at = "connect" /\ f.fd = 0 /\ f.server = {} /\ f.goal = goal
              /\ f.stage = "auth"
              /\ stack' = Append(stack, f)
<1> DEFINE f == [goal |-> goal, at |-> "connect", fd |-> 0, server |-> {}, stage |-> "auth",
                 mail |-> 0, seen |-> 0, wire |-> <<>>, late |-> FALSE,
                 apop |-> FALSE, i |-> 0, item |-> 0]
<1>1. f \in Frames
  BY Pop3Assumption DEF Frames, Stages
<1>2. stack' = Append(stack, f)
  BY DEF Start
<1> QED
  BY <1>1, <1>2

LEMMA GreetsIs ==
    ASSUME Typed, stack # <<>>, NEW fd \in Fds, NEW s \in SUBSET Server, Greets(fd, s)
    PROVE  \E g \in Frames :
              /\ g.at = "greeting" /\ g.goal = Top.goal /\ g.fd = fd /\ g.server = s
              /\ g.wire = <<IF setup.apop THEN Greeting ELSE Ok>>
              /\ g.stage = Top.stage /\ g.late = Top.late
              /\ Goto(g)
<1>1. Top \in Frames
  BY TopType
<1>2. PICK mail \in 0 .. MaxMail : \E seen \in 0 .. mail : Goto(Greeted(fd, s, mail, seen))
  BY DEF Greets
<1> PICK seen \in 0 .. mail : Goto(Greeted(fd, s, mail, seen))
  BY <1>2
<1>3. PICK w : w = <<IF setup.apop THEN Greeting ELSE Ok>>
  OBVIOUS
<1>4. w \in Seq(Lines)
  <2>1. (IF setup.apop THEN Greeting ELSE Ok) \in Lines
    BY DEF Lines
  <2> QED
    BY <1>3, <2>1
<1>5. PICK g : g = [Top EXCEPT !.at = "greeting", !.fd = fd, !.server = s, !.mail = mail,
                               !.seen = seen, !.wire = w]
  OBVIOUS
<1>6. /\ g \in Frames
      /\ g.at = "greeting" /\ g.goal = Top.goal /\ g.fd = fd /\ g.server = s /\ g.wire = w
      /\ g.stage = Top.stage /\ g.late = Top.late
  <2>1. seen \in 0 .. MaxMail
    BY Pop3Assumption
  <2> QED
    BY <1>1, <1>4, <1>5, <2>1 DEF Frames, Waiting
<1>7. Goto(g)
  BY <1>2, <1>3, <1>5 DEF Greeted
<1> QED
  BY <1>3, <1>6, <1>7

LEMMA SetupType ==
    ASSUME Typed
    PROVE  setup.tls \in SUBSET Server /\ setup.gcry \in BOOLEAN /\ setup.last \in BOOLEAN
           /\ setup.dossl \in BOOLEAN /\ setup.late \in BOOLEAN /\ setup.apart \in BOOLEAN
           /\ setup.opt \in Options
<1>1. setup \in Setup
  BY Pop3Assumption DEF Typed
<1> QED
  BY <1>1 DEF Setup

LEMMA ConnectSteps ==
    ASSUME Typed, Connect \/ ConnectTls
    PROVE  (Opens \/ Leaves \/ Ends) /\ Counted
<1>1. stack # <<>> /\ Top.at = "connect"
  BY DEF Connect, ConnectTls, At
<1>2. CASE Connect
  <2>1. PICK fd \in Fds \ fds : fds' = fds \union {fd} /\ Greets(fd, {})
    BY <1>2 DEF Connect
  <2>2. {} \in SUBSET Server
    OBVIOUS
  <2>3. PICK f \in Frames :
            /\ f.at = "greeting" /\ f.goal = Top.goal /\ f.fd = fd /\ f.server = {} /\ Goto(f)
    BY <1>1, <2>1, <2>2, GreetsIs
  <2>4. Counted /\ UNCHANGED unanswered
    BY <1>2 DEF Connect, Counted, Typed, mailbox, history
  <2> QED
    BY <1>1, <2>1, <2>3, <2>4 DEF Opens, Checked
<1>3. CASE ConnectTls
  <2>1. PICK fd \in Fds \ fds, s \in setup.tls :
          /\ fds' = fds \union {fd}
          /\ CASE Initialize(s, setup.opt) = "ready" ->
                     /\ Greets(fd, {s})
                     /\ UNCHANGED <<mailbox, ended, lastCheck>>
               [] Initialize(s, setup.opt) = "failed" -> Fail /\ UNCHANGED ended
               [] OTHER -> ended' = TRUE /\ UNCHANGED <<mailbox, stack, lastCheck>>
    BY <1>3 DEF ConnectTls
  <2>2. setup.dossl /\ UNCHANGED unanswered
    BY <1>3 DEF ConnectTls
  <2>3. CASE Initialize(s, setup.opt) = "ready"
    <3>1. Greets(fd, {s}) /\ UNCHANGED <<mailbox, ended, lastCheck>>
      BY <2>1, <2>3, Zenon
    <3>2. {s} \in SUBSET Server
      BY SetupType
    <3>4. PICK f \in Frames :
              /\ f.at = "greeting" /\ f.goal = Top.goal /\ f.fd = fd /\ f.server = {s}
              /\ Goto(f)
      BY <1>1, <3>1, <3>2, GreetsIs
    <3>5. Counted
      BY <3>1 DEF Counted, Typed, mailbox
    <3> QED
      BY <1>1, <2>1, <2>2, <2>3, <3>4, <3>5 DEF Opens, Checked
  <2>4. CASE Initialize(s, setup.opt) = "failed"
    <3>1. Fail
      <4>1. "failed" # "ready"
        OBVIOUS
      <4> QED
        BY <2>1, <2>4, <4>1, Zenon
    <3> QED
      BY <1>1, <2>1, <2>2, <3>1, FailCounts DEF Leaves
  <2>5. CASE Initialize(s, setup.opt) \notin {"ready", "failed"}
    <3>1. UNCHANGED <<mailbox, stack, lastCheck>>
      <4>1. Initialize(s, setup.opt) # "ready" /\ Initialize(s, setup.opt) # "failed"
        BY <2>5
      <4> QED
        BY <2>1, <4>1, Zenon
    <3> QED
      BY <2>1, <2>2, <3>1 DEF Ends, Counted, Typed, mailbox
  <2> QED
    BY <2>3, <2>4, <2>5
<1> QED
  BY <1>2, <1>3

LEMMA GreetingSteps ==
    ASSUME Typed, ReadGreeting
    PROVE  (GoesOn \/ Leaves) /\ Counted
<1>1. stack # <<>> /\ Top.at = "greeting" /\ UNCHANGED unanswered
  BY DEF ReadGreeting, At
<1>2. PICK r \in Reads : TryAfter(0, [r.frame EXCEPT !.apop = r.line = Greeting])
  BY DEF ReadGreeting
<1>3. PICK b \in BOOLEAN : b = (r.line = Greeting)
  OBVIOUS
<1>4. PICK f : f = [r.frame EXCEPT !.apop = b]
  OBVIOUS
<1>5. r.frame \in Frames /\ Kin(Top, r.frame)
  BY <1>1, ReadsType
<1>6. f \in Frames /\ Kin(Top, f)
  BY <1>4, <1>5 DEF Frames, Kin
<1>7. TryAfter(0, f)
  BY <1>2, <1>3, <1>4
<1> QED
  BY <1>1, <1>6, <1>7, TryAfterSteps

LEMMA LoginSteps ==
    ASSUME Typed, ReadAuth \/ ReadResponse \/ ReadApop \/ ReadUser \/ ReadPass \/ ReadPassAgain
    PROVE  (GoesOn \/ Leaves) /\ Counted
<1>1. stack # <<>> /\ Top.at # "connect" /\ UNCHANGED unanswered
  BY DEF ReadAuth, ReadResponse, ReadApop, ReadUser, ReadPass, ReadPassAgain, At
<1>2. PICK r \in Reads :
          \/ \E c : \E at \in Waiting : /\ \E f \in Ask(r.frame, c, at) : Goto(f)
                                        /\ UNCHANGED <<mailbox, fds, lastCheck>>
          \/ LoggedIn(r.frame)
          \/ \E k \in 0 .. 3 : TryAfter(k, r.frame)
  <2>1. /\ "response" \in Waiting /\ "pass" \in Waiting /\ "pass again" \in Waiting
        /\ 1 \in 0 .. 3 /\ 2 \in 0 .. 3 /\ 3 \in 0 .. 3
    BY DEF Waiting
  <2> QED
    BY <2>1 DEF ReadAuth, ReadResponse, ReadApop, ReadUser, ReadPass, ReadPassAgain
<1>3. r.frame \in Frames /\ Kin(Top, r.frame)
  BY <1>1, ReadsType
<1>4. ASSUME NEW c, NEW at \in Waiting, \E f \in Ask(r.frame, c, at) : Goto(f),
             UNCHANGED <<mailbox, fds, lastCheck>>
      PROVE  (GoesOn \/ Leaves) /\ Counted
  <2>1. Sends(r.frame, c, at)
    BY <1>3, <1>4, AnswerSends
  <2>2. Counted
    BY <1>4 DEF Counted, Typed, mailbox
  <2> QED
    BY <1>1, <1>3, <2>1, <2>2, SendsGoesOn
<1> QED
  BY <1>1, <1>2, <1>3, <1>4, LoggedInSteps, TryAfterSteps

\* How the lines begin, and how long they are.
LEMMA LineHeads ==
    /\ Ok[1] = "+OK" /\ Len(Ok) = 1
    /\ Greeting[1] = "+OK <challenge>" /\ Len(Greeting) = 1
    /\ Challenge[1] = "+ " /\ Len(Challenge) = 1
    /\ Err[1] = "-ERR" /\ Len(Err) = 1
    /\ Required[1] = "-ERR [AUTH] Password required" /\ Len(Required) = 1
    /\ Dot[1] = "." /\ Len(Dot) = 1
    /\ \A n : OkNumber(n)[1] = "+OK" /\ OkNumber(n)[2] = n /\ Len(OkNumber(n)) = 2
    /\ \A n : Header(n)[1] = "header" /\ Header(n)[2] = n /\ Len(Header(n)) = 2
BY DEF Ok, Greeting, Challenge, Err, Required, Dot, OkNumber, Header

\* What a line that begins with + may say.
LEMMA PlusIs ==
    ASSUME NEW line \in Lines \union {Nothing}, Plus(line)
    PROVE  \/ line \in {Ok, Greeting, Challenge} /\ Len(line) = 1
           \/ \E n \in 0 .. MaxMail : line = OkNumber(n) /\ Len(line) = 2 /\ line[2] = n
<1>1. line # Nothing /\ line[1] \in {"+OK", "+OK <challenge>", "+ "}
  BY DEF Plus
<1>2. \/ line \in {Ok, Greeting, Challenge}
      \/ \E n \in 0 .. MaxMail : line = OkNumber(n)
  BY <1>1, LineHeads DEF Lines
<1>3. ASSUME NEW n \in 0 .. MaxMail, line = OkNumber(n)
      PROVE  Len(line) = 2 /\ line[2] = n
  BY <1>3, LineHeads
<1>4. line \in {Ok, Greeting, Challenge} => Len(line) = 1
  BY LineHeads
<1> QED
  BY <1>2, <1>3, <1>4

LEMMA HeaderNumber ==
    ASSUME NEW line \in Lines, line[1] = "header"
    PROVE  line[2] \in Int
<1>1. \/ line \in {Ok, Greeting, Challenge, Err, Required, Dot}
      \/ (\E k \in 0 .. MaxMail : line = OkNumber(k))
      \/ (\E k \in 1 .. MaxMail : line = Header(k))
  BY DEF Lines
<1>2. ASSUME NEW k \in 0 .. MaxMail, line = OkNumber(k)
      PROVE  FALSE
  BY <1>2, LineHeads
<1>3. ASSUME NEW k \in 1 .. MaxMail, line = Header(k)
      PROVE  line[2] \in Int
  <2>1. Header(k)[2] = k
    BY LineHeads
  <2>2. k \in Int
    OBVIOUS
  <2> QED
    BY <1>3, <2>1, <2>2
<1> QED
  BY <1>1, <1>2, <1>3, LineHeads

LEMMA LineType ==
    ASSUME Typed, stack # <<>>, NEW r \in Reads
    PROVE  r.line \in Lines \union {Nothing}
BY ReadsType DEF ReadLine, ReadNothing

LEMMA CountSteps ==
    ASSUME Typed, ReadStat \/ ReadLast
    PROVE  (GoesOn \/ Leaves) /\ Counted
<1>1. stack # <<>> /\ Top.at # "connect"
  BY DEF ReadStat, ReadLast, At
<1>2. total \in Int /\ unread \in Int
  BY DEF Typed
<1>3. CASE ReadStat
  <2>1. PICK r \in Reads :
          IF r.line = Nothing THEN /\ Fail
                                   /\ unanswered' = TRUE
          ELSE /\ IF Plus(r.line)
                  THEN /\ total' = IF Len(r.line) = 2 THEN r.line[2] ELSE total
                       /\ \E f \in Ask(r.frame, "LAST", "last") : Goto(f)
                  ELSE Goto(r.frame) /\ total' = total
               /\ UNCHANGED <<unread, cache, lastCheck, unanswered>>
    BY <1>3 DEF ReadStat
  <2>2. UNCHANGED fds
    BY <1>3 DEF ReadStat
  <2>3. r.frame \in Frames /\ Kin(Top, r.frame) /\ r.frame.at = Top.at
    BY <1>1, ReadsType
  <2>4. CASE r.line = Nothing
    BY <1>1, <2>1, <2>2, <2>4, FailCounts DEF Leaves
  <2>5. CASE r.line # Nothing /\ Plus(r.line)
    <3>1. Sends(r.frame, "LAST", "last")
      BY <2>1, <2>2, <2>3, <2>5, AnswerSends DEF Waiting
    <3>2. GoesOn
      BY <1>1, <2>1, <2>3, <2>5, <3>1, SendsGoesOn DEF Waiting
    <3>3. total' \in Int
      BY <1>1, <1>2, <2>1, <2>5, PlusIs, LineType
    <3>4. unread' \in Int
      BY <1>2, <2>1, <2>5
    <3> QED
      BY <3>2, <3>3, <3>4 DEF Counted
  <2>6. CASE r.line # Nothing /\ ~Plus(r.line)
    BY <1>1, <1>2, <2>1, <2>2, <2>3, <2>6 DEF GoesOn, Counted
  <2> QED
    BY <2>4, <2>5, <2>6
<1>4. CASE ReadLast
  <2>1. PICK r \in Reads : \E n \in IF Plus(r.line) THEN Numbers(r.line) ELSE {0} :
            unread' = total - n /\ Close(r.frame)
    BY <1>4 DEF ReadLast
  <2>2. PICK n \in IF Plus(r.line) THEN Numbers(r.line) ELSE {0} :
            unread' = total - n /\ Close(r.frame)
    BY <2>1
  <2>3. n \in Int
    <3>1. CASE Plus(r.line)
      <4>1. n \in Numbers(r.line)
        BY <2>2, <3>1
      <4>2. Len(r.line) = 2 => r.line[2] \in Int
        BY <1>1, <3>1, LineType, PlusIs
      <4> QED
        BY <4>1, <4>2, Pop3Assumption DEF Numbers
    <3>2. CASE ~Plus(r.line)
      BY <2>2, <3>2
    <3> QED
      BY <3>1, <3>2
  <2>4. Kin(Top, r.frame)
    BY <1>1, ReadsType
  <2>5. Close(Top)
    BY <2>2, <2>4, CloseKin
  <2>6. stack' = Below /\ UNCHANGED <<total, unanswered>>
    BY <1>4 DEF ReadLast
  <2>7. unread' = total - n
    BY <2>2
  <2> QED
    BY <1>1, <1>2, <2>3, <2>5, <2>6, <2>7 DEF Leaves, Counted
<1> QED
  BY <1>3, <1>4

LEMMA TopSteps ==
    ASSUME Typed, ReadTop
    PROVE  (GoesOn \/ Leaves) /\ Counted
<1>1. stack # <<>> /\ Top.at = "top" /\ UNCHANGED unanswered
  BY DEF ReadTop, At, history
<1>2. Counted
  BY DEF ReadTop, Counted, Typed
<1>3. PICK r \in Reads :
          IF r.line \in {Nothing, Dot}
          THEN /\ cache' = <<Top.item>> \o cache
               /\ Fetch(r.frame, Top.i + 1)
          ELSE /\ Goto([r.frame EXCEPT !.item = IF r.line[1] = "header" THEN r.line[2] ELSE @])
               /\ UNCHANGED <<fds, cache>>
  BY DEF ReadTop
<1>4. Top \in Frames /\ r.frame \in Frames /\ Kin(Top, r.frame) /\ r.frame.at = Top.at
  BY <1>1, ReadsType, TopType
<1>5. CASE r.line \in {Nothing, Dot}
  <2>1. Top.i + 1 \in Int
    BY <1>4 DEF Frames
  <2> QED
    BY <1>1, <1>2, <1>3, <1>4, <1>5, <2>1, FetchSteps
<1>6. CASE r.line \notin {Nothing, Dot}
  <2>1. PICK n : n = IF r.line[1] = "header" THEN r.line[2] ELSE r.frame.item
    OBVIOUS
  <2>2. PICK g : g = [r.frame EXCEPT !.item = n]
    OBVIOUS
  <2>3. Goto(g) /\ UNCHANGED fds
    BY <1>3, <1>6, <2>1, <2>2
  <2>4. n \in Int
    <3>1. r.frame.item \in Int
      BY <1>4 DEF Frames
    <3>2. r.line \in Lines
      BY <1>1, <1>6, LineType
    <3>3. r.line[1] = "header" => r.line[2] \in Int
      BY <3>2, HeaderNumber
    <3> QED
      BY <2>1, <3>1, <3>3
  <2>5. g \in Frames /\ Kin(Top, g) /\ g.at = Top.at
    BY <1>4, <2>2, <2>4 DEF Frames, Kin
  <2> QED
    BY <1>1, <1>2, <2>3, <2>5 DEF GoesOn
<1> QED
  BY <1>5, <1>6

LEMMA Steps ==
    ASSUME Typed, Next
    PROVE  (Begins \/ Opens \/ GoesOn \/ Leaves \/ Ends) /\ Counted /\ UNCHANGED setup
<1>1. UNCHANGED setup
  BY DEF Next, Check, Popup, NoConnection, Connect, ConnectTls, ReadGreeting, ReadAuth,
     ReadResponse, ReadApop, ReadUser, ReadPass, ReadPassAgain, ReadStat, ReadLast, ReadTop
<1>2. CASE Check
  <2>1. stack = <<>> /\ stack' = Start("check") /\ UNCHANGED <<mailbox, fds, history>>
    BY <1>2 DEF Check
  <2>2. PICK f \in Frames : f.at = "connect" /\ f.fd = 0 /\ f.server = {} /\ f.goal = "check"
                            /\ stack' = Append(stack, f)
    BY <2>1, StartType
  <2> QED
    BY <1>1, <2>1, <2>2 DEF Begins, mailbox, history, Counted, Typed
<1>3. CASE Popup
  <2>1. stack' = Start("headers") /\ UNCHANGED <<mailbox, fds, history>>
    BY <1>3 DEF Popup
  <2>2. PICK f \in Frames : f.at = "connect" /\ f.fd = 0 /\ f.server = {} /\ f.goal = "headers"
                            /\ stack' = Append(stack, f)
    BY <2>1, StartType
  <2> QED
    BY <1>1, <2>1, <2>2 DEF Begins, mailbox, history, Counted, Typed
<1>4. CASE NoConnection
  <2>1. stack # <<>> /\ Top.at = "connect" /\ Fail /\ UNCHANGED <<fds, unanswered>>
    BY <1>4 DEF NoConnection, At
  <2> QED
    BY <1>1, <2>1, FailCounts DEF Leaves
<1> QED
  BY <1>1, <1>2, <1>3, <1>4, ConnectSteps, GreetingSteps, LoginSteps, CountSteps, TopSteps
     DEF Next

LEMMA StackType ==
    ASSUME Typed, Begins \/ Opens \/ GoesOn \/ Leaves \/ Ends
    PROVE  stack' \in Seq(Frames) /\ fds' \subseteq Fds
<1>1. stack \in Seq(Frames) /\ fds \subseteq Fds
  BY DEF Typed
<1>2. CASE Begins
  BY <1>1, <1>2, PushFrames DEF Begins
<1>3. CASE Opens
  <2>1. PICK g \in Frames : g.fd \in Fds \ fds /\ fds' = fds \union {g.fd} /\ Goto(g)
    BY <1>3 DEF Opens
  <2> QED
    BY <1>1, <1>3, <2>1, GotoFrames DEF Opens
<1>4. CASE GoesOn
  <2>1. PICK g \in Frames : Goto(g)
    BY <1>4 DEF GoesOn
  <2> QED
    BY <1>1, <1>4, <2>1, GotoFrames DEF GoesOn
<1>5. CASE Leaves
  BY <1>1, <1>5, PopFrames DEF Leaves, Close
<1>6. CASE Ends
  BY <1>1, <1>6 DEF Ends
<1> QED
  BY <1>2, <1>3, <1>4, <1>5, <1>6

LEMMA TypedInit == Init => Typed
BY DEF Init, Typed

LEMMA TypedNext == Typed /\ [Next]_vars => Typed'
<1> SUFFICES ASSUME Typed, [Next]_vars
             PROVE  Typed'
  OBVIOUS
<1>1. CASE Next
  BY <1>1, Steps, StackType DEF Typed, Counted
<1>2. CASE UNCHANGED vars
  BY <1>2 DEF Typed, vars
<1> QED
  BY <1>1, <1>2

LEMMA TypedAlways == Spec => []Typed
BY TypedInit, TypedNext, PTL DEF Spec

-----------------------------------------------------------------------------
(* Sessions over TLS.                                                       *)

CheckedInv == \A k \in DOMAIN stack : Checked(stack[k].server)

\* What may run a session over TLS; opt is what the user configured.
MayRun(s, opt) ==
    /\ s.shook /\ opt.priorities /\ opt.certfile \in {"none", "read"}
    /\ opt.skip
       \/ /\ s.auth /\ s.verified /\ s.init /\ s.import /\ s.timely /\ s.host
          /\ opt.certfile = "read" => \E k \in DOMAIN opt.file : opt.file[k] = s.id
          /\ s.status \intersect {"revoked", "expired"} = {}
          /\ "corrupted" \in s.status => ~opt.corrupted
          /\ "invalid" \in s.status => s.x509 \/ "insecure" \in s.status

LEMMA ReadyIsChecked ==
    ASSUME NEW s \in Server, NEW opt \in Options, Initialize(s, opt) = "ready"
    PROVE  MayRun(s, opt)
<1>1. ~Unusable(opt) /\ ~Fatal(s, opt) /\ s.shook
  BY DEF Initialize
<1>2. opt.priorities /\ opt.certfile \in {"none", "read"}
  BY <1>1 DEF Unusable, Options
<1>3. CASE opt.skip
  BY <1>1, <1>2, <1>3 DEF MayRun
<1>4. CASE ~opt.skip
  <2>1. Complaints(s, opt) = {}
    BY <1>1, <1>4 DEF Fatal
  <2>2. s.auth /\ s.verified
    BY <2>1, Zenon DEF Complaints
  <2>3. /\ Status(s, opt) = {}
        /\ {c \in {"structure"} : ~s.init} = {}
        /\ {c \in {"data"} : ~s.import} = {}
        /\ {c \in {"time"} : ~s.timely} = {}
        /\ {c \in {"hostname"} : ~s.host} = {}
        /\ {c \in {"certfile"} : opt.certfile # "none" /\ ~InFile(s.id, opt.file)} = {}
    BY <2>1, <2>2, Zenon DEF Complaints
  <2>4. s.init /\ s.import /\ s.timely /\ s.host
    BY <2>3
  <2>5. opt.certfile # "none" => InFile(s.id, opt.file)
    BY <2>3
  <2>6. s.status \intersect FatalFlags(opt) = {}
    BY <2>3 DEF Status
  <2>7. "invalid" \in s.status => s.x509 \/ "insecure" \in s.status
    BY <2>3, <2>6 DEF Status
  <2>8. /\ s.status \intersect {"revoked", "expired"} = {}
        /\ "corrupted" \in s.status => ~opt.corrupted
    BY <2>6 DEF FatalFlags
  <2>9. opt.certfile = "read" => \E k \in DOMAIN opt.file : opt.file[k] = s.id
    BY <2>5 DEF InFile
  <2> QED
    BY <1>1, <1>2, <2>2, <2>4, <2>7, <2>8, <2>9 DEF MayRun
<1> QED
  BY <1>3, <1>4

LEMMA CheckedSafe == Typed /\ CheckedInv => SessionsAreChecked
<1> SUFFICES ASSUME Typed, CheckedInv, NEW k \in DOMAIN stack, NEW s \in stack[k].server
             PROVE  MayRun(s, setup.opt)
  BY DEF SessionsAreChecked, Sessions, MayRun
<1>1. s \in Server
  <2>1. stack[k] \in Frames
    BY DEF Typed
  <2> QED
    BY <2>1 DEF Frames
<1>2. Initialize(s, setup.opt) = "ready"
  BY DEF CheckedInv, Checked
<1> QED
  BY <1>1, <1>2, ReadyIsChecked, SetupType

LEMMA CheckedNext == Typed /\ CheckedInv /\ [Next]_vars => CheckedInv'
<1> SUFFICES ASSUME Typed, CheckedInv, [Next]_vars
             PROVE  CheckedInv'
  OBVIOUS
<1>1. CASE Next
  <2>1. UNCHANGED setup /\ stack \in Seq(Frames) /\ stack' \in Seq(Frames)
    BY <1>1, Steps, TypedNext DEF Typed
  <2>2. \A k \in 1 .. Len(stack) : Checked(stack[k].server)
    BY <2>1 DEF CheckedInv
  <2>3. \A S : Checked(S)' <=> Checked(S)
    BY <2>1 DEF Checked
  <2>4. SUFFICES \A k \in 1 .. Len(stack') : Checked(stack'[k].server)
    BY <2>1, <2>3 DEF CheckedInv
  <2>5. CASE Begins
    <3>1. PICK f \in Frames : f.server = {} /\ stack' = Append(stack, f)
      BY <2>5 DEF Begins
    <3>2. Checked(f.server)
      BY <3>1 DEF Checked
    <3>3. /\ Len(stack') = Len(stack) + 1 /\ Len(stack) \in Nat
          /\ \A k \in 1 .. Len(stack) : stack'[k] = stack[k]
          /\ stack'[Len(stack) + 1] = f
      BY <3>1, PushFrames
    <3> QED
      BY <2>2, <3>2, <3>3
  <2>6. CASE Opens
    <3>1. stack # <<>> /\ \E g \in Frames : Checked(g.server) /\ Goto(g)
      BY <2>6 DEF Opens
    <3>2. PICK g \in Frames : Checked(g.server) /\ Goto(g)
      BY <3>1
    <3> QED
      BY <2>2, <3>1, <3>2, GotoFrames, TopType
  <2>7. CASE GoesOn
    <3>1. stack # <<>> /\ \E g \in Frames : Kin(Top, g) /\ Goto(g)
      BY <2>7 DEF GoesOn
    <3>2. PICK g \in Frames : Kin(Top, g) /\ Goto(g)
      BY <3>1
    <3>3. Len(stack) \in Nat \ {0} /\ Top = stack[Len(stack)]
      BY <3>1, TopType
    <3>4. Checked(g.server)
      BY <2>2, <3>2, <3>3 DEF Kin
    <3> QED
      BY <2>2, <3>1, <3>2, <3>3, <3>4, GotoFrames
  <2>8. CASE Leaves
    BY <2>2, <2>8, PopFrames, TopType DEF Leaves
  <2>9. CASE Ends
    BY <2>2, <2>9 DEF Ends
  <2> QED
    BY <1>1, <2>5, <2>6, <2>7, <2>8, <2>9, Steps
<1>2. CASE UNCHANGED vars
  BY <1>2 DEF CheckedInv, Checked, vars
<1> QED
  BY <1>1, <1>2

\* A session over TLS, with any server and any options, runs only after a
\* handshake.  Unless the user chose to skip the check its certificate could be
\* verified and read, is not revoked or expired, names the host and is in the
\* certfile if there is one.  A corrupted, an insecure or an invalid one gets past
\* initialize_gnutls and tls_check_certificate in the cases the property names.
THEOREM SessionSafety == Spec => []SessionsAreChecked
<1>1. Init => CheckedInv
  BY DEF Init, CheckedInv
<1> QED
  BY <1>1, TypedAlways, CheckedNext, CheckedSafe, PTL DEF Spec

-----------------------------------------------------------------------------
(* Descriptors.                                                             *)

OpenInv ==
    /\ \A k \in DOMAIN stack : /\ stack[k].fd \in fds \union {0}
                               /\ stack[k].at = "connect" => stack[k].fd = 0
    /\ \A k, l \in DOMAIN stack : stack[k].fd = stack[l].fd /\ stack[k].fd # 0 => k = l
    /\ setup.dossl \/ unanswered \/ \A d \in fds : \E k \in DOMAIN stack : stack[k].fd = d

LEMMA OpenSafe == Typed /\ OpenInv => NothingLost
<1> SUFFICES ASSUME Typed, OpenInv
             PROVE  NothingLost
  OBVIOUS
<1>1. 0 \notin fds
  BY Pop3Assumption DEF Typed
<1>2. ASSUME ~setup.dossl, ~unanswered
      PROVE  fds = {f.fd : f \in Sessions} \ {0}
  <2>1. \A d \in fds : \E f \in Sessions : f.fd = d
    BY <1>2 DEF OpenInv, Sessions
  <2>2. \A f \in Sessions : f.fd \in fds \union {0}
    BY DEF OpenInv, Sessions
  <2> QED
    BY <1>1, <2>1, <2>2
<1> QED
  BY <1>2 DEF OpenInv, NothingLost

LEMMA OpenNext == Typed /\ OpenInv /\ [Next]_vars => OpenInv'
<1> SUFFICES ASSUME Typed, OpenInv, [Next]_vars
             PROVE  OpenInv'
  OBVIOUS
<1>1. CASE Next
  <2>1. UNCHANGED setup /\ stack \in Seq(Frames) /\ stack' \in Seq(Frames)
    BY <1>1, Steps, TypedNext DEF Typed
  <2>2. /\ \A k \in 1 .. Len(stack) : /\ stack[k].fd \in fds \union {0}
                                      /\ stack[k].at = "connect" => stack[k].fd = 0
        /\ \A k, l \in 1 .. Len(stack) :
              stack[k].fd = stack[l].fd /\ stack[k].fd # 0 => k = l
        /\ setup.dossl \/ unanswered
           \/ \A d \in fds : \E k \in 1 .. Len(stack) : stack[k].fd = d
    BY <2>1 DEF OpenInv
  <2>3. SUFFICES
        /\ \A k \in 1 .. Len(stack') : /\ stack'[k].fd \in fds' \union {0}
                                       /\ stack'[k].at = "connect" => stack'[k].fd = 0
        /\ \A k, l \in 1 .. Len(stack') :
              stack'[k].fd = stack'[l].fd /\ stack'[k].fd # 0 => k = l
        /\ setup.dossl \/ unanswered'
           \/ \A d \in fds' : \E k \in 1 .. Len(stack') : stack'[k].fd = d
    <3>1. DOMAIN stack' = 1 .. Len(stack')
      BY <2>1
    <3> QED
      BY <2>1, <3>1, Zenon DEF OpenInv
  <2>4. 0 \notin fds /\ fds \subseteq Fds /\ 0 \notin Fds
    BY Pop3Assumption DEF Typed
  <2>5. CASE Begins
    <3>1. PICK f \in Frames : f.fd = 0 /\ stack' = Append(stack, f)
      BY <2>5 DEF Begins
    <3>2. UNCHANGED <<fds, unanswered>>
      BY <2>5 DEF Begins
    <3>3. /\ Len(stack') = Len(stack) + 1 /\ Len(stack) \in Nat
          /\ \A k \in 1 .. Len(stack) : stack'[k] = stack[k]
          /\ stack'[Len(stack) + 1] = f
      BY <3>1, PushFrames
    <3> QED
      BY <2>2, <3>1, <3>2, <3>3
  <2>6. CASE Opens
    <3>1. stack # <<>> /\ Top.at = "connect" /\ UNCHANGED unanswered
      BY <2>6 DEF Opens
    <3>2. PICK g \in Frames : /\ g.at # "connect" /\ g.fd \in Fds \ fds
                              /\ fds' = fds \union {g.fd} /\ Goto(g)
      BY <2>6 DEF Opens
    <3>3. /\ Len(stack') = Len(stack) /\ Len(stack) \in Nat \ {0}
          /\ \A k \in 1 .. Len(stack) - 1 : stack'[k] = stack[k]
          /\ stack'[Len(stack)] = g /\ stack[Len(stack)] = Top
      BY <3>1, <3>2, GotoFrames, TopType
    <3>4. stack[Len(stack)].fd = 0
      BY <2>2, <3>1, <3>3
    <3>5. \A k \in 1 .. Len(stack') : k = Len(stack) \/ (k \in 1 .. Len(stack) - 1)
      BY <3>3
    <3> QED
      BY <2>2, <2>4, <3>1, <3>2, <3>3, <3>4, <3>5
  <2>7. CASE GoesOn
    <3>1. stack # <<>> /\ UNCHANGED <<fds, unanswered>>
      BY <2>7 DEF GoesOn
    <3>2. PICK g \in Frames : Kin(Top, g) /\ g.at # "connect" /\ Goto(g)
      BY <2>7 DEF GoesOn
    <3>3. /\ Len(stack') = Len(stack) /\ Len(stack) \in Nat \ {0}
          /\ \A k \in 1 .. Len(stack) - 1 : stack'[k] = stack[k]
          /\ stack'[Len(stack)] = g /\ stack[Len(stack)] = Top
      BY <3>1, <3>2, GotoFrames, TopType
    <3>4. g.fd = stack[Len(stack)].fd
      BY <3>2, <3>3 DEF Kin
    <3>5. \A k \in 1 .. Len(stack') : stack'[k].fd = stack[k].fd
      BY <3>3, <3>4
    <3>6. \A k \in 1 .. Len(stack') : stack'[k].at = "connect" => stack[k].at = "connect"
      BY <3>2, <3>3
    <3> QED
      BY <2>2, <3>1, <3>3, <3>5, <3>6
  <2>8. CASE Leaves
    <3>1. stack # <<>> /\ stack' = Below
      BY <2>8 DEF Leaves
    <3>2. /\ Len(stack') = Len(stack) - 1 /\ Len(stack) \in Nat \ {0}
          /\ \A k \in 1 .. Len(stack) - 1 : stack'[k] = stack[k]
          /\ stack[Len(stack)] = Top
      BY <3>1, PopFrames, TopType
    <3>3. /\ \A k \in 1 .. Len(stack') : k \in 1 .. Len(stack) /\ k # Len(stack)
                                         /\ stack'[k] = stack[k]
          /\ \A k \in 1 .. Len(stack) : k = Len(stack) \/ k \in 1 .. Len(stack')
      BY <3>2
    <3>4. CASE Close(Top) /\ UNCHANGED unanswered
      <4>1. CASE setup.dossl
        BY <2>2, <3>3, <3>4, <4>1 DEF Close
      <4>2. CASE ~setup.dossl
        <5>1. fds' = fds \ {Top.fd}
          BY <3>4, <4>2 DEF Close
        <5>2. \A k \in 1 .. Len(stack') : stack[k].fd = Top.fd => stack[k].fd = 0
          BY <2>2, <3>2, <3>3
        <5>3. \A k \in 1 .. Len(stack') : stack'[k].fd \in fds' \union {0}
          BY <2>2, <3>3, <5>1, <5>2
        <5>4. ASSUME ~unanswered, NEW d \in fds'
              PROVE  \E k \in 1 .. Len(stack') : stack'[k].fd = d
          <6>1. PICK k \in 1 .. Len(stack) : stack[k].fd = d
            BY <2>2, <4>2, <5>1, <5>4
          <6>2. k # Len(stack)
            BY <3>2, <5>1, <5>4, <6>1
          <6> QED
            BY <3>3, <6>1, <6>2
        <5> QED
          BY <2>2, <3>3, <3>4, <5>3, <5>4
      <4> QED
        BY <4>1, <4>2
    <3>5. CASE UNCHANGED <<fds, unanswered>> /\ Top.at = "connect"
      <4>1. Top.fd = 0
        BY <2>2, <3>2, <3>5
      <4>2. ASSUME NEW d \in fds, \E k \in 1 .. Len(stack) : stack[k].fd = d
            PROVE  \E k \in 1 .. Len(stack') : stack'[k].fd = d
        <5>1. PICK k \in 1 .. Len(stack) : stack[k].fd = d
          BY <4>2
        <5>2. k # Len(stack)
          BY <2>4, <3>2, <4>1, <4>2, <5>1
        <5> QED
          BY <3>3, <5>1, <5>2
      <4> QED
        BY <2>2, <3>3, <3>5, <4>2
    <3>6. CASE UNCHANGED fds /\ unanswered' = TRUE
      BY <2>2, <3>3, <3>6
    <3>7. CASE setup.dossl /\ \E fd \in Fds \ fds : fds' = fds \union {fd}
      BY <2>2, <3>3, <3>7
    <3> QED
      BY <2>8, <3>4, <3>5, <3>6, <3>7 DEF Leaves
  <2>9. CASE Ends
    BY <2>2, <2>9 DEF Ends
  <2> QED
    BY <1>1, <2>5, <2>6, <2>7, <2>8, <2>9, Steps
<1>2. CASE UNCHANGED vars
  BY <1>2 DEF OpenInv, vars
<1> QED
  BY <1>1, <1>2

\* However sessions fail, time out and nest, over a plain connection the open
\* descriptors are those of the sessions under way, until a STAT has gone
\* unanswered; and no two sessions share one, so none is closed under another
\* (tlscomm_close, the early returns of pop3Login and pop3CheckMail).
THEOREM DescriptorSafety == Spec => []NothingLost
<1>1. Init => OpenInv
  BY DEF Init, OpenInv
<1> QED
  BY <1>1, TypedAlways, OpenNext, OpenSafe, PTL DEF Spec

-----------------------------------------------------------------------------
(* Program and server, while answers are in time.                           *)

LEMMA Answers ==
    /\ Plus(Ok) /\ IsOk(Ok) /\ Plus(Challenge) /\ ~IsOk(Challenge)
    /\ ~Plus(Err) /\ ~IsOk(Err) /\ ~Plus(Required)
    /\ \A n : Plus(OkNumber(n)) /\ OkNumber(n) # Nothing
    /\ Challenge # Err /\ Required # Ok /\ Required # Err
    /\ Ok # Nothing /\ Err # Nothing /\ Dot # Nothing /\ Challenge # Nothing
    /\ Err # Dot /\ \A n : Header(n) # Dot /\ Header(n) # Nothing
<1>1. Len(Nothing) = 0
  BY DEF Nothing
<1>2. /\ Ok # Nothing /\ Err # Nothing /\ Dot # Nothing /\ Challenge # Nothing
      /\ Required # Nothing
      /\ \A n : OkNumber(n) # Nothing
      /\ \A n : Header(n) # Nothing
  <2>1. \A n : <<"+OK", n>> # <<>>
    OBVIOUS
  <2>2. \A n : <<"header", n>> # <<>>
    OBVIOUS
  <2>3. \A x : <<x>> # <<>>
    OBVIOUS
  <2> QED
    BY <2>1, <2>2, <2>3, Zenon DEF OkNumber, Header, Nothing, Ok, Err, Dot, Challenge, Required
<1>3. /\ Plus(Ok) /\ IsOk(Ok) /\ Plus(Challenge) /\ ~IsOk(Challenge)
      /\ ~Plus(Err) /\ ~IsOk(Err) /\ ~Plus(Required)
      /\ \A n : Plus(OkNumber(n))
  BY <1>2, LineHeads DEF Plus, IsOk
<1>4. /\ Challenge # Err /\ Required # Ok /\ Required # Err
      /\ Err # Dot /\ \A n : Header(n) # Dot
  BY LineHeads
<1> QED
  BY <1>2, <1>3, <1>4

LoggedOut(f) == f.stage = "auth" /\ f.wire = <<Err>>

\* What is on its way to a wait, and how far the server is.
Protocol(f) ==
    /\ f.at = "connect" => f.stage = "auth"
    /\ f.at = "greeting" => f.stage = "auth" /\ \E x : f.wire = <<x>>
    /\ f.at = "auth" => LoggedOut(f) \/ (f.stage = "challenged" /\ f.wire = <<Challenge>>)
    /\ f.at \in {"response", "apop"} => LoggedOut(f) \/ (f.stage = "in" /\ f.wire = <<Ok>>)
    /\ f.at = "user" => LoggedOut(f) \/ (f.stage = "named" /\ f.wire = <<Ok>>)
    /\ f.at \in {"pass", "pass again"} => \/ LoggedOut(f)
                                          \/ (f.stage = "in" /\ f.wire = <<Ok>>)
                                          \/ (f.stage = "named" /\ f.wire = <<Required>>)
    /\ f.at = "stat" => f.stage = "in" /\ f.wire = <<OkNumber(f.mail)>>
    /\ f.at = "last" => f.stage = "in"
                        /\ f.wire = <<IF setup.last THEN OkNumber(f.seen) ELSE Err>>
    /\ f.at = "top" =>
          /\ f.stage = "in"
          /\ f.i \in 1 .. f.mail => \/ f.wire = <<Header(f.i), Dot>>
                                    \/ (f.wire = <<Dot>> /\ f.item = f.i)
          /\ f.i \notin 1 .. f.mail => f.wire \in {<<>>, <<Err>>}

\* A session, and the counters of the mailbox.
Fine(f) ==
    /\ f.at \in {"stat", "last"} => f.goal = "check"
    /\ f.at = "top" => f.goal = "headers" /\ f.i \in UnreadNumbers
    /\ ~f.late => Protocol(f)
    /\ f.at = "last" /\ ~f.late => total = f.mail

\* The list holds what came before message f.i.
Listed(f) ==
    ~f.late /\ UnreadNumbers \subseteq 1 .. f.mail =>
        cache = [j \in 1 .. f.i - First |-> f.i - j]

\* Only one session is about to count.
StepInv ==
    /\ \A k \in DOMAIN stack : /\ stack[k].goal = "check" => k = 1
                               /\ Fine(stack[k])

\* The steps, by what they do to the session and the counters.
Moves ==
    /\ stack # <<>> /\ Top.at # "last" /\ UNCHANGED lastCheck
    /\ \E g \in Frames :
          /\ Goto(g) /\ g.goal = Top.goal /\ Fine(g)'
          /\ UNCHANGED <<total, unread>> \/ (g.goal = "check" /\ g.at = "last")
          /\ g.goal = "check" => UNCHANGED cache
          /\ g.at = "top" /\ (Top.at = "top" => Listed(Top)) => Listed(g)'

Stops ==
    /\ stack # <<>> /\ stack' = Below
    /\ \/ (UNCHANGED <<total, unread, lastCheck>> /\ Top.at # "last" /\ Top.goal # "check")
       \/ (Top.goal = "check" /\ total' = -1 /\ unread' = -1
           /\ lastCheck' = [lastCheck EXCEPT !.how = "failed"])
       \/ (/\ Top.goal = "check" /\ lastCheck'.how = "done"
           /\ ~lastCheck'.late => total' = lastCheck'.mail /\ unread' = lastCheck'.unread)
    /\ Top.goal = "check" => UNCHANGED cache

Quiet == UNCHANGED <<total, unread, cache, lastCheck>>

LEMMA OneLine ==
    ASSUME Typed, stack # <<>>, NEW r \in Reads, ~r.frame.late, NEW x, Top.wire = <<x>>
    PROVE  r.line = x /\ r.frame.wire = <<>> /\ ~Top.late
<1>1. ReadLine(Top, r) \/ ReadNothing(Top, r)
  BY ReadsType
<1>2. <<x>> # <<>> /\ Head(<<x>>) = x /\ Tail(<<x>>) = <<>>
  OBVIOUS
<1>3. CASE ReadLine(Top, r)
  BY <1>2, <1>3 DEF ReadLine
<1>4. CASE ReadNothing(Top, r)
  BY <1>2, <1>4 DEF ReadNothing
<1> QED
  BY <1>1, <1>3, <1>4

LEMMA LateStays ==
    ASSUME Typed, stack # <<>>, NEW r \in Reads, ~r.frame.late
    PROVE  ~Top.late
<1>1. ReadLine(Top, r) \/ ReadNothing(Top, r)
  BY ReadsType
<1> QED
  BY <1>1 DEF ReadLine, ReadNothing

\* The answer to a command sent when everything before it is read.
LEMMA AskedInTime ==
    ASSUME NEW f \in Frames, NEW c, NEW at, NEW g, Asked(f, c, at, g), f.wire = <<>>
    PROVE  \E r \in Serve(f, c) : g.stage = r.stage /\ g.wire = r.lines
<1>1. PICK r \in Serve(f, c) : g.stage = r.stage /\ g.wire = f.wire \o r.lines
  BY DEF Asked
<1>2. r.lines \in Seq(Lines)
  BY ServeType, Pop3Assumption
<1>3. <<>> \o r.lines = r.lines
  BY <1>2
<1> QED
  BY <1>1, <1>3

\* A command of the login, while the server waits for one.
LEMMA LoginAsked ==
    ASSUME NEW f \in Frames, NEW c, NEW at, NEW g, Asked(f, c, at, g),
           ~f.late => f.wire = <<>> /\ f.stage # "in",
           \/ c = "AUTH" /\ at = "auth"
           \/ c = "APOP" /\ at = "apop"
           \/ c = "USER" /\ at = "user"
           \/ c = "response" /\ at = "response" /\ (~f.late => f.stage = "challenged")
           \/ c = "PASS" /\ at \in {"pass", "pass again"} /\ (~f.late => f.stage # "challenged")
    PROVE  Fine(g) /\ (UNCHANGED setup => Fine(g)')
<1>1. g \in Frames /\ g.at = at /\ g.late = f.late
  BY DEF Asked
<1>2. at \notin {"stat", "last", "top", "connect", "greeting"}
  OBVIOUS
<1>3. ASSUME ~g.late
      PROVE  \/ LoggedOut(g)
             \/ (at = "auth" /\ g.stage = "challenged" /\ g.wire = <<Challenge>>)
             \/ (at \in {"response", "apop"} /\ g.stage = "in" /\ g.wire = <<Ok>>)
             \/ (at = "user" /\ g.stage = "named" /\ g.wire = <<Ok>>)
             \/ (at \in {"pass", "pass again"} /\ g.stage = "in" /\ g.wire = <<Ok>>)
             \/ (at \in {"pass", "pass again"} /\ g.stage = "named" /\ g.wire = <<Required>>)
  <2>1. ~f.late /\ f.wire = <<>> /\ f.stage # "in"
    BY <1>1, <1>3
  <2>2. \E r \in Serve(f, c) : g.stage = r.stage /\ g.wire = r.lines
    <3>1. f.wire = <<>>
      BY <2>1
    <3>2. Asked(f, c, at, g)
      OBVIOUS
    <3>3. f \in Frames
      OBVIOUS
    <3> QED
      BY ONLY <3>1, <3>2, <3>3, AskedInTime
  <2> PICK r \in Serve(f, c) : g.stage = r.stage /\ g.wire = r.lines
    BY <2>2
  <2>3. \/ r.stage = "auth" /\ r.lines = <<Err>>
        \/ (/\ r.stage = f.stage /\ r.lines = <<Err>> /\ f.stage # "challenged"
            /\ c \notin {"AUTH", "APOP", "USER"} /\ ~ (f.stage = "named" /\ c = "PASS"))
        \/ (f.stage = "challenged" /\ c = "response" /\ r.stage = "in" /\ r.lines = <<Ok>>)
        \/ (c = "AUTH" /\ r.stage = "challenged" /\ r.lines = <<Challenge>>)
        \/ (c = "APOP" /\ r.stage = "in" /\ r.lines = <<Ok>>)
        \/ (c = "USER" /\ r.stage = "named" /\ r.lines = <<Ok>>)
        \/ (f.stage = "named" /\ c = "PASS" /\ r.stage = "in" /\ r.lines = <<Ok>>)
        \/ (f.stage = "named" /\ c = "PASS" /\ r.stage = "named" /\ r.lines = <<Required>>)
    BY <2>1, ServesLogin
  <2>4. f.stage \in Stages
    BY DEF Frames
  <2>5. CASE c \in {"AUTH", "APOP", "USER", "response"}
    BY <2>1, <2>2, <2>3, <2>5 DEF LoggedOut
  <2>6. CASE c = "PASS"
    BY <2>1, <2>2, <2>3, <2>4, <2>6 DEF LoggedOut, Stages
  <2> QED
    BY <2>5, <2>6
<1>4. ~g.late => Protocol(g) /\ (UNCHANGED setup => Protocol(g)')
  BY <1>1, <1>2, <1>3 DEF Protocol
<1> QED
  BY <1>1, <1>2, <1>4 DEF Fine

LEMMA LoginMoves ==
    ASSUME stack # <<>>, Top.at \notin {"last", "top"}, NEW f \in Frames, Kin(Top, f),
           ~f.late => f.wire = <<>> /\ f.stage # "in",
           NEW c, NEW at, Sends(f, c, at), UNCHANGED <<setup, mailbox, lastCheck>>,
           \/ c = "AUTH" /\ at = "auth"
           \/ c = "APOP" /\ at = "apop"
           \/ c = "USER" /\ at = "user"
           \/ c = "response" /\ at = "response" /\ (~f.late => f.stage = "challenged")
           \/ c = "PASS" /\ at \in {"pass", "pass again"} /\ (~f.late => f.stage # "challenged")
    PROVE  Moves
<1>1. PICK g \in Frames : Asked(f, c, at, g) /\ Goto(g)
  BY DEF Sends
<1>2. Fine(g)'
  BY <1>1, LoginAsked
<1>3. g.goal = Top.goal /\ g.at = at
  BY <1>1 DEF Asked, Kin
<1>4. g.at # "top"
  BY <1>3
<1> QED
  BY <1>1, <1>2, <1>3, <1>4 DEF Moves, mailbox

LEMMA FailStops ==
    ASSUME stack # <<>>, Top.at # "last", Fail
    PROVE  Stops
BY DEF Stops, Fail

LEMMA TryAfterMoves ==
    ASSUME stack # <<>>, Top.at \notin {"last", "top"}, NEW f \in Frames, Kin(Top, f),
           NEW k \in 0 .. 3, k # 3 /\ ~f.late => f.wire = <<>> /\ f.stage # "in",
           TryAfter(k, f), UNCHANGED setup
    PROVE  Moves \/ Stops
<1>1. CASE GivesUp(f)
  BY <1>1, FailStops DEF GivesUp
<1>2. CASE ~GivesUp(f)
  <2>1. /\ \/ k = 0 /\ Sends(f, "AUTH", "auth")
           \/ k \in {0, 1} /\ Sends(f, "APOP", "apop")
           \/ k \in {0, 1, 2} /\ Sends(f, "USER", "user")
        /\ UNCHANGED <<mailbox, lastCheck>>
    BY <1>2, TryAfterIs
  <2>2. ~f.late => f.wire = <<>> /\ f.stage # "in"
    BY <2>1
  <2>3. CASE Sends(f, "AUTH", "auth")
    BY <2>1, <2>2, <2>3, LoginMoves
  <2>4. CASE Sends(f, "APOP", "apop")
    BY <2>1, <2>2, <2>4, LoginMoves
  <2>5. CASE Sends(f, "USER", "user")
    BY <2>1, <2>2, <2>5, LoginMoves
  <2> QED
    BY <2>1, <2>3, <2>4, <2>5
<1> QED
  BY <1>1, <1>2

\* A command that asks about the mail.
LEMMA MailAsked ==
    ASSUME NEW f \in Frames, NEW c, NEW at, NEW g, Asked(f, c, at, g), ~f.late,
           f.wire = <<>>, f.stage = "in", Typed
    PROVE  /\ g.stage = "in"
           /\ c = "STAT" => g.wire = <<OkNumber(g.mail)>>
           /\ c = "LAST" => g.wire = <<IF setup.last THEN OkNumber(g.seen) ELSE Err>>
           /\ c = "TOP" => g.wire = IF g.i \in 1 .. g.mail THEN <<Header(g.i), Dot>> ELSE <<Err>>
<1>1. \E r \in Serve(f, c) : g.stage = r.stage /\ g.wire = r.lines
  BY AskedInTime
<1> PICK r \in Serve(f, c) : g.stage = r.stage /\ g.wire = r.lines
  BY <1>1
<1>2. g.mail = f.mail /\ g.seen = f.seen /\ g.i = f.i
  BY DEF Asked, Kin
<1>3. /\ r.stage = "in"
      /\ c = "STAT" => r.lines = <<OkNumber(f.mail)>>
      /\ c = "LAST" => r.lines = <<OkNumber(f.seen)>> \/ r.lines = <<Err>>
      /\ c = "LAST" => (setup.last <=> r.lines = <<OkNumber(f.seen)>>)
      /\ c = "TOP" => r.lines = IF f.i \in 1 .. f.mail THEN <<Header(f.i), Dot>> ELSE <<Err>>
  BY ServesMail
<1>4. c = "LAST" => g.wire = <<IF setup.last THEN OkNumber(g.seen) ELSE Err>>
  <2>1. CASE setup.last
    BY <1>2, <1>3, <2>1
  <2>2. CASE ~setup.last
    BY <1>2, <1>3, <2>2
  <2> QED
    BY <2>1, <2>2
<1> QED
  BY <1>2, <1>3, <1>4

\* A popup asks for message i.
LEMMA FetchMoves ==
    ASSUME Typed, stack # <<>>, Top.at # "last", NEW f \in Frames, Kin(Top, f),
           Top.goal = "headers",
           NEW i \in Int, i >= First, Fetch(f, i),
           ~f.late => f.wire = <<>> /\ f.stage = "in",
           ~f.late /\ UnreadNumbers \subseteq 1 .. f.mail /\ i - 1 <= total
              /\ (Top.at = "top" => Listed(Top))
              => cache' = [j \in 1 .. i - First |-> i - j],
           UNCHANGED <<setup, total, unread, lastCheck>>
    PROVE  Moves \/ Stops
<1>1. total \in Int /\ unread \in Int /\ First \in Int
  BY DEF Typed, First
<1>2. CASE ~ (i <= total)
  BY <1>2 DEF Fetch, Stops
<1>3. CASE i <= total
  <2>1. PICK h \in Frames : h = [f EXCEPT !.i = i, !.item = 0] /\ Sends(h, "TOP", "top")
    BY <1>3, FetchIs
  <2>2. /\ h.wire = f.wire /\ h.stage = f.stage /\ h.late = f.late /\ h.goal = f.goal
        /\ h.mail = f.mail /\ h.i = i
    BY <2>1 DEF Frames
  <2>3. PICK g \in Frames : Asked(h, "TOP", "top", g) /\ Goto(g)
    BY <2>1 DEF Sends
  <2>4. /\ g.goal = "headers" /\ g.at = "top" /\ g.late = f.late /\ g.i = i
        /\ g.mail = f.mail
    BY <2>2, <2>3 DEF Asked, Kin
  <2>5. g.i \in UnreadNumbers
    BY <1>1, <1>3, <2>4 DEF UnreadNumbers, First
  <2>6. ~g.late => g.stage = "in" /\ g.wire = IF g.i \in 1 .. g.mail THEN <<Header(g.i), Dot>>
                                                                    ELSE <<Err>>
    BY <2>2, <2>3, <2>4, MailAsked
  <2>7. ~g.late => Protocol(g)'
    BY <2>4, <2>6 DEF Protocol
  <2>8. Fine(g)'
    BY <2>4, <2>5, <2>7 DEF Fine, UnreadNumbers
  <2>9. g.at = "top" /\ (Top.at = "top" => Listed(Top)) => Listed(g)'
    BY <1>1, <1>3, <2>4 DEF Listed, UnreadNumbers, First
  <2> QED
    BY <2>3, <2>4, <2>8, <2>9 DEF Moves
<1> QED
  BY <1>2, <1>3

LEMMA LoggedInMoves ==
    ASSUME Typed, stack # <<>>, Top.at \notin {"last", "top"}, NEW f \in Frames, Kin(Top, f),
           LoggedIn(f), ~f.late => f.wire = <<>> /\ f.stage = "in", UNCHANGED setup
    PROVE  Moves \/ Stops
<1>1. Top \in Frames /\ f.goal = Top.goal
  BY TopType DEF Kin
<1>2. UNCHANGED <<total, unread, lastCheck>>
  BY DEF LoggedIn
<1>3. CASE f.goal = "check"
  <2>1. PICK g \in Ask(f, "STAT", "stat") : Goto(g)
    BY <1>3 DEF LoggedIn
  <2>2. Asked(f, "STAT", "stat", g) /\ UNCHANGED cache
    BY <1>3, <2>1, AskIs DEF Waiting, LoggedIn
  <2>3. g \in Frames /\ g.goal = "check" /\ g.at = "stat" /\ g.late = f.late
    BY <1>3, <2>2 DEF Asked, Kin
  <2>4. ~g.late => g.stage = "in" /\ g.wire = <<OkNumber(g.mail)>>
    BY <2>2, <2>3, MailAsked
  <2>5. ~g.late => Protocol(g)'
    BY <2>3, <2>4 DEF Protocol
  <2>6. Fine(g)'
    BY <2>3, <2>5 DEF Fine
  <2> QED
    BY <1>1, <1>2, <1>3, <2>1, <2>2, <2>3, <2>6 DEF Moves
<1>4. CASE f.goal # "check"
  <2>1. Top.goal = "headers"
    BY <1>1, <1>4 DEF Frames
  <2>2. Fetch(f, First) /\ cache' = <<>>
    BY <1>4 DEF LoggedIn
  <2>3. First \in Int
    BY DEF First, Typed
  <2>4. cache' = [j \in 1 .. First - First |-> First - j]
    <3>1. 1 .. First - First = {}
      BY <2>3
    <3>2. [j \in {} |-> First - j] = <<>>
      OBVIOUS
    <3> QED
      BY <2>2, <3>1, <3>2
  <2> QED
    BY <1>2, <2>1, <2>2, <2>3, <2>4, FetchMoves
<1> QED
  BY <1>3, <1>4

LEMMA TopFine ==
    ASSUME Typed, StepInv, stack # <<>>
    PROVE  Fine(Top) /\ (Top.goal = "check" => Len(stack) = 1)
<1>1. Len(stack) \in DOMAIN stack /\ Top = stack[Len(stack)]
  BY TopType DEF Typed
<1> QED
  BY <1>1 DEF StepInv

LEMMA ConnectMoves ==
    ASSUME Typed, StepInv, Connect \/ ConnectTls
    PROVE  Moves \/ Stops \/ (UNCHANGED stack /\ Quiet)
<1>1. stack # <<>> /\ Top.at = "connect" /\ UNCHANGED setup
  BY DEF Connect, ConnectTls, At
<1>2. ASSUME NEW fd \in Fds, NEW s \in SUBSET Server, Greets(fd, s), UNCHANGED <<mailbox, lastCheck>>
      PROVE  Moves
  <2>1. PICK g \in Frames :
            /\ g.at = "greeting" /\ g.goal = Top.goal
            /\ g.wire = <<IF setup.apop THEN Greeting ELSE Ok>>
            /\ g.stage = Top.stage /\ g.late = Top.late /\ Goto(g)
    BY <1>1, <1>2, GreetsIs
  <2>2. ~Top.late => Top.stage = "auth"
    BY <1>1, TopFine DEF Fine, Protocol
  <2>3. ~g.late => Protocol(g)'
    BY <1>1, <2>1, <2>2 DEF Protocol
  <2>4. Fine(g)'
    BY <2>1, <2>3 DEF Fine
  <2> QED
    BY <1>1, <1>2, <2>1, <2>4 DEF Moves, mailbox
<1>3. CASE Connect
  <2>1. PICK fd \in Fds \ fds : Greets(fd, {})
    BY <1>3 DEF Connect
  <2>2. UNCHANGED <<mailbox, lastCheck>> /\ {} \in SUBSET Server
    BY <1>3 DEF Connect, history
  <2> QED
    BY <1>2, <2>1, <2>2
<1>4. CASE ConnectTls
  <2>1. PICK fd \in Fds \ fds, s \in setup.tls :
          CASE Initialize(s, setup.opt) = "ready" ->
                     /\ Greets(fd, {s})
                     /\ UNCHANGED <<mailbox, ended, lastCheck>>
            [] Initialize(s, setup.opt) = "failed" -> Fail /\ UNCHANGED ended
            [] OTHER -> ended' = TRUE /\ UNCHANGED <<mailbox, stack, lastCheck>>
    BY <1>4 DEF ConnectTls
  <2>2. CASE Initialize(s, setup.opt) = "ready"
    <3>1. Greets(fd, {s}) /\ UNCHANGED <<mailbox, ended, lastCheck>>
      BY <2>1, <2>2, Zenon
    <3>2. {s} \in SUBSET Server
      BY SetupType
    <3> QED
      BY <1>2, <3>1, <3>2
  <2>3. CASE Initialize(s, setup.opt) = "failed"
    <3>1. Fail
      <4>1. "failed" # "ready"
        OBVIOUS
      <4> QED
        BY <2>1, <2>3, <4>1, Zenon
    <3> QED
      BY <1>1, <3>1, FailStops
  <2>4. CASE Initialize(s, setup.opt) \notin {"ready", "failed"}
    <3>1. UNCHANGED <<mailbox, stack, lastCheck>>
      <4>1. Initialize(s, setup.opt) # "ready" /\ Initialize(s, setup.opt) # "failed"
        BY <2>4
      <4> QED
        BY <2>1, <4>1, Zenon
    <3> QED
      BY <3>1 DEF Quiet, mailbox
  <2> QED
    BY <2>2, <2>3, <2>4
<1> QED
  BY <1>3, <1>4

LEMMA GreetingMoves ==
    ASSUME Typed, StepInv, ReadGreeting
    PROVE  Moves \/ Stops
<1>1. stack # <<>> /\ Top.at = "greeting" /\ UNCHANGED setup
  BY DEF ReadGreeting, At
<1>2. PICK r \in Reads : TryAfter(0, [r.frame EXCEPT !.apop = r.line = Greeting])
  BY DEF ReadGreeting
<1>3. PICK b \in BOOLEAN : b = (r.line = Greeting)
  OBVIOUS
<1>4. PICK f : f = [r.frame EXCEPT !.apop = b]
  OBVIOUS
<1>5. r.frame \in Frames /\ Kin(Top, r.frame) /\ r.frame.stage = Top.stage
  BY <1>1, ReadsType
<1>6. f \in Frames /\ Kin(Top, f) /\ f.stage = Top.stage /\ f.late = r.frame.late
      /\ f.wire = r.frame.wire
  BY <1>4, <1>5 DEF Frames, Kin
<1>7. ASSUME ~f.late
      PROVE  f.wire = <<>> /\ f.stage # "in"
  <2>1. ~Top.late
    BY <1>1, <1>6, <1>7, LateStays
  <2>2. Top.stage = "auth" /\ \E x : Top.wire = <<x>>
    BY <1>1, <2>1, TopFine DEF Fine, Protocol
  <2> QED
    BY <1>1, <1>6, <1>7, <2>2, OneLine
<1>8. TryAfter(0, f)
  BY <1>2, <1>3, <1>4
<1> QED
  BY <1>1, <1>6, <1>7, <1>8, TryAfterMoves

\* What a wait of the login brings while answers are in time.
LEMMA LoginReads ==
    ASSUME Typed, StepInv, stack # <<>>,
           Top.at \in {"auth", "response", "apop", "user", "pass", "pass again"},
           NEW r \in Reads, ~r.frame.late
    PROVE  /\ r.frame.wire = <<>>
           /\ \/ (r.line = Err /\ r.frame.stage = "auth")
              \/ (Top.at = "auth" /\ r.line = Challenge /\ r.frame.stage = "challenged")
              \/ (Top.at = "user" /\ r.line = Ok /\ r.frame.stage = "named")
              \/ (/\ Top.at \in {"response", "apop", "pass", "pass again"}
                  /\ r.line = Ok /\ r.frame.stage = "in")
              \/ (/\ Top.at \in {"pass", "pass again"}
                  /\ r.line = Required /\ r.frame.stage = "named")
<1>1. Fine(Top) /\ ~Top.late
  BY TopFine, LateStays
<1>2. r.frame.stage = Top.stage
  BY ReadsType
<1>3. \/ LoggedOut(Top)
      \/ (Top.at = "auth" /\ Top.stage = "challenged" /\ Top.wire = <<Challenge>>)
      \/ (Top.at = "user" /\ Top.stage = "named" /\ Top.wire = <<Ok>>)
      \/ (/\ Top.at \in {"response", "apop", "pass", "pass again"}
          /\ Top.stage = "in" /\ Top.wire = <<Ok>>)
      \/ (/\ Top.at \in {"pass", "pass again"}
          /\ Top.stage = "named" /\ Top.wire = <<Required>>)
  <2>1. Protocol(Top)
    BY <1>1 DEF Fine
  <2> QED
    BY <2>1 DEF Protocol
<1>4. \A x : Top.wire = <<x>> => r.line = x /\ r.frame.wire = <<>>
  BY OneLine
<1> QED
  BY <1>2, <1>3, <1>4 DEF LoggedOut

LEMMA LoginStepMoves ==
    ASSUME Typed, StepInv,
           ReadAuth \/ ReadResponse \/ ReadApop \/ ReadUser \/ ReadPass \/ ReadPassAgain
    PROVE  Moves \/ Stops
<1>1. stack # <<>> /\ Top.at \in {"auth", "response", "apop", "user", "pass", "pass again"}
      /\ UNCHANGED setup
  BY DEF ReadAuth, ReadResponse, ReadApop, ReadUser, ReadPass, ReadPassAgain, At
<1>2. Top.at \notin {"last", "top"}
  BY <1>1
<1>3. ASSUME NEW r \in Reads
      PROVE  r.frame \in Frames /\ Kin(Top, r.frame)
  BY <1>1, ReadsType
<1>4. ASSUME NEW r \in Reads, NEW k \in 0 .. 3, TryAfter(k, r.frame),
             k # 3 /\ ~r.frame.late => r.frame.stage # "in"
      PROVE  Moves \/ Stops
  <2>1. ~r.frame.late => r.frame.wire = <<>>
    BY <1>1, LoginReads
  <2> QED
    BY <1>1, <1>2, <1>3, <1>4, <2>1, TryAfterMoves
<1>5. ASSUME NEW r \in Reads, LoggedIn(r.frame), ~r.frame.late => r.frame.stage = "in"
      PROVE  Moves \/ Stops
  <2>1. ~r.frame.late => r.frame.wire = <<>>
    BY <1>1, LoginReads
  <2> QED
    BY <1>1, <1>2, <1>3, <1>5, <2>1, LoggedInMoves
<1>6. ASSUME NEW r \in Reads, NEW c, NEW at \in Waiting,
             \E f \in Ask(r.frame, c, at) : Goto(f), UNCHANGED <<mailbox, fds, lastCheck>>,
             \/ c = "response" /\ at = "response" /\ (~r.frame.late => r.frame.stage = "challenged")
             \/ c = "PASS" /\ at \in {"pass", "pass again"}
                /\ (~r.frame.late => r.frame.stage \notin {"challenged", "in"})
      PROVE  Moves
  <2>1. ~r.frame.late => r.frame.wire = <<>> /\ r.frame.stage # "in"
    BY <1>1, <1>6, LoginReads
  <2>2. Sends(r.frame, c, at)
    BY <1>3, <1>6, AnswerSends
  <2> QED
    BY <1>1, <1>2, <1>3, <1>6, <2>1, <2>2, LoginMoves
<1>7. "response" \in Waiting /\ "pass" \in Waiting /\ "pass again" \in Waiting
  BY DEF Waiting
<1>8. 1 \in 0 .. 3 /\ 2 \in 0 .. 3 /\ 3 \in 0 .. 3 /\ 1 # 3 /\ 2 # 3
  OBVIOUS
<1>9. CASE ReadAuth
  <2>1. PICK r \in Reads :
          IF r.line = Challenge /\ setup.gcry
          THEN /\ \E f \in Ask(r.frame, "response", "response") : Goto(f)
               /\ UNCHANGED <<mailbox, fds, lastCheck>>
          ELSE TryAfter(1, r.frame)
    BY <1>9 DEF ReadAuth
  <2>2. Top.at = "auth"
    BY <1>9 DEF ReadAuth, At
  <2>3. ~r.frame.late => /\ r.frame.stage # "in"
                         /\ r.line = Challenge => r.frame.stage = "challenged"
    BY <1>1, <2>2, LoginReads, Answers
  <2>4. CASE r.line = Challenge /\ setup.gcry
    BY <1>6, <1>7, <2>1, <2>3, <2>4
  <2>5. CASE ~ (r.line = Challenge /\ setup.gcry)
    BY <1>4, <1>8, <2>1, <2>3, <2>5
  <2> QED
    BY <2>4, <2>5
<1>10. CASE ReadResponse \/ ReadApop
  <2>1. PICK r \in Reads :
          \/ IsOk(r.line) /\ LoggedIn(r.frame)
          \/ ~IsOk(r.line) /\ (TryAfter(1, r.frame) \/ TryAfter(2, r.frame))
    BY <1>10 DEF ReadResponse, ReadApop
  <2>2. Top.at \in {"response", "apop"}
    BY <1>10 DEF ReadResponse, ReadApop, At
  <2>3. ~r.frame.late => IF IsOk(r.line) THEN r.frame.stage = "in" ELSE r.frame.stage # "in"
    BY <1>1, <2>2, LoginReads, Answers
  <2> QED
    BY <1>4, <1>5, <1>8, <2>1, <2>3
<1>11. CASE ReadUser
  <2>1. PICK r \in Reads :
          IF Plus(r.line)
          THEN /\ \E f \in Ask(r.frame, "PASS", "pass") : Goto(f)
               /\ UNCHANGED <<mailbox, fds, lastCheck>>
          ELSE TryAfter(3, r.frame)
    BY <1>11 DEF ReadUser
  <2>2. Top.at = "user"
    BY <1>11 DEF ReadUser, At
  <2>3. ~r.frame.late => (Plus(r.line) => r.frame.stage \notin {"challenged", "in"})
    BY <1>1, <2>2, LoginReads, Answers
  <2>4. CASE Plus(r.line)
    BY <1>6, <1>7, <2>1, <2>3, <2>4
  <2>5. CASE ~Plus(r.line)
    BY <1>4, <1>8, <2>1, <2>5
  <2> QED
    BY <2>4, <2>5
<1>12. CASE ReadPass
  <2>1. PICK r \in Reads :
          IF r.line = Required /\ setup.interactive
          THEN /\ \E f \in Ask(r.frame, "PASS", "pass again") : Goto(f)
               /\ UNCHANGED <<mailbox, fds, lastCheck>>
          ELSE IF Plus(r.line) THEN LoggedIn(r.frame) ELSE TryAfter(3, r.frame)
    BY <1>12 DEF ReadPass
  <2>2. Top.at = "pass"
    BY <1>12 DEF ReadPass, At
  <2>3. ~r.frame.late => /\ r.line = Required => r.frame.stage \notin {"challenged", "in"}
                         /\ Plus(r.line) => r.frame.stage = "in"
    BY <1>1, <2>2, LoginReads, Answers
  <2>4. CASE r.line = Required /\ setup.interactive
    BY <1>6, <1>7, <2>1, <2>3, <2>4
  <2>5. CASE ~ (r.line = Required /\ setup.interactive)
    <3>1. IF Plus(r.line) THEN LoggedIn(r.frame) ELSE TryAfter(3, r.frame)
      BY <2>1, <2>5
    <3> QED
      BY <1>4, <1>5, <1>8, <2>3, <3>1
  <2> QED
    BY <2>4, <2>5
<1>13. CASE ReadPassAgain
  <2>1. PICK r \in Reads : IF Plus(r.line) THEN LoggedIn(r.frame) ELSE TryAfter(3, r.frame)
    BY <1>13 DEF ReadPassAgain
  <2>2. Top.at = "pass again"
    BY <1>13 DEF ReadPassAgain, At
  <2>3. ~r.frame.late => (Plus(r.line) => r.frame.stage = "in")
    BY <1>1, <2>2, LoginReads, Answers
  <2> QED
    BY <1>4, <1>5, <1>8, <2>1, <2>3
<1> QED
  BY <1>9, <1>10, <1>11, <1>12, <1>13

LEMMA StatMoves ==
    ASSUME Typed, StepInv, ReadStat
    PROVE  Moves \/ Stops
<1>1. stack # <<>> /\ Top.at = "stat" /\ UNCHANGED setup
  BY DEF ReadStat, At
<1>2. Fine(Top) /\ Top.goal = "check"
  BY <1>1, TopFine DEF Fine
<1>3. PICK r \in Reads :
        IF r.line = Nothing THEN /\ Fail
                                 /\ unanswered' = TRUE
        ELSE /\ IF Plus(r.line)
                THEN /\ total' = IF Len(r.line) = 2 THEN r.line[2] ELSE total
                     /\ \E f \in Ask(r.frame, "LAST", "last") : Goto(f)
                ELSE Goto(r.frame) /\ total' = total
             /\ UNCHANGED <<unread, cache, lastCheck, unanswered>>
  BY DEF ReadStat
<1>4. r.frame \in Frames /\ Kin(Top, r.frame) /\ r.frame.at = "stat"
      /\ r.frame.stage = Top.stage /\ r.frame.goal = "check" /\ r.frame.mail = Top.mail
  BY <1>1, <1>2, ReadsType DEF Kin
<1>5. ASSUME ~r.frame.late
      PROVE  /\ r.line = OkNumber(Top.mail) /\ r.frame.wire = <<>> /\ r.frame.stage = "in"
             /\ Plus(r.line) /\ Len(r.line) = 2 /\ r.line[2] = Top.mail
  <2>1. ~Top.late
    BY <1>1, <1>5, LateStays
  <2>2. Top.stage = "in" /\ Top.wire = <<OkNumber(Top.mail)>>
    BY <1>1, <1>2, <2>1 DEF Fine, Protocol
  <2>3. r.line = OkNumber(Top.mail) /\ r.frame.wire = <<>>
    BY <1>1, <1>5, <2>2, OneLine
  <2>4. Plus(OkNumber(Top.mail))
    BY Answers
  <2>5. Len(OkNumber(Top.mail)) = 2 /\ OkNumber(Top.mail)[2] = Top.mail
    BY LineHeads
  <2> QED
    BY <1>4, <2>2, <2>3, <2>4, <2>5
<1>6. CASE r.line = Nothing
  BY <1>1, <1>3, <1>6, FailStops
<1>7. CASE r.line # Nothing /\ Plus(r.line)
  <2>1. /\ total' = IF Len(r.line) = 2 THEN r.line[2] ELSE total
        /\ \E f \in Ask(r.frame, "LAST", "last") : Goto(f)
        /\ UNCHANGED <<unread, cache, lastCheck>>
    BY <1>3, <1>7
  <2>2. PICK g \in Ask(r.frame, "LAST", "last") : Goto(g)
    BY <2>1
  <2>3. Asked(r.frame, "LAST", "last", g)
    BY <1>4, AskIs DEF Waiting
  <2>4. /\ g \in Frames /\ g.goal = "check" /\ g.at = "last" /\ g.late = r.frame.late
        /\ g.mail = Top.mail
    BY <1>4, <2>3 DEF Asked, Kin
  <2>5. ~g.late => g.stage = "in"
                   /\ g.wire = <<IF setup.last THEN OkNumber(g.seen) ELSE Err>>
    <3>1. SUFFICES ASSUME ~g.late
                   PROVE  /\ g.stage = "in"
                          /\ g.wire = <<IF setup.last THEN OkNumber(g.seen) ELSE Err>>
      OBVIOUS
    <3>2. ~r.frame.late /\ r.frame.wire = <<>> /\ r.frame.stage = "in"
      BY <1>5, <2>4, <3>1
    <3>3. PICK f \in Frames : f = r.frame
      BY <1>4
    <3>4. Asked(f, "LAST", "last", g) /\ ~f.late /\ f.wire = <<>> /\ f.stage = "in"
      BY <2>3, <3>2, <3>3
    <3> QED
      BY <3>4, MailAsked
  <2>6. ~g.late => Protocol(g)'
    BY <1>1, <2>4, <2>5 DEF Protocol
  <2>7. ~g.late => total' = g.mail
    BY <1>5, <2>1, <2>4
  <2>8. Fine(g)'
    BY <2>4, <2>6, <2>7 DEF Fine
  <2> QED
    BY <1>1, <1>2, <2>1, <2>2, <2>4, <2>8 DEF Moves
<1>8. CASE r.line # Nothing /\ ~Plus(r.line)
  <2>1. Goto(r.frame) /\ UNCHANGED <<total, unread, cache, lastCheck>>
    BY <1>3, <1>8
  <2>2. r.frame.late
    BY <1>5, <1>8
  <2>3. Fine(r.frame)'
    BY <1>4, <2>2 DEF Fine
  <2> QED
    BY <1>1, <1>2, <1>4, <2>1, <2>3 DEF Moves
<1> QED
  BY <1>6, <1>7, <1>8

LEMMA LastStops ==
    ASSUME Typed, StepInv, ReadLast
    PROVE  Stops
<1>1. stack # <<>> /\ Top.at = "last" /\ stack' = Below /\ UNCHANGED <<setup, total, cache>>
  BY DEF ReadLast, At
<1>2. Fine(Top) /\ Top.goal = "check" /\ Top \in Frames
  BY <1>1, TopFine, TopType DEF Fine
<1>3. PICK r \in Reads : \E n \in IF Plus(r.line) THEN Numbers(r.line) ELSE {0} :
          /\ unread' = total - n
          /\ lastCheck' = [how |-> "done", late |-> r.frame.late, mail |-> Top.mail,
                           unread |-> Top.mail - IF setup.last THEN Top.seen ELSE 0]
  BY DEF ReadLast
<1>4. PICK n \in IF Plus(r.line) THEN Numbers(r.line) ELSE {0} :
          /\ unread' = total - n
          /\ lastCheck' = [how |-> "done", late |-> r.frame.late, mail |-> Top.mail,
                           unread |-> Top.mail - IF setup.last THEN Top.seen ELSE 0]
  BY <1>3
<1>5. ASSUME ~r.frame.late
      PROVE  total = Top.mail /\ n = IF setup.last THEN Top.seen ELSE 0
  <2>1. ~Top.late
    BY <1>1, <1>5, LateStays
  <2>2. total = Top.mail /\ Top.wire = <<IF setup.last THEN OkNumber(Top.seen) ELSE Err>>
    BY <1>1, <1>2, <2>1 DEF Fine, Protocol
  <2>3. CASE setup.last
    <3>1. Top.wire = <<OkNumber(Top.seen)>>
      BY <2>2, <2>3
    <3>2. r.line = OkNumber(Top.seen)
      BY <1>1, <1>5, <3>1, OneLine
    <3>3. Plus(OkNumber(Top.seen))
      BY Answers
    <3>4. Len(OkNumber(Top.seen)) = 2 /\ OkNumber(Top.seen)[2] = Top.seen
      BY LineHeads
    <3>5. n \in Numbers(r.line)
      BY <1>4, <3>2, <3>3
    <3>6. n = Top.seen
      BY <3>2, <3>4, <3>5 DEF Numbers
    <3> QED
      BY <2>2, <2>3, <3>6
  <2>4. CASE ~setup.last
    <3>1. Top.wire = <<Err>>
      BY <2>2, <2>4
    <3>2. r.line = Err /\ ~Plus(Err)
      BY <1>1, <1>5, <3>1, OneLine, Answers
    <3>3. n = 0
      BY <1>4, <3>2
    <3> QED
      BY <2>2, <2>4, <3>3
  <2> QED
    BY <2>3, <2>4
<1>6. lastCheck'.how = "done" /\ lastCheck'.late = r.frame.late /\ lastCheck'.mail = Top.mail
      /\ lastCheck'.unread = Top.mail - IF setup.last THEN Top.seen ELSE 0
  BY <1>4
<1>7. ~lastCheck'.late => total' = lastCheck'.mail /\ unread' = lastCheck'.unread
  BY <1>1, <1>4, <1>5, <1>6
<1> QED
  BY <1>1, <1>2, <1>6, <1>7 DEF Stops

LEMMA TopMoves ==
    ASSUME Typed, StepInv, ReadTop
    PROVE  Moves \/ Stops
<1>1. stack # <<>> /\ Top.at = "top" /\ UNCHANGED <<setup, total, unread, lastCheck>>
  BY DEF ReadTop, At, history
<1>2. Fine(Top) /\ Top.goal = "headers" /\ Top.i \in UnreadNumbers /\ Top \in Frames
  BY <1>1, TopFine, TopType DEF Fine
<1>3. total \in Int /\ unread \in Int
  BY DEF Typed
<1>4. Top.i \in First .. total /\ First \in Int
  BY <1>2, <1>3 DEF UnreadNumbers, First
<1>5. PICK r \in Reads :
          IF r.line \in {Nothing, Dot}
          THEN /\ cache' = <<Top.item>> \o cache
               /\ Fetch(r.frame, Top.i + 1)
          ELSE /\ Goto([r.frame EXCEPT !.item = IF r.line[1] = "header" THEN r.line[2] ELSE @])
               /\ UNCHANGED <<fds, cache>>
  BY DEF ReadTop
<1>6. /\ r.frame \in Frames /\ Kin(Top, r.frame) /\ r.frame.at = "top"
      /\ r.frame.stage = Top.stage /\ r.frame.goal = "headers" /\ r.frame.mail = Top.mail
      /\ r.frame.i = Top.i /\ r.frame.item = Top.item
  BY <1>1, <1>2, ReadsType DEF Kin
<1>7. ASSUME ~r.frame.late
      PROVE  /\ ~Top.late /\ r.frame.stage = "in"
             /\ Top.i \in 1 .. Top.mail =>
                   \/ (r.line = Header(Top.i) /\ r.frame.wire = <<Dot>>)
                   \/ (r.line = Dot /\ r.frame.wire = <<>> /\ Top.item = Top.i)
             /\ Top.i \notin 1 .. Top.mail =>
                   r.frame.wire = <<>> /\ r.line \in {Nothing, Err}
  <2>1. ~Top.late
    BY <1>1, <1>7, LateStays
  <2>2. /\ Top.stage = "in"
        /\ Top.i \in 1 .. Top.mail => \/ Top.wire = <<Header(Top.i), Dot>>
                                      \/ (Top.wire = <<Dot>> /\ Top.item = Top.i)
        /\ Top.i \notin 1 .. Top.mail => Top.wire \in {<<>>, <<Err>>}
    BY <1>1, <1>2, <2>1 DEF Fine, Protocol
  <2>3. ReadLine(Top, r) \/ ReadNothing(Top, r)
    BY <1>1, ReadsType
  <2>4. CASE Top.wire = <<Header(Top.i), Dot>>
    <3>1. \A x, y : <<x, y>> # <<>> /\ Head(<<x, y>>) = x /\ Tail(<<x, y>>) = <<y>>
      OBVIOUS
    <3>2. r.line = Header(Top.i) /\ r.frame.wire = <<Dot>>
      BY <1>7, <2>3, <2>4, <3>1 DEF ReadLine, ReadNothing
    <3>3. Top.i \in 1 .. Top.mail
      <4>1. <<Header(Top.i), Dot>> # <<>> /\ Len(<<Header(Top.i), Dot>>) = 2 /\ Len(<<Err>>) = 1
        OBVIOUS
      <4> QED
        BY <2>2, <2>4, <4>1
    <3> QED
      BY <1>6, <2>1, <2>2, <3>2, <3>3
  <2>5. CASE Top.wire = <<Dot>>
    <3>1. r.line = Dot /\ r.frame.wire = <<>>
      BY <1>1, <1>7, <2>5, OneLine
    <3>2. Top.i \in 1 .. Top.mail
      <4>1. <<Dot>> # <<>> /\ <<Dot>>[1] = Dot /\ <<Err>>[1] = Err /\ Dot # Err
        BY Answers
      <4> QED
        BY <2>2, <2>5, <4>1
    <3>3. Top.item = Top.i
      <4>1. Len(<<Header(Top.i), Dot>>) = 2 /\ Len(<<Dot>>) = 1
        OBVIOUS
      <4> QED
        BY <2>2, <2>5, <3>2, <4>1
    <3> QED
      BY <1>6, <2>1, <2>2, <3>1, <3>2, <3>3
  <2>6. CASE Top.wire = <<>>
    <3>1. r.line = Nothing /\ r.frame.wire = <<>>
      BY <2>3, <2>6 DEF ReadLine, ReadNothing
    <3>2. Top.i \notin 1 .. Top.mail
      <4>1. \A x, y : <<x>> # <<>> /\ <<x, y>> # <<>>
        OBVIOUS
      <4> QED
        BY <2>2, <2>6, <4>1
    <3> QED
      BY <1>6, <2>1, <2>2, <3>1, <3>2
  <2>7. CASE Top.wire = <<Err>>
    <3>1. r.line = Err /\ r.frame.wire = <<>>
      BY <1>1, <1>7, <2>7, OneLine
    <3>2. Top.i \notin 1 .. Top.mail
      <4>1. /\ <<Err>>[1] = Err /\ <<Dot>>[1] = Dot /\ Dot # Err
            /\ Len(<<Err>>) = 1 /\ Len(<<Header(Top.i), Dot>>) = 2
        BY Answers
      <4> QED
        BY <2>2, <2>7, <4>1
    <3> QED
      BY <1>6, <2>1, <2>2, <3>1, <3>2
  <2> QED
    BY <2>2, <2>4, <2>5, <2>6, <2>7
<1>8. CASE r.line \in {Nothing, Dot}
  <2>1. cache' = <<Top.item>> \o cache /\ Fetch(r.frame, Top.i + 1)
    BY <1>5, <1>8
  <2>2. ASSUME ~r.frame.late
        PROVE  /\ r.frame.wire = <<>> /\ r.frame.stage = "in"
               /\ Top.i \in 1 .. Top.mail => Top.item = Top.i
    <3>1. Header(Top.i) # Nothing /\ Header(Top.i) # Dot
      BY Answers
    <3> QED
      BY <1>7, <1>8, <2>2, <3>1
  <2>3. ASSUME ~r.frame.late, UnreadNumbers \subseteq 1 .. r.frame.mail,
               Top.at = "top" => Listed(Top)
        PROVE  cache' = [j \in 1 .. (Top.i + 1) - First |-> (Top.i + 1) - j]
    <3>1. ~Top.late /\ UnreadNumbers \subseteq 1 .. Top.mail
      BY <1>6, <1>7, <2>3
    <3>2. cache = [j \in 1 .. Top.i - First |-> Top.i - j]
      BY <1>1, <2>3, <3>1 DEF Listed
    <3>3. Top.item = Top.i
      BY <1>2, <2>2, <2>3, <3>1
    <3>4. \A i \in Int, n \in Nat :
              <<i>> \o [j \in 1 .. n |-> i - j] = [j \in 1 .. n + 1 |-> (i + 1) - j]
      <4> SUFFICES ASSUME NEW i \in Int, NEW n \in Nat
                   PROVE  <<i>> \o [j \in 1 .. n |-> i - j] = [j \in 1 .. n + 1 |-> (i + 1) - j]
        OBVIOUS
      <4> DEFINE s == [j \in 1 .. n |-> i - j]
      <4> DEFINE t == [j \in 1 .. n + 1 |-> (i + 1) - j]
      <4>1. s \in Seq(Int) /\ Len(s) = n /\ t \in Seq(Int) /\ Len(t) = n + 1
        OBVIOUS
      <4>2. <<i>> \o s \in Seq(Int) /\ Len(<<i>> \o s) = n + 1
        BY <4>1
      <4>3. \A j \in 1 .. n + 1 : (<<i>> \o s)[j] = t[j]
        BY <4>1
      <4> QED
        BY <4>1, <4>2, <4>3
    <3>5. Top.i - First \in Nat /\ (Top.i - First) + 1 = (Top.i + 1) - First /\ Top.i \in Int
      BY <1>4
    <3> QED
      BY <2>1, <3>2, <3>3, <3>4, <3>5
  <2>4. Top.i + 1 \in Int /\ Top.i + 1 >= First
    BY <1>4
  <2> QED
    BY <1>1, <1>2, <1>6, <2>1, <2>2, <2>3, <2>4, FetchMoves
<1>9. CASE r.line \notin {Nothing, Dot}
  <2>1. PICK n : n = IF r.line[1] = "header" THEN r.line[2] ELSE r.frame.item
    OBVIOUS
  <2>2. PICK g : g = [r.frame EXCEPT !.item = n]
    OBVIOUS
  <2>3. Goto(g) /\ UNCHANGED cache
    BY <1>5, <1>9, <2>1, <2>2
  <2>4. n \in Int
    <3>1. r.frame.item \in Int
      BY <1>6 DEF Frames
    <3>2. r.line \in Lines
      BY <1>1, <1>9, LineType
    <3> QED
      BY <2>1, <3>1, <3>2, HeaderNumber
  <2>5. /\ g \in Frames /\ g.at = "top" /\ g.goal = "headers" /\ g.i = Top.i
        /\ g.mail = Top.mail /\ g.late = r.frame.late /\ g.stage = r.frame.stage
        /\ g.wire = r.frame.wire /\ g.item = n
    BY <1>6, <2>2, <2>4 DEF Frames
  <2>6. ~g.late => Protocol(g)'
    <3>1. SUFFICES ASSUME ~g.late
                   PROVE  Protocol(g)'
      OBVIOUS
    <3>2. CASE Top.i \in 1 .. Top.mail
      <4>1. r.line = Header(Top.i) /\ r.frame.wire = <<Dot>>
        BY <1>7, <1>9, <2>5, <3>1, <3>2
      <4>2. Header(Top.i)[1] = "header" /\ Header(Top.i)[2] = Top.i
        BY LineHeads
      <4>3. n = Top.i
        BY <2>1, <4>1, <4>2
      <4> QED
        BY <1>7, <2>5, <3>1, <3>2, <4>1, <4>3 DEF Protocol
    <3>3. CASE Top.i \notin 1 .. Top.mail
      <4>1. g.wire = <<>> /\ g.stage = "in"
        BY <1>7, <2>5, <3>1, <3>3
      <4> QED
        BY <2>5, <3>3, <4>1 DEF Protocol
    <3> QED
      BY <3>2, <3>3
  <2>7. Fine(g)'
    BY <1>1, <1>2, <2>5, <2>6 DEF Fine, UnreadNumbers
  <2>8. ASSUME Listed(Top)
        PROVE  Listed(g)'
    <3>1. ~g.late => ~Top.late
      BY <1>7, <2>5
    <3> QED
      BY <1>1, <2>3, <2>5, <2>8, <3>1 DEF Listed, UnreadNumbers, First
  <2> QED
    BY <1>1, <1>2, <2>3, <2>5, <2>7, <2>8 DEF Moves
<1> QED
  BY <1>8, <1>9

\* A session begins: a check while nothing runs, or a popup.
Starts ==
    /\ \E f \in Frames : /\ f.at = "connect" /\ f.stage = "auth"
                         /\ f.goal = "check" => stack = <<>>
                         /\ setup.apart /\ f.goal = "headers" =>
                               \A k \in DOMAIN stack : stack[k].goal = "check"
                         /\ stack' = Append(stack, f)
    /\ Quiet

LEMMA SessionSteps ==
    ASSUME Typed, StepInv, Next
    PROVE  Starts \/ Moves \/ Stops \/ (UNCHANGED stack /\ Quiet)
<1>1. CASE Check
  <2>1. stack = <<>> /\ stack' = Start("check") /\ UNCHANGED <<mailbox, history>>
    BY <1>1 DEF Check
  <2>2. PICK f \in Frames : f.at = "connect" /\ f.stage = "auth" /\ f.goal = "check"
                            /\ stack' = Append(stack, f)
    BY <2>1, StartType
  <2> QED
    BY <2>1, <2>2 DEF Starts, Quiet, mailbox, history
<1>2. CASE Popup
  <2>1. stack' = Start("headers") /\ UNCHANGED <<mailbox, history>>
        /\ (setup.apart => \A k \in DOMAIN stack : stack[k].goal = "check")
    BY <1>2 DEF Popup
  <2>2. PICK f \in Frames : f.at = "connect" /\ f.stage = "auth" /\ f.goal = "headers"
                            /\ stack' = Append(stack, f)
    BY <2>1, StartType
  <2> QED
    BY <2>1, <2>2 DEF Starts, Quiet, mailbox, history
<1>3. CASE NoConnection
  <2>1. stack # <<>> /\ Top.at = "connect" /\ Fail
    BY <1>3 DEF NoConnection, At
  <2> QED
    BY <2>1, FailStops
<1> QED
  BY <1>1, <1>2, <1>3, ConnectMoves, GreetingMoves, LoginStepMoves, StatMoves, LastStops,
     TopMoves DEF Next

\* A session that goes on takes the place of the top; one that ends leaves the
\* others as they are.
LEMMA MovesIs ==
    ASSUME Typed, StepInv, Moves
    PROVE  \E g \in Frames :
              /\ Len(stack') = Len(stack) /\ Len(stack) \in Nat \ {0}
              /\ stack' \in Seq(Frames)
              /\ \A k \in 1 .. Len(stack) - 1 : stack'[k] = stack[k]
              /\ stack'[Len(stack)] = g /\ stack[Len(stack)] = Top
              /\ g.goal = Top.goal /\ Fine(g)'
              /\ UNCHANGED <<total, unread>>
                 \/ (Len(stack) = 1 /\ g.goal = "check" /\ g.at = "last")
              /\ g.at = "top" /\ (Top.at = "top" => Listed(Top)) => Listed(g)'
<1>1. stack # <<>>
  BY DEF Moves
<1>2. PICK g \in Frames :
          /\ Goto(g) /\ g.goal = Top.goal /\ Fine(g)'
          /\ UNCHANGED <<total, unread>> \/ (g.goal = "check" /\ g.at = "last")
          /\ g.at = "top" /\ (Top.at = "top" => Listed(Top)) => Listed(g)'
  BY DEF Moves
<1>3. /\ stack' \in Seq(Frames) /\ Len(stack') = Len(stack)
      /\ \A k \in 1 .. Len(stack) - 1 : stack'[k] = stack[k]
      /\ stack'[Len(stack)] = g
  BY <1>1, <1>2, GotoFrames
<1>4. Len(stack) \in Nat \ {0} /\ stack[Len(stack)] = Top
  BY <1>1, TopType
<1>5. Top.goal = "check" => Len(stack) = 1
  BY <1>1, TopFine
<1> QED
  BY <1>2, <1>3, <1>4, <1>5

LEMMA StopsIs ==
    ASSUME Typed, StepInv, Stops
    PROVE  /\ Len(stack') = Len(stack) - 1 /\ Len(stack) \in Nat \ {0}
           /\ stack' \in Seq(Frames)
           /\ \A k \in 1 .. Len(stack) - 1 : stack'[k] = stack[k]
           /\ stack[Len(stack)] = Top
           /\ UNCHANGED <<total, unread>> \/ Len(stack) = 1
<1>1. stack # <<>> /\ stack' = Below
  BY DEF Stops
<1>2. Top.goal = "check" => Len(stack) = 1
  BY <1>1, TopFine
<1>3. UNCHANGED <<total, unread>> \/ Top.goal = "check"
  BY DEF Stops
<1> QED
  BY <1>1, <1>2, <1>3, PopFrames, TopType

LEMMA StepNext == Typed /\ StepInv /\ [Next]_vars => StepInv'
<1> SUFFICES ASSUME Typed, StepInv, [Next]_vars
             PROVE  StepInv'
  OBVIOUS
<1>1. CASE Next
  <2>1. UNCHANGED setup /\ stack \in Seq(Frames) /\ stack' \in Seq(Frames)
    BY <1>1, Steps, TypedNext DEF Typed
  <2>2. \A k \in 1 .. Len(stack) : (stack[k].goal = "check" => k = 1) /\ Fine(stack[k])
    BY <2>1 DEF StepInv
  <2>3. ASSUME UNCHANGED <<total, unread>>, NEW f
        PROVE  Fine(f) => Fine(f)'
    BY <2>1, <2>3 DEF Fine, Protocol, LoggedOut, UnreadNumbers
  <2>4. SUFFICES \A k \in 1 .. Len(stack') : (stack'[k].goal = "check" => k = 1)
                                             /\ \E f : f = stack'[k] /\ Fine(f)'
    BY <2>1 DEF StepInv
  <2>5. CASE Starts
    <3>1. PICK f \in Frames : /\ f.at = "connect" /\ f.stage = "auth"
                              /\ f.goal = "check" => stack = <<>>
                              /\ stack' = Append(stack, f)
      BY <2>5 DEF Starts
    <3>2. UNCHANGED <<total, unread>>
      BY <2>5 DEF Starts, Quiet
    <3>3. /\ Len(stack') = Len(stack) + 1 /\ Len(stack) \in Nat
          /\ \A k \in 1 .. Len(stack) : stack'[k] = stack[k]
          /\ stack'[Len(stack) + 1] = f
      BY <3>1, PushFrames
    <3>4. Fine(f)'
      BY <3>1 DEF Fine, Protocol
    <3>5. f.goal = "check" => Len(stack) = 0
      BY <3>1
    <3>6. \A k \in 1 .. Len(stack') : k \in 1 .. Len(stack) \/ k = Len(stack) + 1
      BY <3>3
    <3> QED
      BY <2>2, <2>3, <3>2, <3>3, <3>4, <3>5, <3>6
  <2>6. CASE Moves
    <3>1. PICK g \in Frames :
              /\ Len(stack') = Len(stack) /\ Len(stack) \in Nat \ {0}
              /\ \A k \in 1 .. Len(stack) - 1 : stack'[k] = stack[k]
              /\ stack'[Len(stack)] = g /\ stack[Len(stack)] = Top
              /\ g.goal = Top.goal /\ Fine(g)'
              /\ UNCHANGED <<total, unread>> \/ (Len(stack) = 1 /\ g.goal = "check" /\ g.at = "last")
      BY <2>6, MovesIs
    <3>2. \A k \in 1 .. Len(stack') : k \in 1 .. Len(stack) - 1 \/ k = Len(stack)
      BY <3>1
    <3> QED
      BY <2>2, <2>3, <3>1, <3>2
  <2>7. CASE Stops
    <3>1. /\ Len(stack') = Len(stack) - 1 /\ Len(stack) \in Nat \ {0}
          /\ \A k \in 1 .. Len(stack) - 1 : stack'[k] = stack[k]
          /\ UNCHANGED <<total, unread>> \/ Len(stack) = 1
      BY <2>7, StopsIs
    <3> QED
      BY <2>2, <2>3, <3>1
  <2>8. CASE UNCHANGED stack /\ Quiet
    BY <2>2, <2>3, <2>8 DEF Quiet
  <2> QED
    BY <1>1, <2>5, <2>6, <2>7, <2>8, SessionSteps
<1>2. CASE UNCHANGED vars
  <2>1. \A f : Fine(f)' <=> Fine(f)
    BY <1>2 DEF Fine, Protocol, LoggedOut, UnreadNumbers, vars
  <2> QED
    BY <1>2, <2>1 DEF StepInv, vars
<1> QED
  BY <1>1, <1>2

LEMMA StepAlways == Spec => []StepInv
<1>1. Init => StepInv
  BY DEF Init, StepInv
<1> QED
  BY <1>1, TypedAlways, StepNext, PTL DEF Spec

\* In every run, with any server, while answers are in time, every wait of a
\* session has an answer on its way, and mail is asked for only once the server
\* has accepted the login: whichever methods of pop3Login failed before.
THEOREM LoginSafety == Spec => []InStep
<1>1. Typed /\ StepInv => InStep
  <2> SUFFICES ASSUME Typed, StepInv, NEW f \in Sessions, ~f.late
               PROVE  /\ f.at \in Waits /\ (f.at = "top" => UnreadNumbers \subseteq 1 .. f.mail)
                            => f.wire # <<>>
                      /\ f.at \in {"stat", "last", "top"} => f.stage = "in"
    BY DEF InStep
  <2>1. Fine(f)
    BY DEF StepInv, Sessions
  <2>2. Protocol(f)
    BY <2>1 DEF Fine
  <2>3. \A x, y : <<x>> # <<>> /\ <<x, y>> # <<>>
    OBVIOUS
  <2>4. f.at = "top" /\ UnreadNumbers \subseteq 1 .. f.mail => f.wire # <<>>
    <3>1. f.at = "top" => f.i \in UnreadNumbers
      BY <2>1 DEF Fine
    <3>2. f.at = "top" /\ f.i \in 1 .. f.mail =>
              f.wire = <<Header(f.i), Dot>> \/ f.wire = <<Dot>>
      BY <2>2 DEF Protocol
    <3> QED
      BY <2>3, <3>1, <3>2
  <2>5. f.at \in Waits \ {"top"} => f.wire # <<>>
    BY <2>2, <2>3 DEF Protocol, LoggedOut, Waits
  <2> QED
    BY <2>2, <2>4, <2>5 DEF Protocol
<1> QED
  BY <1>1, TypedAlways, StepAlways, PTL

-----------------------------------------------------------------------------
(* The counters.                                                            *)

Tally ==
    /\ lastCheck.how = "done" => \/ lastCheck.late
                                 \/ total = lastCheck.mail /\ unread = lastCheck.unread
    /\ lastCheck.how = "failed" => total = -1 /\ unread = -1

Outcomes == [how : {"none", "done", "failed"}, late : BOOLEAN, mail : Int, unread : Int]

CountInv ==
    /\ lastCheck \in Outcomes
    /\ (\A k \in DOMAIN stack : stack[k].at # "last") => Tally

LEMMA CountSafe == Typed /\ CountInv => CountsAreTheServers
<1> SUFFICES ASSUME CountInv, \A f \in Sessions : f.at # "last"
             PROVE  CASE lastCheck.how = "done" ->
                           \/ lastCheck.late
                           \/ total = lastCheck.mail /\ unread = lastCheck.unread
                      [] lastCheck.how = "failed" -> total = -1 /\ unread = -1
                      [] OTHER -> TRUE
  BY DEF CountsAreTheServers
<1>1. Tally
  BY DEF CountInv, Sessions
<1>2. "done" # "failed"
  OBVIOUS
<1> QED
  BY <1>1, <1>2, Zenon DEF Tally

\* How a step leaves the verdict on the last check.
LEMMA Outcome ==
    ASSUME Typed, lastCheck \in Outcomes, Next
    PROVE  lastCheck' \in Outcomes
<1>1. [lastCheck EXCEPT !.how = "failed"] \in Outcomes
  BY DEF Outcomes
<1>2. CASE UNCHANGED lastCheck
  BY <1>2
<1>3. CASE ReadLast
  <2>1. stack # <<>>
    BY <1>3 DEF ReadLast, At
  <2>2. PICK r \in Reads :
          lastCheck' = [how |-> "done", late |-> r.frame.late, mail |-> Top.mail,
                        unread |-> Top.mail - IF setup.last THEN Top.seen ELSE 0]
    BY <1>3 DEF ReadLast
  <2>3. Top \in Frames /\ r.frame \in Frames
    BY <2>1, ReadsType, TopType
  <2>4. r.frame.late \in BOOLEAN /\ Top.mail \in Int /\ Top.seen \in Int
    BY <2>3 DEF Frames
  <2>5. PICK n \in Int : n = Top.mail - IF setup.last THEN Top.seen ELSE 0
    BY <2>4
  <2> QED
    BY <2>2, <2>4, <2>5 DEF Outcomes
<1>4. CASE Fail
  BY <1>1, <1>4 DEF Fail
<1>5. ASSUME NEW k, NEW f, TryAfter(k, f)
      PROVE  UNCHANGED lastCheck \/ Fail
  BY <1>5 DEF TryAfter
<1>6. ASSUME NEW f, LoggedIn(f)
      PROVE  UNCHANGED lastCheck
  BY <1>6 DEF LoggedIn
<1>7. UNCHANGED lastCheck \/ Fail \/ ReadLast
  <2>1. CASE Check \/ Popup \/ NoConnection \/ Connect \/ ReadTop \/ ReadLast
    BY <2>1 DEF Check, Popup, NoConnection, Connect, ReadTop, history
  <2>2. CASE ConnectTls
    <3>1. PICK s \in setup.tls :
            CASE Initialize(s, setup.opt) = "ready" ->
                       /\ \E fd \in Fds : Greets(fd, {s})
                       /\ UNCHANGED <<mailbox, ended, lastCheck>>
              [] Initialize(s, setup.opt) = "failed" -> Fail /\ UNCHANGED ended
              [] OTHER -> ended' = TRUE /\ UNCHANGED <<mailbox, stack, lastCheck>>
      BY <2>2, Zenon DEF ConnectTls
    <3> QED
      BY <3>1, Zenon
  <2>3. CASE ReadGreeting \/ ReadAuth \/ ReadResponse \/ ReadApop \/ ReadUser \/ ReadPass
             \/ ReadPassAgain
    BY <1>5, <1>6, <2>3 DEF ReadGreeting, ReadAuth, ReadResponse, ReadApop, ReadUser,
       ReadPass, ReadPassAgain
  <2>4. CASE ReadStat
    BY <2>4 DEF ReadStat
  <2> QED
    BY <2>1, <2>2, <2>3, <2>4 DEF Next
<1> QED
  BY <1>2, <1>3, <1>4, <1>7

LEMMA CountNext == Typed /\ StepInv /\ CountInv /\ [Next]_vars => CountInv'
<1> SUFFICES ASSUME Typed, StepInv, CountInv, [Next]_vars
             PROVE  CountInv'
  OBVIOUS
<1>1. CASE Next
  <2>1. stack \in Seq(Frames) /\ stack' \in Seq(Frames)
    BY <1>1, TypedNext DEF Typed
  <2>2. (\A k \in 1 .. Len(stack) : stack[k].at # "last") => Tally
    BY <2>1 DEF CountInv
  <2>3. SUFFICES ASSUME \A k \in 1 .. Len(stack') : stack'[k].at # "last"
                 PROVE  Tally'
    BY <1>1, <2>1, Outcome DEF CountInv
  <2>4. UNCHANGED <<total, unread, lastCheck>> => (Tally' <=> Tally)
    BY DEF Tally
  <2>5. CASE Starts
    <3>1. PICK f \in Frames : stack' = Append(stack, f)
      BY <2>5 DEF Starts
    <3>2. Len(stack') = Len(stack) + 1 /\ Len(stack) \in Nat
          /\ \A k \in 1 .. Len(stack) : stack'[k] = stack[k]
      BY <3>1, PushFrames
    <3>3. \A k \in 1 .. Len(stack) : stack[k].at # "last"
      BY <2>3, <3>2
    <3> QED
      BY <2>2, <2>4, <2>5, <3>3 DEF Starts, Quiet
  <2>6. CASE Moves
    <3>1. PICK g \in Frames :
              /\ Len(stack') = Len(stack) /\ Len(stack) \in Nat \ {0}
              /\ \A k \in 1 .. Len(stack) - 1 : stack'[k] = stack[k]
              /\ stack'[Len(stack)] = g /\ stack[Len(stack)] = Top
              /\ UNCHANGED <<total, unread>> \/ g.at = "last"
      BY <2>6, MovesIs
    <3>2. UNCHANGED <<total, unread>>
      BY <2>3, <3>1
    <3>3. Top.at # "last" /\ UNCHANGED lastCheck
      BY <2>6 DEF Moves
    <3>4. \A k \in 1 .. Len(stack) : stack[k].at # "last"
      <4>1. \A k \in 1 .. Len(stack) : k \in 1 .. Len(stack) - 1 \/ k = Len(stack)
        BY <3>1
      <4> QED
        BY <2>3, <3>1, <3>3, <4>1
    <3> QED
      BY <2>2, <2>4, <3>2, <3>3, <3>4
  <2>7. CASE Stops
    <3>1. /\ Len(stack') = Len(stack) - 1 /\ Len(stack) \in Nat \ {0}
          /\ \A k \in 1 .. Len(stack) - 1 : stack'[k] = stack[k]
          /\ stack[Len(stack)] = Top
      BY <2>7, StopsIs
    <3>2. CASE UNCHANGED <<total, unread, lastCheck>> /\ Top.at # "last"
      <4>1. \A k \in 1 .. Len(stack) : k \in 1 .. Len(stack) - 1 \/ k = Len(stack)
        BY <3>1
      <4>2. \A k \in 1 .. Len(stack) : stack[k].at # "last"
        BY <2>3, <3>1, <3>2, <4>1
      <4> QED
        BY <2>2, <2>4, <3>2, <4>2
    <3>3. CASE total' = -1 /\ unread' = -1 /\ lastCheck' = [lastCheck EXCEPT !.how = "failed"]
      <4>1. lastCheck'.how = "failed"
        BY <3>3 DEF CountInv, Outcomes
      <4> QED
        BY <3>3, <4>1 DEF Tally
    <3>4. CASE /\ lastCheck'.how = "done"
               /\ ~lastCheck'.late => total' = lastCheck'.mail /\ unread' = lastCheck'.unread
      BY <3>4 DEF Tally
    <3> QED
      BY <2>7, <3>2, <3>3, <3>4 DEF Stops
  <2>8. CASE UNCHANGED stack /\ Quiet
    BY <2>2, <2>3, <2>4, <2>8 DEF Quiet
  <2> QED
    BY <1>1, <2>5, <2>6, <2>7, <2>8, SessionSteps
<1>2. CASE UNCHANGED vars
  BY <1>2 DEF CountInv, Tally, vars
<1> QED
  BY <1>1, <1>2

\* After a check whose answers were in time the counters are those of that
\* session, whatever popups ran inside it, and after one that failed they are
\* forgotten (pop3CheckMail, count_mail): for any number of messages.
THEOREM CountSafety == Spec => []CountsAreTheServers
<1>1. Init => CountInv
  BY DEF Init, CountInv, Outcomes, Tally
<1> QED
  BY <1>1, TypedAlways, StepAlways, CountNext, CountSafe, PTL DEF Spec

-----------------------------------------------------------------------------
(* The list of headers.                                                     *)

OrderInv ==
    setup.apart => \A k \in DOMAIN stack :
                      /\ stack[k].goal = "headers" => k = Len(stack)
                      /\ stack[k].at = "top" => Listed(stack[k])

LEMMA OrderNext == Typed /\ StepInv /\ OrderInv /\ [Next]_vars => OrderInv'
<1> SUFFICES ASSUME Typed, StepInv, OrderInv, [Next]_vars
             PROVE  OrderInv'
  OBVIOUS
<1>1. CASE Next
  <2>1. UNCHANGED setup /\ stack \in Seq(Frames) /\ stack' \in Seq(Frames)
    BY <1>1, Steps, TypedNext DEF Typed
  <2>2. SUFFICES ASSUME setup.apart
                 PROVE  \A k \in 1 .. Len(stack') :
                            /\ stack'[k].goal = "headers" => k = Len(stack')
                            /\ stack'[k].at = "top" => \E f : f = stack'[k] /\ Listed(f)'
    <3>1. setup.apart' = setup.apart /\ DOMAIN stack' = 1 .. Len(stack')
      BY <2>1
    <3> QED
      BY <2>1, <3>1 DEF OrderInv
  <2>3. \A k \in 1 .. Len(stack) : /\ stack[k].goal = "headers" => k = Len(stack)
                                   /\ stack[k].at = "top" => Listed(stack[k])
                                   /\ stack[k].at = "top" => stack[k].goal = "headers"
    BY <2>1, <2>2 DEF OrderInv, StepInv, Fine
  <2>4. ASSUME Quiet, NEW f
        PROVE  Listed(f) => Listed(f)'
    BY <2>4 DEF Quiet, Listed, UnreadNumbers, First
  <2>5. CASE Starts
    <3>1. PICK f \in Frames :
              /\ f.goal = "check" => stack = <<>>
              /\ setup.apart /\ f.goal = "headers" =>
                    \A k \in DOMAIN stack : stack[k].goal = "check"
              /\ stack' = Append(stack, f) /\ f.at = "connect"
      BY <2>5 DEF Starts
    <3>2. /\ Len(stack') = Len(stack) + 1 /\ Len(stack) \in Nat
          /\ \A k \in 1 .. Len(stack) : stack'[k] = stack[k]
          /\ stack'[Len(stack) + 1] = f
      BY <3>1, PushFrames
    <3>3. \A k \in 1 .. Len(stack) : stack[k].goal = "check"
      <4>1. CASE f.goal = "check"
        BY <3>1, <4>1
      <4>2. CASE f.goal = "headers"
        <5>1. \A k \in DOMAIN stack : stack[k].goal = "check"
          BY <2>2, <3>1, <4>2
        <5> QED
          BY <2>1, <5>1
      <4> QED
        BY <4>1, <4>2 DEF Frames
    <3>4. \A k \in 1 .. Len(stack') : k \in 1 .. Len(stack) \/ k = Len(stack) + 1
      BY <3>2
    <3> QED
      BY <2>3, <3>1, <3>2, <3>3, <3>4
  <2>6. CASE Moves
    <3>1. PICK g \in Frames :
              /\ Len(stack') = Len(stack) /\ Len(stack) \in Nat \ {0}
              /\ \A k \in 1 .. Len(stack) - 1 : stack'[k] = stack[k]
              /\ stack'[Len(stack)] = g /\ stack[Len(stack)] = Top
              /\ g.at = "top" /\ (Top.at = "top" => Listed(Top)) => Listed(g)'
      BY <2>6, MovesIs
    <3>2. \A k \in 1 .. Len(stack) - 1 : stack[k].goal # "headers" /\ stack[k].at # "top"
      BY <2>3, <3>1
    <3>3. Top.at = "top" => Listed(Top)
      BY <2>3, <3>1
    <3>4. \A k \in 1 .. Len(stack') : k \in 1 .. Len(stack) - 1 \/ k = Len(stack)
      BY <3>1
    <3> QED
      BY <3>1, <3>2, <3>3, <3>4
  <2>7. CASE Stops
    <3>1. /\ Len(stack') = Len(stack) - 1 /\ Len(stack) \in Nat \ {0}
          /\ \A k \in 1 .. Len(stack) - 1 : stack'[k] = stack[k]
      BY <2>7, StopsIs
    <3>2. \A k \in 1 .. Len(stack) - 1 : stack[k].goal # "headers" /\ stack[k].at # "top"
      BY <2>3, <3>1
    <3> QED
      BY <3>1, <3>2
  <2>8. CASE UNCHANGED stack /\ Quiet
    BY <2>3, <2>4, <2>8
  <2> QED
    BY <1>1, <2>5, <2>6, <2>7, <2>8, SessionSteps
<1>2. CASE UNCHANGED vars
  <2>1. \A f : Listed(f)' <=> Listed(f)
    BY <1>2 DEF Listed, UnreadNumbers, First, vars
  <2> QED
    BY <1>2, <2>1 DEF OrderInv, vars
<1> QED
  BY <1>1, <1>2

LEMMA OrderSafe == Typed /\ OrderInv => HeadersInOrder
<1> SUFFICES ASSUME Typed, OrderInv, NEW k \in DOMAIN stack,
                    stack[k].at = "top", ~stack[k].late, setup.apart,
                    UnreadNumbers \subseteq 1 .. stack[k].mail
             PROVE  cache = [j \in 1 .. stack[k].i - (total - unread + 1) |-> stack[k].i - j]
  BY DEF HeadersInOrder, Sessions
<1>1. Listed(stack[k])
  BY DEF OrderInv
<1> QED
  BY <1>1 DEF Listed, First

\* While answers are in time and nobody presses during a fetch, the list that
\* pop_getHeaders builds has the unread messages so far, newest first and none
\* twice: however many there are.
THEOREM ListSafety == Spec => []HeadersInOrder
<1>1. Init => OrderInv
  BY DEF Init, OrderInv
<1> QED
  BY <1>1, TypedAlways, StepAlways, OrderNext, OrderSafe, PTL DEF Spec
=============================================================================
