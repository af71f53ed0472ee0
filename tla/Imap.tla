-------------------------------- MODULE Imap --------------------------------
(***************************************************************************)
(* Imap4Client.c: the connections its mailboxes share.  fdmap keeps one     *)
(* connection per account; a check or a header popup takes the connection   *)
(* of its mailbox's account from it, or opens one, and removes it when the  *)
(* server does not answer.                                                  *)
(*                                                                         *)
(* Every wait for a server serves X events, and a button press may ask for  *)
(* the headers of a mailbox: the calls nest, and the ones below keep the    *)
(* connection they took.  The frames of the calls are a stack; only the     *)
(* top one runs.  Which connection a frame holds is an address: a freed     *)
(* one may be given to the next connection that is opened.                  *)
(***************************************************************************)
EXTENDS Naturals, Sequences, FiniteSets

CONSTANTS
    Boxes, Accounts,    \* IMAP mailboxes, and user|server|port strings
    Setups,             \* the configurations the program may have: see Setup
    FDMAP_SIZE,         \* length of fdmap
    Conns, NULL         \* heap addresses of connection states

\* accountOf: the account of each mailbox
\* popups:    the mailboxes with a "msglst" action, which also cache headers
\* depth:     BOUND: how deep calls nest
Setup == [accountOf : [Boxes -> Accounts], popups : SUBSET Boxes, depth : Nat \ {0}]

ASSUME ImapAssumption ==
    /\ Setups \subseteq Setup
    /\ FDMAP_SIZE \in Nat \ {0}
    /\ NULL \notin Conns /\ NULL \notin Accounts
    /\ IsFiniteSet(Boxes)

VARIABLES
    setup,      \* never changes
    fdmap,      \* the connection cache
    open,       \* the connections that are allocated
    stack,      \* the calls under way, innermost last
    ended       \* "no", "exit": out of slots, "crash": NULL was closed

vars == <<setup, fdmap, open, stack, ended>>

Slots == 1 .. FDMAP_SIZE
Slot(id, cs) == [id |-> id, cs |-> cs]
Free == Slot(NULL, NULL)

\* A call: its mailbox, what it is after, the wait it is in, the variable scs.
Frame(b, goal, at, cs) == [box |-> b, goal |-> goal, at |-> at, cs |-> cs]
Waits == {"login", "status", "examine", "search", "fetch"}

Top == stack[Len(stack)]
Below == SubSeq(stack, 1, Len(stack) - 1)
At(where) == stack # <<>> /\ Top.at = where /\ ended = "no"
Goto(f) == stack' = Append(Below, f)
Return == stack' = Below
Account(b) == setup.accountOf[b]

\* state_for_pcu: the last slot of the account wins.
StateFor(map, b) ==
    LET mine == {s \in Slots : map[s].id = Account(b)}
    IN IF mine = {} THEN NULL
       ELSE map[CHOOSE s \in mine : \A t \in mine : t <= s].cs

\* With connection cs, a check asks for the STATUS and a popup EXAMINEs.
Request(b, goal, cs) ==
    Frame(b, goal, IF goal = "check" THEN "status" ELSE "examine", cs)

EnterAfresh(b, goal) == Frame(b, goal, "connect", NULL)            \* mutant
\* The start of imap_checkmail and of imap_cacheHeaders.
Enter(b, goal) ==
    IF StateFor(fdmap, b) = NULL THEN Frame(b, goal, "connect", NULL)
                                 ELSE Request(b, goal, StateFor(fdmap, b))

Init ==
    /\ setup \in Setups
    /\ fdmap = [s \in Slots |-> Free]
    /\ open = {}
    /\ stack = <<>>
    /\ ended = "no"

-----------------------------------------------------------------------------
\* The loop checks mailbox b.
Poll(b) ==
    /\ ended = "no"
    /\ stack = <<>>
    /\ stack' = <<Enter(b, "check")>>
    /\ UNCHANGED <<setup, fdmap, open, ended>>

\* The user presses a button on mailbox b, whose headers are not cached.
Popup(b) ==
    /\ ended = "no"
    /\ stack # <<>> => Top.at \in Waits
    /\ b \in setup.popups
    /\ Len(stack) < setup.depth
    /\ stack' = Append(stack, Enter(b, "headers"))
    /\ UNCHANGED <<setup, fdmap, open, ended>>

\* sock_connect works, and a connection state is allocated; or it fails.
Connect ==
    /\ At("connect")
    /\ \E c \in Conns \ open :
          /\ open' = open \union {c}
          /\ Goto([Top EXCEPT !.at = "login", !.cs = c])
    /\ UNCHANGED <<setup, fdmap, ended>>

NoConnection ==
    /\ At("connect")
    /\ Return
    /\ UNCHANGED <<setup, fdmap, open, ended>>

\* The caller of imap_open looks for the connection in the cache.
Continue(map) ==
    IF StateFor(map, Top.box) = NULL THEN Return
    ELSE Goto(Request(Top.box, Top.goal, StateFor(map, Top.box)))

Unused == {s \in Slots : fdmap[s].cs = NULL}

\* bind_state_to_pcu: the first free slot, or the end of the program.
LoginWorks ==
    /\ At("login")
    /\ IF Unused = {} THEN ended' = "exit" /\ UNCHANGED <<fdmap, stack>>
       ELSE LET s == CHOOSE s \in Unused : \A t \in Unused : s <= t
            IN /\ fdmap' = [fdmap EXCEPT ![s] = Slot(Account(Top.box), Top.cs)]
               /\ Continue(fdmap')
               /\ ended' = ended
    /\ UNCHANGED <<setup, open>>

LoginFailsOpen ==                                                  \* mutant
    /\ At("login")
    /\ Continue(fdmap)
    /\ UNCHANGED <<setup, open, fdmap, ended>>
LoginFails ==
    /\ At("login")
    /\ open' = open \ {Top.cs}
    /\ Continue(fdmap)
    /\ UNCHANGED <<setup, fdmap, ended>>

\* STATUS is answered.  If the counts changed, a mailbox with a popup caches
\* its headers, with whatever connection there is by now.
StatusAnswered ==
    /\ At("status")
    /\ \/ Return
       \/ Top.box \in setup.popups /\ Goto(Enter(Top.box, "headers"))
    /\ UNCHANGED <<setup, fdmap, open, ended>>

ExamineAnswered ==
    /\ At("examine")
    /\ Goto([Top EXCEPT !.at = "search"])
    /\ UNCHANGED <<setup, fdmap, open, ended>>

\* SEARCH found messages to fetch, or none.
SearchAnswered ==
    /\ At("search")
    /\ \/ Return
       \/ Goto([Top EXCEPT !.at = "fetch"])
    /\ UNCHANGED <<setup, fdmap, open, ended>>

\* The last header is in, or the server does not send one.
Fetched ==
    /\ At("fetch")
    /\ Return
    /\ UNCHANGED <<setup, fdmap, open, ended>>

\* tlscomm_close(unbind(scs)): unbind returns NULL for a connection that is
\* not in the cache, and closing NULL ends the program.
CloseBound(c) ==                                                   \* mutant
    LET bound == {s \in Slots : fdmap[s].cs = c}
    IN IF bound = {} THEN ended' = "crash" /\ UNCHANGED <<fdmap, open>>
       ELSE open' = open \ {c} /\ UNCHANGED <<fdmap, ended>>
UnbindNameOnly(c) ==                                               \* mutant
    LET bound == {s \in Slots : fdmap[s].cs = c}
    IN IF bound = {} THEN ended' = "crash" /\ UNCHANGED <<fdmap, open>>
       ELSE LET s == CHOOSE s \in bound : \A t \in bound : s <= t
            IN /\ fdmap' = [fdmap EXCEPT ![s].id = NULL]
               /\ open' = open \ {c}
               /\ ended' = ended
Drop(c) ==
    LET bound == {s \in Slots : fdmap[s].cs = c}
    IN IF bound = {} THEN ended' = "crash" /\ UNCHANGED <<fdmap, open>>
       ELSE LET s == CHOOSE s \in bound : \A t \in bound : s <= t
            IN /\ fdmap' = [fdmap EXCEPT ![s] = Free]
               /\ open' = open \ {c}
               /\ ended' = ended

\* No answer to STATUS, EXAMINE or SEARCH within EXPECT_TIMEOUT.
NoAnswer ==
    /\ \E at \in {"status", "examine", "search"} : At(at)
    /\ Drop(Top.cs)
    /\ Return
    /\ UNCHANGED setup

Next ==
    \/ \E b \in Boxes : Poll(b) \/ Popup(b)
    \/ Connect \/ NoConnection \/ LoginWorks \/ LoginFails
    \/ StatusAnswered \/ ExamineAnswered \/ SearchAnswered \/ Fetched \/ NoAnswer

Spec == Init /\ [][Next]_vars
-----------------------------------------------------------------------------
\* TYPES.
TypeOK ==
    /\ setup \in Setups
    /\ fdmap \in [Slots -> [id : Accounts \union {NULL}, cs : Conns \union {NULL}]]
    /\ open \subseteq Conns
    /\ stack \in Seq([box : Boxes, goal : {"check", "headers"},
                      at : Waits \union {"connect"}, cs : Conns \union {NULL}])
    /\ ended \in {"no", "exit", "crash"}

\* The cache never hands out a connection that was closed: a used slot holds
\* an allocated connection, no two slots the same, and a free slot has no name.
SlotsHoldOpenConnections ==
    /\ \A s \in Slots : \/ fdmap[s] = Free
                        \/ fdmap[s].id # NULL /\ fdmap[s].cs \in open
    /\ \A s, t \in Slots : fdmap[s].cs = fdmap[t].cs /\ fdmap[s].cs # NULL => s = t

\* No connection is forgotten: each one is in the cache, or the call that is
\* logging in over it will put it there or close it.
NothingLeaks ==
    \A c \in open :
        \/ \E s \in Slots : fdmap[s].cs = c
        \/ \E k \in 1 .. Len(stack) : stack[k].at = "login" /\ stack[k].cs = c

\* Without popups, the mailboxes of an account share one connection, so the
\* cache never overflows while it has a slot for every account.
OneSocketPerAccount ==
    setup.popups = {} =>
        /\ \A s, t \in Slots : fdmap[s].id = fdmap[t].id /\ fdmap[s].id # NULL => s = t
        /\ Cardinality({Account(b) : b \in Boxes}) <= FDMAP_SIZE => ended # "exit"

\* tlsComm.c: a connection is closed only once.
ClosedOnce == ended # "crash"
=============================================================================
