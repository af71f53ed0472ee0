----------------------------- MODULE PasswordMgr -----------------------------
(***************************************************************************)
(* passwordMgr.c and its two callers, the login code of the IMAP and of the *)
(* POP3 client, for mailboxes whose password is asked of the user.          *)
(*                                                                         *)
(* The cache is the linked list of the C code: nodes, their next pointers   *)
(* and the head pass_list.  A login that waits for its server serves X      *)
(* events, and an event may open another mailbox, so logins nest: the       *)
(* frames of the nested calls are a stack and only the top one runs.        *)
(***************************************************************************)
EXTENDS Naturals, Sequences, FiniteSets

CONSTANTS
    Boxes,          \* mailboxes with an interactive password
    Accounts,       \* <<user, server>> pairs
    Setups,         \* the surroundings the program may be run in: see Setup
    Typed,          \* what the user may type: see Passwords
    Nodes, NULL     \* heap addresses of password bindings

\* Passwords the user may type, as far as the code tells them apart: the
\* empty line, a password that starts with '*', and others.
Passwords == {"empty", "star", "plain", "other"}
Unknown == "unknown"

\* open:      the mailboxes that are used
\* pop3:      those of them that use POP3
\* accountOf: the account of each mailbox
\* rejects:   the passwords the servers may refuse
\* depth:     BOUND: how deep logins nest
Setup == [open : SUBSET Boxes, pop3 : SUBSET Boxes, accountOf : [Boxes -> Accounts],
          rejects : SUBSET Passwords, depth : Nat \ {0}]

ASSUME PasswordAssumption ==
    /\ Setups \subseteq Setup
    /\ Typed \subseteq Passwords
    /\ IsFiniteSet(Nodes)
    /\ NULL \notin Nodes \union Accounts

VARIABLES
    setup,          \* never changes
    passList,       \* pass_list
    next,           \* the next member of each binding
    binding,        \* its account, or NULL while the binding is not allocated
    stored,         \* its password, frobnicated in the program
    password,       \* PCU.password of each mailbox, "empty" when it is ""
    enabled,        \* checkMail # NULL
    stack,          \* the logins under way, innermost last
    exited,         \* the user cancelled: exit(EXIT_FAILURE)
    refused         \* HISTORY: accounts whose stored password a server refused

list == <<passList, next, binding, stored>>
vars == <<setup, list, password, enabled, stack, exited, refused>>

-----------------------------------------------------------------------------
\* A login: its mailbox, where it is, passwordFor's p, the flush flag, and
\* the password that was sent to the server.
Frame(b, at, p, flush, sent) ==
    [box |-> b, at |-> at, p |-> p, flush |-> flush, sent |-> sent]
Ask(b, flush) == Frame(b, "walk", passList, flush, "empty")
Send(b, flush, pw) == Frame(b, "login", NULL, flush, pw)

Top == stack[Len(stack)]
Box == Top.box
Account == setup.accountOf[Box]
Pop3(b) == b \in setup.pop3
Below == SubSeq(stack, 1, Len(stack) - 1)
At(where) == stack # <<>> /\ ~exited /\ Top.at = where
Goto(f) == stack' = Append(Below, f)
Return == stack' = Below

\* memfrob() turns '*' into NUL: the first byte of such a password, once
\* frobnicated, reads '\0'.
LooksEmpty(pw) == pw \in {"empty", "star"}

Init ==
    /\ setup \in Setups
    /\ passList = NULL
    /\ next = [n \in Nodes |-> NULL]
    /\ binding = [n \in Nodes |-> NULL]
    /\ stored = [n \in Nodes |-> "empty"]
    /\ password = [b \in Boxes |-> "empty"]
    /\ enabled = [b \in Boxes |-> TRUE]
    /\ stack = <<>>
    /\ exited = FALSE
    /\ refused = {}

\* The poll, or a button press while the innermost login waits, opens the
\* connection of mailbox b.  IMAP asks for a password before LOGIN if the
\* mailbox's, kept frobnicated too, looks empty; POP3 sends PASS with what it has.
OpenAskingAgain(b) ==                                              \* mutant
    /\ ~exited
    /\ b \in setup.open
    /\ Len(stack) < setup.depth
    /\ stack # <<>> => Top.at = "login"
    /\ stack' = Append(stack, IF ~Pop3(b) THEN Ask(b, TRUE)
                              ELSE Send(b, FALSE, password[b]))
    /\ UNCHANGED <<setup, list, password, enabled, exited, refused>>
Open(b) ==
    /\ ~exited
    /\ b \in setup.open
    /\ Len(stack) < setup.depth
    /\ stack # <<>> => Top.at = "login"
    /\ stack' = Append(stack, IF LooksEmpty(password[b]) /\ ~Pop3(b)
                              THEN Ask(b, FALSE) ELSE Send(b, FALSE, password[b]))
    /\ UNCHANGED <<setup, list, password, enabled, exited, refused>>

\* The for loop of passwordFor.
WalkInPlace ==                                                     \* mutant
    /\ At("walk")
    /\ Top.p # NULL
    /\ binding[Top.p] # Account
    /\ Goto(Top)
    /\ UNCHANGED <<setup, list, password, enabled, exited, refused>>
Walk ==
    /\ At("walk")
    /\ Top.p # NULL
    /\ binding[Top.p] # Account
    /\ Goto([Top EXCEPT !.p = next[Top.p]])
    /\ UNCHANGED <<setup, list, password, enabled, exited, refused>>

\* The walk has arrived at a binding for the account.
Found == Top.p # NULL /\ binding[Top.p] = Account

\* A binding with a usable password, and no order to flush it.
Hit ==
    /\ At("walk")
    /\ Found
    /\ ~LooksEmpty(stored[Top.p])
    /\ ~Top.flush
    /\ password' = [password EXCEPT ![Box] = stored[Top.p]]
    /\ Goto(Send(Box, FALSE, stored[Top.p]))
    /\ UNCHANGED <<setup, list, enabled, exited, refused>>

\* "if we've asked, but received nothing, disable this box"
Disable ==
    /\ At("walk")
    /\ Found
    /\ LooksEmpty(stored[Top.p])
    /\ enabled' = [enabled EXCEPT ![Box] = FALSE]
    /\ Goto(Send(Box, Top.flush, password[Box]))
    /\ UNCHANGED <<setup, list, password, exited, refused>>

\* get_password_from_command got an answer: it is written to binding n, and
\* the binding is put in front of the list, whether or not it was in it.
AnswerUnlinked(n, pw) ==                                           \* mutant
    /\ binding' = [binding EXCEPT ![n] = Account]
    /\ stored' = [stored EXCEPT ![n] = pw]
    /\ passList' = n
    /\ password' = [password EXCEPT ![Box] = pw]
    /\ refused' = refused \ {Account}
    /\ Goto(Send(Box, Top.flush, pw))
    /\ UNCHANGED <<setup, next, enabled, exited>>
Answer(n, pw) ==
    /\ binding' = [binding EXCEPT ![n] = Account]
    /\ stored' = [stored EXCEPT ![n] = pw]
    /\ next' = [next EXCEPT ![n] = passList]
    /\ passList' = n
    /\ password' = [password EXCEPT ![Box] = pw]
    /\ refused' = refused \ {Account}
    /\ Goto(Send(Box, Top.flush, pw))
    /\ UNCHANGED <<setup, enabled, exited>>

\* No binding: malloc one.
Miss ==
    /\ At("walk")
    /\ Top.p = NULL
    /\ \E n \in Nodes, pw \in Typed : binding[n] = NULL /\ Answer(n, pw)

\* A binding to flush: "else fall through, overwrite".
FlushAfresh ==                                                     \* mutant
    /\ At("walk")
    /\ Found
    /\ ~LooksEmpty(stored[Top.p])
    /\ Top.flush
    /\ \E n \in Nodes, pw \in Typed : binding[n] = NULL /\ Answer(n, pw)
Flush ==
    /\ At("walk")
    /\ Found
    /\ ~LooksEmpty(stored[Top.p])
    /\ Top.flush
    /\ \E pw \in Typed : Answer(Top.p, pw)

\* The user cancels the question.
Cancel ==
    /\ At("walk")
    /\ Top.p = NULL \/ (Found /\ ~LooksEmpty(stored[Top.p]) /\ Top.flush)
    /\ exited' = TRUE
    /\ UNCHANGED <<setup, list, password, enabled, stack, refused>>

\* The server accepts the login, or does not answer: either ends it.
Accepted ==
    /\ At("login")
    /\ Top.sent # "empty"
    /\ Return
    /\ UNCHANGED <<setup, list, password, enabled, exited, refused>>

Silent ==
    /\ At("login")
    /\ Return
    /\ UNCHANGED <<setup, list, password, enabled, exited, refused>>

\* The server refuses the password it was sent.
Refuse ==
    /\ At("login")
    /\ Top.sent \in setup.rejects \union {"empty"}
    /\ refused' = IF \E n \in Nodes : binding[n] = Account /\ stored[n] = Top.sent
                  THEN refused \union {Account} ELSE refused

\* IMAP forgets the password, asks again with the order to overwrite the
\* cache, and sends LOGIN again.
LoginRefused ==
    /\ Refuse
    /\ ~Pop3(Box)
    /\ password' = [password EXCEPT ![Box] = "empty"]
    /\ Goto(Ask(Box, TRUE))
    /\ UNCHANGED <<setup, list, enabled, exited>>

\* POP3 asks only when the server says a password is required, always with
\* the order to overwrite the cache, and sends PASS once more.
PasswordRequired ==
    /\ At("login")
    /\ Pop3(Box)
    /\ Top.sent = "empty"
    /\ ~Top.flush
    /\ password' = [password EXCEPT ![Box] = "empty"]
    /\ Goto(Ask(Box, TRUE))
    /\ UNCHANGED <<setup, list, enabled, exited, refused>>

PassRefused ==
    /\ Refuse
    /\ Pop3(Box)
    /\ Return
    /\ UNCHANGED <<setup, list, password, enabled, exited>>

Lookup == Walk \/ Hit \/ Disable \/ Miss \/ Flush
Server == Accepted \/ Silent \/ LoginRefused \/ PasswordRequired \/ PassRefused
Next == Lookup \/ Cancel \/ Server \/ \E b \in Boxes : Open(b)

\* The program runs, the user answers, and a server answers or times out.
Spec == Init /\ [][Next]_vars /\ WF_vars(Lookup) /\ WF_vars(Server)

-----------------------------------------------------------------------------
\* TYPES.
TypeOK ==
    /\ setup \in Setups
    /\ passList \in Nodes \union {NULL}
    /\ next \in [Nodes -> Nodes \union {NULL}]
    /\ binding \in [Nodes -> Accounts \union {NULL}]
    /\ stored \in [Nodes -> Passwords]
    /\ password \in [Boxes -> Passwords]
    /\ enabled \in [Boxes -> BOOLEAN]
    /\ stack \in Seq([box : Boxes, at : {"walk", "login"}, p : Nodes \union {NULL},
                      flush : BOOLEAN, sent : Passwords])
    /\ Len(stack) <= setup.depth
    /\ exited \in BOOLEAN
    /\ refused \subseteq Accounts

\* The first k bindings a walk from pass_list meets, and what a lookup of
\* account a would find among them.
Walked(head, succ) ==
    LET met[k \in Nat] == IF k = 0 THEN head
                          ELSE IF met[k - 1] = NULL THEN NULL ELSE succ[met[k - 1]]
    IN met
Met == Walked(passList, next)
CacheOf(a) ==
    LET found == {k \in 0 .. Cardinality(Nodes) : Met[k] # NULL /\ binding[Met[k]] = a}
    IN IF found = {} THEN Unknown
       ELSE stored[Met[CHOOSE k \in found : \A l \in found : k <= l]]

\* The list implements the cache of PasswordCache: an answer for one account
\* is what later lookups of it find, and it forgets no other account's.
Cache == INSTANCE PasswordCache WITH cache <- [a \in Accounts |-> CacheOf(a)]
ImplementsCache == Cache!Spec

\* The mailboxes of one account share one binding.
OneBindingEach ==
    \A m, n \in Nodes : binding[m] # NULL /\ binding[m] = binding[n] => m = n

\* "allow multiple wmbiff mailboxes that are otherwise independent get all their
\* passwords while only asking the user for an account's password once"
\* (passwordMgr.c:4-7): a remembered password is asked for again only if a
\* server refused it.  POP3 mailboxes do not keep to it.
AskedOnce == [][Flush => Account \in refused]_vars

\* What is left of it.  POP3 gives every question the order to overwrite the
\* cache (Pop3Client.c:429), and so asks again for whatever it finds there; an
\* IMAP login asks again only if a server refused the remembered password,
\* whatever POP3 mailboxes of the same account have put there meanwhile.
ImapAsksOnce == [][Flush => Account \in refused \/ Pop3(Box)]_vars

\* Every call of passwordFor returns, asks the user, or ends the program.
LookupReturns == At("walk") ~> ~At("walk")
=============================================================================
