------------------------------ MODULE MsgList ------------------------------
(***************************************************************************)
(* MessageList.c and the header caches of Imap4Client.c and Pop3Client.c:   *)
(* the lists of message headers, who may free them, and the popup window    *)
(* that shows one while a button is held.                                   *)
(*                                                                         *)
(* A mailbox keeps one list, headerCache.  in_use of the list's first       *)
(* message is a one-bit count: imap_getHeaders sets it when the popup takes *)
(* the list, imap_releaseHeaders takes it back, and frees the list if it    *)
(* was clear.  Every wait for a server serves X events, so a press or a     *)
(* release may come while a list is being fetched: the calls are a stack.   *)
(*                                                                         *)
(* A list is the sequence of the addresses of its messages.  An address     *)
(* that something still points to is not given out again; using it is an    *)
(* error in any case.                                                       *)
(***************************************************************************)
EXTENDS Naturals, Sequences, SequencesExt, FiniteSets

CONSTANTS
    ImapBoxes, PopBoxes,    \* the mailboxes with a "msglst" action
    NoBox,                  \* NULL
    Nodes,                  \* BOUND: addresses of messages
    MaxMsgs,                \* BOUND: the new messages of a mailbox
    Depth,                  \* BOUND: how deep calls nest
    Setups                  \* what the user does: a subset of Presses

Boxes == ImapBoxes \union PopBoxes

\* calm:  presses when the program is idle and no popup is open
\* apart: presses at any time, but not on a mailbox that is fetching headers
\* any:   presses at any time
Presses == {"calm", "apart", "any"}

ASSUME MsgListAssumption ==
    /\ ImapBoxes \intersect PopBoxes = {} /\ NoBox \notin Boxes
    /\ MaxMsgs \in Nat \ {0} /\ Depth \in Nat \ {0}
    /\ Setups \subseteq Presses

VARIABLES
    presses,    \* never changes
    live,       \* the messages that are allocated
    inUse,      \* in_use of each
    cache,      \* headerCache of each mailbox
    newwin,     \* is newwin a window?
    Headers,    \* the list it shows
    Active_pc,  \* the mailbox that was pressed last
    unlinked,   \* history: the messages whose FETCH was not answered
    stack       \* the calls under way, innermost last

vars == <<presses, live, inUse, cache, newwin, Headers, Active_pc, unlinked, stack>>

\* A call: its mailbox, whether the loop or a popup made it, and its wait.
Frame(b, why, at) == [box |-> b, why |-> why, at |-> at]

Top == stack[Len(stack)]
At(where) == stack # <<>> /\ Top.at = where
Goto(at) == stack' = Append(Front(stack), [Top EXCEPT !.at = at])

Init ==
    /\ presses \in Setups
    /\ live = {} /\ inUse = [m \in Nodes |-> 0]
    /\ cache = [b \in Boxes |-> <<>>]
    /\ newwin = FALSE /\ Headers = <<>> /\ Active_pc = NoBox
    /\ unlinked = {}
    /\ stack = <<>>

-----------------------------------------------------------------------------
ReleaseAtOnce(list) ==                                             \* mutant
    /\ live' = live \ ToSet(list)
    /\ inUse' = inUse
ReleaseUnchecked(list) ==                                          \* mutant
    IF list = <<>> THEN UNCHANGED <<live, inUse>>
    ELSE /\ inUse' = [inUse EXCEPT ![Head(list)] = @ - 1]
         /\ live' = IF inUse'[Head(list)] < 0 THEN live \ ToSet(list) ELSE live
\* imap_releaseHeaders.
Release(list) ==
    IF list # <<>> /\ inUse[Head(list)] > 0
    THEN inUse' = [inUse EXCEPT ![Head(list)] = @ - 1] /\ live' = live
    ELSE live' = live \ ToSet(list) /\ inUse' = inUse

ShowUncounted(b) ==                                                \* mutant
    Headers' = cache[b] /\ newwin' = TRUE /\ inUse' = inUse
\* imap_getHeaders found or cached a list, or none; msglst_show opens a window.
Show(b) ==
    /\ Headers' = cache[b]
    /\ newwin' = TRUE
    /\ inUse' = IF cache[b] = <<>> THEN inUse ELSE [inUse EXCEPT ![Head(cache[b])] = 1]

\* The innermost call returns; if a popup made it, its list is shown.
Finish ==
    /\ stack' = Front(stack)
    /\ IF Top.why = "popup" THEN Show(Top.box) ELSE UNCHANGED <<Headers, newwin, inUse>>

\* The user presses a button on mailbox b.
MayPress(b) ==
    \/ presses = "calm" /\ stack = <<>> /\ ~newwin
    \/ presses = "apart" /\ ~\E k \in 1 .. Len(stack) : stack[k].box = b /\ stack[k].at = "fetch"
    \/ presses = "any"

PressCached(b) ==
    /\ MayPress(b)
    /\ cache[b] # <<>>
    /\ Show(b)
    /\ Active_pc' = b
    /\ UNCHANGED <<presses, live, cache, unlinked, stack>>

PressAndFetch(b) ==
    /\ MayPress(b)
    /\ cache[b] = <<>>
    /\ Len(stack) < Depth
    /\ stack' = Append(stack, Frame(b, "popup", "login"))
    /\ Active_pc' = b
    /\ UNCHANGED <<presses, live, inUse, cache, newwin, Headers, unlinked>>

\* A button is released: msglst_hide.  Only IMAP mailboxes have a
\* releaseHeaders; the list of a POP3 mailbox keeps its mark.
Hide ==
    /\ newwin
    /\ newwin' = FALSE
    /\ Headers' = <<>>
    /\ IF Active_pc \in ImapBoxes THEN Release(Headers) ELSE UNCHANGED <<live, inUse>>
    /\ UNCHANGED <<presses, cache, Active_pc, unlinked, stack>>

\* The loop checks an IMAP mailbox; if its counts changed its headers are
\* cached anew.
Poll(b) ==
    /\ stack = <<>>
    /\ stack' = <<Frame(b, "check", "status")>>
    /\ UNCHANGED <<presses, live, inUse, cache, newwin, Headers, Active_pc, unlinked>>

StatusSame ==
    /\ At("status")
    /\ Finish
    /\ UNCHANGED <<presses, live, cache, Active_pc, unlinked>>

StatusChanged ==
    /\ At("status")
    /\ Goto("login")
    /\ UNCHANGED <<presses, live, inUse, cache, newwin, Headers, Active_pc, unlinked>>

-----------------------------------------------------------------------------
\* imap_cacheHeaders and pop3_cacheHeaders.
NoAnswer ==
    /\ \E at \in {"login", "examine", "search"} : At(at)
    /\ Finish
    /\ UNCHANGED <<presses, live, cache, Active_pc, unlinked>>

ImapReadyForgetting ==                                             \* mutant
    /\ At("login")
    /\ Top.box \in ImapBoxes
    /\ cache' = [cache EXCEPT ![Top.box] = <<>>]
    /\ Goto("examine")
    /\ UNCHANGED <<presses, live, inUse, newwin, Headers, Active_pc, unlinked>>
\* IMAP: there is a connection.  Our version is let go.
ImapReady ==
    /\ At("login")
    /\ Top.box \in ImapBoxes
    /\ Release(cache[Top.box])
    /\ cache' = [cache EXCEPT ![Top.box] = <<>>]
    /\ Goto("examine")
    /\ UNCHANGED <<presses, newwin, Headers, Active_pc, unlinked>>

\* POP3 let its version go before it logged in.
PopReady ==
    /\ At("login")
    /\ Top.box \in PopBoxes
    /\ cache' = [cache EXCEPT ![Top.box] = <<>>]
    /\ Goto("fetch")
    /\ UNCHANGED <<presses, live, inUse, newwin, Headers, Active_pc, unlinked>>

Examined ==
    /\ At("examine")
    /\ Goto("search")
    /\ UNCHANGED <<presses, live, inUse, cache, newwin, Headers, Active_pc, unlinked>>

SearchedInVain ==
    /\ At("search")
    /\ Finish
    /\ UNCHANGED <<presses, live, cache, Active_pc, unlinked>>

Searched ==
    /\ At("search")
    /\ cache' = [cache EXCEPT ![Top.box] = <<>>]
    /\ Goto("fetch")
    /\ UNCHANGED <<presses, live, inUse, newwin, Headers, Active_pc, unlinked>>

\* The messages that a list still has.
PointedTo == ToSet(Headers) \union UNION {ToSet(cache[b]) : b \in Boxes}

\* A message is allocated and its headers come in: it goes in front of the
\* list.  (Until then only the call itself knows of it.)
FetchOne ==
    /\ At("fetch")
    /\ Len(cache[Top.box]) < MaxMsgs
    /\ \E m \in Nodes \ (live \union PointedTo) :
          /\ live' = live \union {m}
          /\ inUse' = [inUse EXCEPT ![m] = 0]
          /\ cache' = [cache EXCEPT ![Top.box] = <<m>> \o @]
    /\ UNCHANGED <<presses, newwin, Headers, Active_pc, unlinked, stack>>

\* IMAP: the FETCH is not answered.  The message that was allocated for it is
\* neither put into the list nor freed, and the next one is asked for.
FetchUnanswered ==
    /\ At("fetch")
    /\ Top.box \in ImapBoxes
    /\ \E m \in Nodes \ (live \union PointedTo) :
          live' = live \union {m} /\ unlinked' = unlinked \union {m}
    /\ UNCHANGED <<presses, inUse, cache, newwin, Headers, Active_pc, stack>>

FetchEnds ==
    /\ At("fetch")
    /\ Finish
    /\ UNCHANGED <<presses, live, cache, Active_pc, unlinked>>

Next ==
    \/ \E b \in Boxes : PressCached(b) \/ PressAndFetch(b)
    \/ \E b \in ImapBoxes : Poll(b)
    \/ Hide \/ StatusSame \/ StatusChanged \/ NoAnswer \/ ImapReady \/ PopReady
    \/ Examined \/ SearchedInVain \/ Searched \/ FetchOne \/ FetchUnanswered
    \/ FetchEnds

Spec == Init /\ [][Next]_vars
-----------------------------------------------------------------------------
\* TYPES.  in_use is one bit.
TypeOK ==
    /\ presses \in Setups
    /\ live \subseteq Nodes
    /\ inUse \in [Nodes -> {0, 1}]
    /\ cache \in [Boxes -> Seq(Nodes)]
    /\ newwin \in BOOLEAN
    /\ Headers \in Seq(Nodes)
    /\ Active_pc \in Boxes \union {NoBox}
    /\ unlinked \subseteq Nodes
    /\ stack \in Seq([box : Boxes, why : {"check", "popup"},
                      at : {"status", "login", "examine", "search", "fetch"}])

\* The popup never shows messages that were freed: an Expose event would read
\* them, and the release of the button free them again ...
ShownIsLive == newwin => ToSet(Headers) \subseteq live

\* ... unless a press comes while its mailbox is fetching.
ShownIsLiveApart == presses # "any" => ShownIsLive

\* A cached list is never freed behind the mailbox's back, and no message is
\* in two lists.
CacheIsLive ==
    presses # "any" =>
        /\ \A b \in Boxes : ToSet(cache[b]) \subseteq live
        /\ \A b, c \in Boxes : b # c => ToSet(cache[b]) \intersect ToSet(cache[c]) = {}

\* While presses do not overlap no list is lost: each message that is allocated
\* can still be reached from a mailbox or from the popup, or it was allocated for
\* a FETCH that an IMAP server did not answer, and nothing points to it.
NothingLost == presses = "calm" => live \subseteq PointedTo \union unlinked
=============================================================================
