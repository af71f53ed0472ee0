---------------------------- MODULE MsgListProofs ----------------------------
(* Theorems about MsgList, for any mailboxes, messages and depth of calls. *)
EXTENDS MsgList, TLAPS

Frames == [box : Boxes, why : {"check", "popup"},
           at : {"status", "login", "examine", "search", "fetch"}]

LEMMA EmptySeq == ASSUME NEW S PROVE <<>> \in Seq(S)
  OBVIOUS

LEMMA EmptyToSet == ToSet(<<>>) = {}
  BY DEF ToSet

LEMMA HeadInToSet ==
    ASSUME NEW S, NEW list \in Seq(S), list # <<>>
    PROVE  Head(list) \in ToSet(list) /\ Head(list) \in S
  BY DEF ToSet

LEMMA ConsToSet ==
    ASSUME NEW S, NEW list \in Seq(S), NEW m \in S
    PROVE  <<m>> \o list \in Seq(S) /\ ToSet(<<m>> \o list) = {m} \union ToSet(list)
<1> DEFINE long == <<m>> \o list
<1>1. long \in Seq(S) /\ Len(long) = Len(list) + 1 /\ long[1] = m
  OBVIOUS
<1>2. \A k \in 1 .. Len(list) : long[k + 1] = list[k]
  OBVIOUS
<1>3. DOMAIN long = 1 .. Len(list) + 1 /\ DOMAIN list = 1 .. Len(list) /\ Len(list) \in Nat
  BY <1>1
<1>4. ASSUME NEW x \in ToSet(long) PROVE x \in {m} \union ToSet(list)
  <2>1. PICK k \in 1 .. Len(list) + 1 : x = long[k]
    BY <1>3, <1>4 DEF ToSet
  <2>2. k = 1 \/ (k - 1 \in 1 .. Len(list) /\ long[(k - 1) + 1] = list[k - 1])
    BY <1>2, <1>3
  <2> QED
    BY <2>1, <2>2, <1>1, <1>3 DEF ToSet
<1>5. ASSUME NEW x \in {m} \union ToSet(list) PROVE x \in ToSet(long)
  <2>1. CASE x = m
    BY <2>1, <1>1, <1>3 DEF ToSet
  <2>2. CASE x \in ToSet(list)
    <3>1. PICK k \in 1 .. Len(list) : x = list[k]
      BY <2>2, <1>3 DEF ToSet
    <3>2. k + 1 \in 1 .. Len(list) + 1 /\ x = long[k + 1]
      BY <3>1, <1>2, <1>3
    <3> QED
      BY <3>2, <1>3 DEF ToSet
  <2> QED
    BY <1>5, <2>1, <2>2
<1> QED
  BY <1>1, <1>4, <1>5

\* The stack of calls without its top, and with the top replaced.
LEMMA Popped ==
    ASSUME NEW F, NEW s \in Seq(F), s # <<>>
    PROVE  /\ Front(s) \in Seq(F)
           /\ Len(Front(s)) = Len(s) - 1
           /\ \A k \in 1 .. Len(s) - 1 : Front(s)[k] = s[k]
           /\ Len(s) \in Nat \ {0}
           /\ s[Len(s)] \in F
<1>1. Len(s) \in Nat \ {0} /\ s \in [1 .. Len(s) -> F]
  OBVIOUS
<1>2. Len(s) - 1 \in 0 .. Len(s)
  BY <1>1
<1>3. Front(s) \in Seq(F)
  BY <1>1, <1>2 DEF Front
<1>4. Len(Front(s)) = Len(s) - 1
  BY <1>1, <1>2 DEF Front
<1>5. \A k \in 1 .. Len(s) - 1 : Front(s)[k] = s[k]
  BY <1>1, <1>2 DEF Front
<1> QED
  BY <1>1, <1>3, <1>4, <1>5

LEMMA Replaced ==
    ASSUME NEW F, NEW s \in Seq(F), s # <<>>, NEW f \in F
    PROVE  /\ Append(Front(s), f) \in Seq(F)
           /\ Len(Append(Front(s), f)) = Len(s)
           /\ \A k \in 1 .. Len(s) - 1 : Append(Front(s), f)[k] = s[k]
           /\ Append(Front(s), f)[Len(s)] = f
<1>1. Front(s) \in Seq(F) /\ Len(Front(s)) = Len(s) - 1 /\ Len(s) \in Nat \ {0}
      /\ \A k \in 1 .. Len(s) - 1 : Front(s)[k] = s[k]
  BY Popped
<1> QED
  BY <1>1

LEMMA TopType ==
    ASSUME TypeOK, stack # <<>>
    PROVE  /\ Top \in Frames /\ Top.box \in Boxes
           /\ stack \in Seq(Frames) /\ Len(stack) \in Nat \ {0}
<1>1. stack \in Seq(Frames)
  BY DEF TypeOK, Frames
<1>2. Top \in Frames /\ Len(stack) \in Nat \ {0}
  BY <1>1, Popped DEF Top
<1> QED
  BY <1>1, <1>2 DEF Frames
-----------------------------------------------------------------------------
LEMMA GotoType ==
    ASSUME TypeOK, stack # <<>>, NEW at \in {"login", "examine", "search", "fetch"}, Goto(at)
    PROVE  /\ stack' \in Seq(Frames)
           /\ Len(stack') = Len(stack)
           /\ \A k \in 1 .. Len(stack) - 1 : stack'[k] = stack[k]
           /\ stack'[Len(stack)] = [Top EXCEPT !.at = at]
<1>1. [Top EXCEPT !.at = at] \in Frames
  BY TopType DEF Frames
<1> QED
  BY <1>1, TopType, Replaced DEF Goto

LEMMA ReleaseType ==
    ASSUME TypeOK, NEW list \in Seq(Nodes), Release(list)
    PROVE  live' \subseteq Nodes /\ inUse' \in [Nodes -> {0, 1}]
<1>1. CASE list # <<>> /\ inUse[Head(list)] > 0
  <2>1. Head(list) \in Nodes
    BY <1>1, HeadInToSet
  <2>2. inUse[Head(list)] = 1
    BY <1>1, <2>1 DEF TypeOK
  <2> QED
    <3>1. inUse' = [inUse EXCEPT ![Head(list)] = 0] /\ live' = live
      BY <1>1, <2>1, <2>2 DEF Release, TypeOK
    <3> QED
      BY <3>1 DEF TypeOK
<1>2. CASE ~(list # <<>> /\ inUse[Head(list)] > 0)
  BY <1>2 DEF Release, TypeOK
<1> QED
  BY <1>1, <1>2

LEMMA ShowType ==
    ASSUME TypeOK, NEW b \in Boxes, Show(b)
    PROVE  /\ Headers' = cache[b] /\ newwin' = TRUE
           /\ Headers' \in Seq(Nodes) /\ inUse' \in [Nodes -> {0, 1}]
<1>1. cache[b] \in Seq(Nodes)
  BY DEF TypeOK
<1>2. cache[b] # <<>> => Head(cache[b]) \in Nodes
  BY <1>1, HeadInToSet
<1> QED
  BY <1>1, <1>2 DEF Show, TypeOK

LEMMA FinishType ==
    ASSUME TypeOK, stack # <<>>, Finish
    PROVE  /\ stack' \in Seq(Frames)
           /\ newwin' \in BOOLEAN /\ Headers' \in Seq(Nodes) /\ inUse' \in [Nodes -> {0, 1}]
<1>1. stack' \in Seq(Frames)
  BY TopType, Popped DEF Finish
<1>2. CASE Top.why = "popup"
  BY <1>1, <1>2, TopType, ShowType DEF Finish
<1>3. CASE Top.why # "popup"
  BY <1>1, <1>3 DEF Finish, TypeOK
<1> QED
  BY <1>2, <1>3

LEMMA NextType == TypeOK /\ [Next]_vars => TypeOK'
<1> SUFFICES ASSUME TypeOK, [Next]_vars PROVE TypeOK'
  OBVIOUS
<1> USE DEF Frames
<1>1. ASSUME NEW b \in Boxes, PressCached(b) PROVE TypeOK'
  BY <1>1, ShowType DEF PressCached, TypeOK
<1>2. ASSUME NEW b \in Boxes, PressAndFetch(b) PROVE TypeOK'
  <2>1. Frame(b, "popup", "login") \in Frames
    BY DEF Frame
  <2>2. stack' \in Seq(Frames)
    BY <1>2, <2>1 DEF PressAndFetch, TypeOK
  <2> QED
    BY <1>2, <2>2 DEF PressAndFetch, TypeOK
<1>3. ASSUME Hide PROVE TypeOK'
  <2>1. Headers \in Seq(Nodes)
    BY DEF TypeOK
  <2>2. live' \subseteq Nodes /\ inUse' \in [Nodes -> {0, 1}]
    BY <1>3, <2>1, ReleaseType DEF Hide, TypeOK
  <2> QED
    BY <1>3, <2>2, EmptySeq DEF Hide, TypeOK
<1>4. ASSUME NEW b \in ImapBoxes, Poll(b) PROVE TypeOK'
  <2>1. Frame(b, "check", "status") \in Frames
    BY DEF Frame, Boxes
  <2>2. stack' \in Seq(Frames)
    BY <1>4, <2>1 DEF Poll
  <2> QED
    BY <1>4, <2>2 DEF Poll, TypeOK
<1>5. ASSUME StatusSame \/ NoAnswer \/ SearchedInVain \/ FetchEnds PROVE TypeOK'
  BY <1>5, FinishType DEF StatusSame, NoAnswer, SearchedInVain, FetchEnds, At, TypeOK
<1>6. ASSUME StatusChanged \/ Examined PROVE TypeOK'
  BY <1>6, GotoType DEF StatusChanged, Examined, At, TypeOK
<1>7. ASSUME ImapReady PROVE TypeOK'
  <2>1. stack' \in Seq(Frames) /\ Top.box \in Boxes
    BY <1>7, GotoType, TopType DEF ImapReady, At
  <2>2. cache[Top.box] \in Seq(Nodes)
    BY <2>1 DEF TypeOK
  <2>3. live' \subseteq Nodes /\ inUse' \in [Nodes -> {0, 1}]
    BY <1>7, <2>2, ReleaseType DEF ImapReady
  <2> QED
    BY <1>7, <2>1, <2>3 DEF ImapReady, TypeOK
<1>8. ASSUME PopReady \/ Searched PROVE TypeOK'
  <2>1. stack' \in Seq(Frames) /\ Top.box \in Boxes
    BY <1>8, GotoType, TopType DEF PopReady, Searched, At
  <2> QED
    BY <1>8, <2>1, EmptySeq, ZenonT(40) DEF PopReady, Searched, TypeOK
<1>9. ASSUME FetchOne PROVE TypeOK'
  <2>1. Top.box \in Boxes
    BY <1>9, TopType DEF FetchOne, At
  <2>2. PICK m \in Nodes \ (live \union PointedTo) :
            /\ live' = live \union {m}
            /\ inUse' = [inUse EXCEPT ![m] = 0]
            /\ cache' = [cache EXCEPT ![Top.box] = <<m>> \o @]
    BY <1>9 DEF FetchOne
  <2>3. cache[Top.box] \in Seq(Nodes)
    BY <2>1 DEF TypeOK
  <2>4. <<m>> \o cache[Top.box] \in Seq(Nodes)
    BY <2>3, ConsToSet
  <2> QED
    BY <1>9, <2>1, <2>2, <2>4 DEF FetchOne, TypeOK
<1>10. ASSUME FetchUnanswered PROVE TypeOK'
  BY <1>10 DEF FetchUnanswered, TypeOK
<1>11. ASSUME UNCHANGED vars PROVE TypeOK'
  BY <1>11 DEF vars, TypeOK
<1> QED
  BY <1>1, <1>2, <1>3, <1>4, <1>5, <1>6, <1>7, <1>8, <1>9, <1>10, <1>11 DEF Next

\* in_use is one bit, whatever the user and the servers do.
THEOREM TypeCorrect == Spec => []TypeOK
<1>1. Init => TypeOK
  BY EmptySeq DEF Init, TypeOK
<1> QED
  BY <1>1, NextType, PTL DEF Spec

-----------------------------------------------------------------------------
(***************************************************************************)
(* Freed messages.  The invariant: the lists of two mailboxes share no      *)
(* message; the popup's list is a mailbox's whole list, and then it is      *)
(* marked in use, or it shares nothing with it; and the list that is being  *)
(* fetched is not the one that is shown.  The last part is what a press     *)
(* during a fetch of the same mailbox breaks.                               *)
(***************************************************************************)

Apart(l, m) == ToSet(l) \intersect ToSet(m) = {}

CachesHeld ==
    /\ \A b \in Boxes : ToSet(cache[b]) \subseteq live
    /\ \A b, c \in Boxes : b # c => Apart(cache[b], cache[c])

ShownHeld ==
    /\ ~newwin => Headers = <<>>
    /\ ToSet(Headers) \subseteq live
    /\ \A b \in Boxes : cache[b] = Headers \/ Apart(cache[b], Headers)
    /\ \A b \in Boxes : cache[b] = Headers /\ Headers # <<>> => inUse[Head(Headers)] = 1

FetchHidden ==
    \A k \in 1 .. Len(stack) : stack[k].at = "fetch" => Apart(cache[stack[k].box], Headers)

FetchAlone ==
    \A j, k \in 1 .. Len(stack) : j < k /\ stack[j].at = "fetch" => stack[j].box # stack[k].box

HeldInv == CachesHeld /\ ShownHeld /\ FetchHidden /\ FetchAlone

LEMMA ApartFromEmpty == ASSUME NEW l PROVE Apart(<<>>, l) /\ Apart(l, <<>>)
  BY EmptyToSet DEF Apart

LEMMA HeadsDiffer ==
    ASSUME NEW S, NEW l \in Seq(S), NEW m \in Seq(S), l # <<>>, m # <<>>, Apart(l, m)
    PROVE  Head(l) # Head(m)
  BY HeadInToSet DEF Apart

LEMMA FrameType ==
    ASSUME TypeOK, NEW k \in 1 .. Len(stack)
    PROVE  stack[k] \in Frames /\ stack[k].box \in Boxes
<1>1. stack \in Seq(Frames)
  BY DEF TypeOK, Frames
<1>2. stack[k] \in Frames
  BY <1>1
<1> QED
  BY <1>2 DEF Frames

LEMMA NoFetchPressed ==
    ASSUME NEW b \in Boxes, presses \in {"calm", "apart"}, MayPress(b)
    PROVE  \A k \in 1 .. Len(stack) : stack[k].at = "fetch" => stack[k].box # b
<1>1. CASE presses = "calm"
  BY <1>1 DEF MayPress
<1>2. CASE presses = "apart"
  BY <1>2 DEF MayPress
<1> QED
  BY <1>1, <1>2

LEMMA ShowHolds ==
    ASSUME TypeOK, CachesHeld, NEW b \in Boxes, Show(b), UNCHANGED <<live, cache>>
    PROVE  CachesHeld' /\ ShownHeld'
<1>1. CachesHeld'
  BY DEF CachesHeld
<1>2. Headers' = cache[b] /\ newwin' = TRUE
  BY DEF Show
<1>3. ToSet(Headers)' \subseteq live'
  BY <1>2 DEF CachesHeld
<1>4. \A c \in Boxes : cache'[c] = Headers' \/ Apart(cache'[c], Headers')
  BY <1>2 DEF CachesHeld
<1>5. Headers' # <<>> => inUse'[Head(Headers')] = 1
  <2>1. cache[b] \in Seq(Nodes)
    BY DEF TypeOK
  <2>2. cache[b] # <<>> => Head(cache[b]) \in Nodes
    BY <2>1, HeadInToSet
  <2> QED
    BY <1>2, <2>2 DEF Show, TypeOK
<1> QED
  BY <1>1, <1>2, <1>3, <1>4, <1>5 DEF ShownHeld

\* A call returns, and shows its mailbox's list if a popup made it.
LEMMA FinishHolds ==
    ASSUME TypeOK, HeldInv, stack # <<>>, Finish, UNCHANGED <<live, cache>>
    PROVE  HeldInv'
<1>1. /\ stack' = Front(stack) /\ Len(stack') = Len(stack) - 1
      /\ \A k \in 1 .. Len(stack) - 1 : stack'[k] = stack[k]
      /\ Len(stack) \in Nat \ {0} /\ Top = stack[Len(stack)] /\ Top.box \in Boxes
  BY TopType, Popped DEF Finish, Top
<1>2. FetchAlone'
  BY <1>1 DEF FetchAlone, HeldInv
<1>3. CASE Top.why = "popup"
  <2>1. CachesHeld' /\ ShownHeld' /\ Headers' = cache[Top.box]
    BY <1>1, <1>3, ShowHolds DEF Finish, HeldInv, Show
  <2>2. ASSUME NEW k \in 1 .. Len(stack'), stack'[k].at = "fetch"
        PROVE  Apart(cache'[stack'[k].box], Headers')
    <3>1. k \in 1 .. Len(stack) /\ k < Len(stack) /\ stack[k].at = "fetch" /\ stack'[k] = stack[k]
      BY <1>1, <2>2
    <3>2. stack[k].box # Top.box
      BY <1>1, <3>1 DEF FetchAlone, HeldInv
    <3>3. stack[k].box \in Boxes
      BY <3>1, FrameType
    <3> QED
      BY <1>1, <2>1, <3>1, <3>2, <3>3 DEF CachesHeld, HeldInv
  <2> QED
    BY <1>2, <2>1, <2>2 DEF HeldInv, FetchHidden
<1>4. CASE Top.why # "popup"
  <2>1. UNCHANGED <<Headers, newwin, inUse, live, cache>>
    BY <1>4 DEF Finish
  <2>2. CachesHeld' /\ ShownHeld'
    BY <2>1 DEF CachesHeld, ShownHeld, HeldInv
  <2>3. FetchHidden'
    BY <1>1, <2>1 DEF FetchHidden, HeldInv
  <2> QED
    BY <1>2, <2>2, <2>3 DEF HeldInv
<1> QED
  BY <1>3, <1>4

\* Moving to a wait that is no fetch: the frames keep their mailboxes, and none
\* begins to fetch.
LEMMA MoveFrames ==
    ASSUME TypeOK, stack # <<>>, NEW at \in {"login", "examine", "search"}, Goto(at)
    PROVE  /\ Len(stack') = Len(stack)
           /\ \A k \in 1 .. Len(stack') :
                 /\ stack'[k].box = stack[k].box
                 /\ stack'[k].at = "fetch" => stack[k].at = "fetch"
<1>1. /\ Len(stack') = Len(stack) /\ Len(stack) \in Nat \ {0}
      /\ \A k \in 1 .. Len(stack) - 1 : stack'[k] = stack[k]
      /\ stack'[Len(stack)] = [Top EXCEPT !.at = at]
      /\ Top = stack[Len(stack)] /\ Top \in Frames
  BY GotoType, TopType DEF Top
<1>2. stack'[Len(stack)].at # "fetch" /\ stack'[Len(stack)].box = Top.box
  BY <1>1 DEF Frames
<1>3. ASSUME NEW k \in 1 .. Len(stack')
      PROVE  stack'[k].box = stack[k].box /\ (stack'[k].at = "fetch" => stack[k].at = "fetch")
  <2>1. k = Len(stack) \/ k \in 1 .. Len(stack) - 1
    BY <1>1
  <2> QED
    BY <2>1, <1>1, <1>2
<1> QED
  BY <1>1, <1>3

LEMMA MoveHolds ==
    ASSUME TypeOK, HeldInv, stack # <<>>, NEW at \in {"login", "search"}, Goto(at),
           UNCHANGED <<live, inUse, cache, newwin, Headers>>
    PROVE  HeldInv'
<1>1. CachesHeld' /\ ShownHeld'
  BY DEF CachesHeld, ShownHeld, HeldInv
<1>2. FetchHidden'
  BY MoveFrames DEF FetchHidden, HeldInv
<1>3. FetchAlone'
  BY MoveFrames DEF FetchAlone, HeldInv
<1> QED
  BY <1>1, <1>2, <1>3 DEF HeldInv

\* A new call that waits for something else than a fetch.
LEMMA CallHolds ==
    ASSUME TypeOK, HeldInv, NEW f \in Frames, f.at # "fetch", stack' = Append(stack, f),
           \A k \in 1 .. Len(stack) : stack[k].at = "fetch" => stack[k].box # f.box,
           UNCHANGED <<live, inUse, cache, newwin, Headers>>
    PROVE  HeldInv'
<1>1. /\ Len(stack') = Len(stack) + 1 /\ Len(stack) \in Nat
      /\ \A k \in 1 .. Len(stack) : stack'[k] = stack[k]
      /\ stack'[Len(stack) + 1] = f
  BY DEF TypeOK
<1>2. CachesHeld' /\ ShownHeld'
  BY DEF CachesHeld, ShownHeld, HeldInv
<1>3. \A k \in 1 .. Len(stack') : k \in 1 .. Len(stack) \/ k = Len(stack) + 1
  BY <1>1
<1>4. FetchHidden'
  BY <1>1, <1>3 DEF FetchHidden, HeldInv
<1>5. ASSUME NEW j \in 1 .. Len(stack'), NEW k \in 1 .. Len(stack'), j < k, stack'[j].at = "fetch"
      PROVE  stack'[j].box # stack'[k].box
  <2>1. j \in 1 .. Len(stack) /\ stack'[j] = stack[j] /\ stack[j].at = "fetch"
    BY <1>1, <1>5
  <2>2. CASE k = Len(stack) + 1
    BY <2>1, <2>2, <1>1
  <2>3. CASE k \in 1 .. Len(stack)
    BY <2>1, <2>3, <1>1, <1>5 DEF FetchAlone, HeldInv
  <2> QED
    BY <1>3, <2>2, <2>3
<1> QED
  BY <1>2, <1>4, <1>5 DEF HeldInv, FetchAlone

\* The list of the top call's mailbox is dropped from its cache.
LEMMA DropHolds ==
    ASSUME TypeOK, HeldInv, stack # <<>>, Goto("fetch"),
           cache' = [cache EXCEPT ![Top.box] = <<>>],
           UNCHANGED <<live, inUse, newwin, Headers>>
    PROVE  HeldInv'
<1>1. /\ Len(stack') = Len(stack) /\ Len(stack) \in Nat \ {0}
      /\ \A k \in 1 .. Len(stack) - 1 : stack'[k] = stack[k]
      /\ stack'[Len(stack)] = [Top EXCEPT !.at = "fetch"]
      /\ Top = stack[Len(stack)] /\ Top \in Frames /\ Top.box \in Boxes
  BY GotoType, TopType DEF Top
<1>2. stack'[Len(stack)].box = Top.box
  BY <1>1 DEF Frames
<1>3. cache'[Top.box] = <<>> /\ \A b \in Boxes : b # Top.box => cache'[b] = cache[b]
  BY <1>1 DEF TypeOK
<1>4. CachesHeld'
  BY <1>1, <1>3, EmptyToSet, ApartFromEmpty DEF CachesHeld, HeldInv
<1>5. ShownHeld'
  BY <1>1, <1>3, ApartFromEmpty DEF ShownHeld, HeldInv
<1>6. \A b \in Boxes : Apart(cache[b], Headers) => Apart(cache'[b], Headers')
  BY <1>3, ApartFromEmpty
<1>7. ASSUME NEW k \in 1 .. Len(stack'), stack'[k].at = "fetch"
      PROVE  Apart(cache'[stack'[k].box], Headers')
  <2>1. CASE k = Len(stack)
    BY <2>1, <1>2, <1>3, ApartFromEmpty
  <2>2. CASE k # Len(stack)
    <3>1. k \in 1 .. Len(stack) /\ k \in 1 .. Len(stack) - 1
      BY <2>2, <1>1
    <3>2. stack'[k] = stack[k] /\ stack[k].at = "fetch" /\ stack[k].box \in Boxes
      BY <3>1, <1>1, <1>7, FrameType
    <3>3. Apart(cache[stack[k].box], Headers)
      BY <3>1, <3>2 DEF FetchHidden, HeldInv
    <3> QED
      BY <3>2, <3>3, <1>6
  <2> QED
    BY <2>1, <2>2
<1>8. ASSUME NEW j \in 1 .. Len(stack'), NEW k \in 1 .. Len(stack'), j < k, stack'[j].at = "fetch"
      PROVE  stack'[j].box # stack'[k].box
  <2>1. j \in 1 .. Len(stack) /\ j \in 1 .. Len(stack) - 1 /\ k \in 1 .. Len(stack)
    BY <1>1, <1>8
  <2>2. stack'[j] = stack[j] /\ stack'[k].box = stack[k].box
    <3>1. k = Len(stack) \/ k \in 1 .. Len(stack) - 1
      BY <2>1, <1>1
    <3> QED
      BY <3>1, <2>1, <1>1, <1>2
  <2> QED
    BY <2>1, <2>2, <1>8 DEF FetchAlone, HeldInv
<1> QED
  BY <1>4, <1>5, <1>7, <1>8 DEF HeldInv, FetchHidden, FetchAlone

\* imap_releaseHeaders of the mailbox's own list, before it fetches anew: what
\* the popup shows is either this list, and then it is marked, or shares
\* nothing with it.
LEMMA ReadyHolds ==
    ASSUME TypeOK, HeldInv, stack # <<>>, Goto("examine"), Release(cache[Top.box]),
           cache' = [cache EXCEPT ![Top.box] = <<>>], UNCHANGED <<newwin, Headers>>
    PROVE  HeldInv'
<1> DEFINE b == Top.box
<1>1. b \in Boxes /\ cache[b] \in Seq(Nodes) /\ Headers \in Seq(Nodes)
  BY TopType DEF TypeOK
<1>2. cache'[b] = <<>> /\ \A c \in Boxes : c # b => cache'[c] = cache[c]
  BY <1>1 DEF TypeOK
<1>3. \A c \in Boxes : c # b => Apart(cache[b], cache[c])
  BY <1>1 DEF CachesHeld, HeldInv
<1>4. live \ ToSet(cache[b]) \subseteq live'
  BY DEF Release
<1>5. CachesHeld'
  <2>1. \A c \in Boxes : ToSet(cache'[c]) \subseteq live'
    BY <1>2, <1>3, <1>4, EmptyToSet DEF Apart, CachesHeld, HeldInv
  <2>2. \A c, d \in Boxes : c # d => Apart(cache'[c], cache'[d])
    BY <1>2, ApartFromEmpty DEF CachesHeld, HeldInv
  <2> QED
    BY <2>1, <2>2 DEF CachesHeld, Apart
<1>6. ToSet(Headers) \subseteq live'
  <2>1. CASE Apart(cache[b], Headers)
    BY <2>1, <1>4 DEF Apart, ShownHeld, HeldInv
  <2>2. CASE cache[b] = Headers /\ Headers = <<>>
    BY <2>2, EmptyToSet
  <2>3. CASE cache[b] = Headers /\ Headers # <<>>
    <3>1. inUse[Head(cache[b])] > 0
      BY <2>3, <1>1 DEF ShownHeld, HeldInv
    <3> QED
      BY <3>1, <2>3 DEF Release, ShownHeld, HeldInv
  <2> QED
    BY <1>1, <2>1, <2>2, <2>3 DEF ShownHeld, HeldInv
<1>7. ASSUME NEW c \in Boxes, cache'[c] = Headers, Headers # <<>>
      PROVE  inUse'[Head(Headers)] = 1
  <2>1. c # b /\ cache[c] = Headers /\ inUse[Head(Headers)] = 1
    BY <1>2, <1>7 DEF ShownHeld, HeldInv
  <2>2. cache[b] # <<>> => Head(cache[b]) # Head(Headers)
    BY <1>1, <1>3, <1>7, <2>1, HeadsDiffer
  <2>3. Head(Headers) \in Nodes
    BY <1>1, <1>7, HeadInToSet
  <2> QED
    BY <2>1, <2>2, <2>3 DEF Release, TypeOK
<1>8. ShownHeld'
  <2>1. \A c \in Boxes : cache'[c] = Headers \/ Apart(cache'[c], Headers)
    BY <1>2, ApartFromEmpty DEF ShownHeld, HeldInv
  <2>2. ~newwin' => Headers' = <<>>
    BY DEF ShownHeld, HeldInv
  <2> QED
    BY <2>1, <2>2, <1>6, <1>7 DEF ShownHeld, Apart
<1>9. \A c \in Boxes : Apart(cache[c], Headers) => Apart(cache'[c], Headers')
  BY <1>2, ApartFromEmpty
<1>10. FetchHidden'
  BY <1>9, MoveFrames, FrameType DEF FetchHidden, HeldInv
<1>11. FetchAlone'
  BY MoveFrames DEF FetchAlone, HeldInv
<1> QED
  BY <1>5, <1>8, <1>10, <1>11 DEF HeldInv

\* msglst_hide lets the popup's list go: it is freed only when no mailbox
\* keeps it.
LEMMA HideHolds == ASSUME TypeOK, HeldInv, Hide PROVE HeldInv'
<1>1. /\ Headers' = <<>> /\ newwin' = FALSE /\ UNCHANGED <<stack, cache>>
      /\ live \ ToSet(Headers) \subseteq live'
  BY DEF Hide, Release
<1>2. ASSUME NEW c \in Boxes PROVE ToSet(cache[c]) \subseteq live'
  <2>1. CASE Apart(cache[c], Headers)
    BY <2>1, <1>1 DEF Apart, CachesHeld, HeldInv
  <2>2. CASE cache[c] = Headers /\ Headers = <<>>
    BY <2>2, EmptyToSet
  <2>3. CASE cache[c] = Headers /\ Headers # <<>>
    <3>1. inUse[Head(Headers)] > 0
      BY <2>3 DEF ShownHeld, HeldInv
    <3>2. live' = live
      BY <3>1, <2>3 DEF Hide, Release
    <3> QED
      BY <3>2 DEF CachesHeld, HeldInv
  <2> QED
    BY <2>1, <2>2, <2>3 DEF ShownHeld, HeldInv
<1>3. CachesHeld'
  BY <1>1, <1>2 DEF CachesHeld, HeldInv, Apart
<1>4. ShownHeld'
  BY <1>1, EmptyToSet, ApartFromEmpty DEF ShownHeld
<1>5. FetchHidden' /\ FetchAlone'
  BY <1>1, ApartFromEmpty DEF FetchHidden, FetchAlone, HeldInv
<1> QED
  BY <1>3, <1>4, <1>5 DEF HeldInv

\* A message that is fetched is new to every list, and its list is not shown.
LEMMA FetchHolds == ASSUME TypeOK, HeldInv, FetchOne PROVE HeldInv'
<1> DEFINE b == Top.box
<1>1. /\ b \in Boxes /\ Len(stack) \in 1 .. Len(stack) /\ stack[Len(stack)] = Top
      /\ Top.at = "fetch" /\ UNCHANGED <<newwin, Headers, stack>>
  BY TopType DEF FetchOne, At, Top
<1>2. PICK m \in Nodes \ (live \union PointedTo) :
          /\ live' = live \union {m}
          /\ inUse' = [inUse EXCEPT ![m] = 0]
          /\ cache' = [cache EXCEPT ![Top.box] = <<m>> \o @]
  BY DEF FetchOne
<1>3. /\ cache'[b] = <<m>> \o cache[b]
      /\ \A c \in Boxes : c # b => cache'[c] = cache[c]
  BY <1>1, <1>2 DEF TypeOK
<1>4. ToSet(cache'[b]) = {m} \union ToSet(cache[b])
  <2>1. cache[b] \in Seq(Nodes)
    BY <1>1 DEF TypeOK
  <2> QED
    BY <2>1, <1>2, <1>3, ConsToSet
<1>5. Apart(cache[b], Headers)
  BY <1>1 DEF FetchHidden, HeldInv
<1>6. m \notin ToSet(Headers) /\ \A c \in Boxes : m \notin ToSet(cache[c])
  BY <1>2 DEF CachesHeld, ShownHeld, HeldInv
<1>7. CachesHeld'
  <2>1. \A c \in Boxes : ToSet(cache'[c]) \subseteq live'
    BY <1>2, <1>3, <1>4 DEF CachesHeld, HeldInv
  <2>2. \A c \in Boxes : c # b => Apart(cache'[b], cache'[c]) /\ Apart(cache'[c], cache'[b])
    <3>1. ASSUME NEW c \in Boxes, c # b
          PROVE  Apart(cache'[b], cache'[c]) /\ Apart(cache'[c], cache'[b])
      <4>1. cache'[c] = cache[c] /\ m \notin ToSet(cache[c])
        BY <3>1, <1>3, <1>6
      <4>2. Apart(cache[b], cache[c])
        BY <3>1, <1>1 DEF CachesHeld, HeldInv
      <4> QED
        BY <4>1, <4>2, <1>4 DEF Apart
    <3> QED
      BY <3>1
  <2>3. \A c, d \in Boxes : c # d => Apart(cache'[c], cache'[d])
    BY <2>2, <1>3 DEF CachesHeld, HeldInv
  <2> QED
    BY <2>1, <2>3 DEF CachesHeld, Apart
<1>8. Apart(cache'[b], Headers') /\ cache'[b] # Headers
  BY <1>1, <1>4, <1>5, <1>6 DEF Apart
<1>9. ASSUME NEW c \in Boxes, cache'[c] = Headers, Headers # <<>>
      PROVE  inUse'[Head(Headers)] = 1
  <2>1. cache[c] = Headers /\ inUse[Head(Headers)] = 1
    BY <1>3, <1>8, <1>9 DEF ShownHeld, HeldInv
  <2>2. Head(Headers) \in ToSet(Headers) /\ Head(Headers) \in Nodes
    BY <1>9, HeadInToSet DEF TypeOK
  <2> QED
    BY <2>1, <2>2, <1>2, <1>6 DEF TypeOK
<1>10. ShownHeld'
  <2>1. \A c \in Boxes : cache'[c] = Headers \/ Apart(cache'[c], Headers)
    BY <1>1, <1>3, <1>8 DEF ShownHeld, HeldInv
  <2>2. (~newwin => Headers = <<>>) /\ ToSet(Headers) \subseteq live'
    BY <1>2 DEF ShownHeld, HeldInv
  <2> QED
    BY <2>1, <2>2, <1>1, <1>9 DEF ShownHeld, Apart
<1>11. \A c \in Boxes : Apart(cache[c], Headers) => Apart(cache'[c], Headers')
  BY <1>1, <1>3, <1>8
<1>12. FetchHidden'
  BY <1>1, <1>11, FrameType DEF FetchHidden, HeldInv
<1>13. FetchAlone'
  BY <1>1 DEF FetchAlone, HeldInv
<1> QED
  BY <1>7, <1>10, <1>12, <1>13 DEF HeldInv

-----------------------------------------------------------------------------
\* Presses that do not come while their mailbox is fetching.
Orderly == presses \in {"calm", "apart"}

LEMMA NextHeld == TypeOK /\ HeldInv /\ Orderly /\ [Next]_vars => HeldInv'
<1> SUFFICES ASSUME TypeOK, HeldInv, Orderly, [Next]_vars PROVE HeldInv'
  OBVIOUS
<1>1. ASSUME NEW b \in Boxes, PressCached(b) PROVE HeldInv'
  <2>1. MayPress(b) /\ Show(b) /\ UNCHANGED <<presses, live, cache, stack>> /\ Headers' = cache[b]
    BY <1>1 DEF PressCached, Show
  <2>2. CachesHeld' /\ ShownHeld'
    BY <2>1, ShowHolds DEF HeldInv
  <2>3. \A k \in 1 .. Len(stack) : stack[k].at = "fetch" => stack[k].box # b
    BY <2>1, NoFetchPressed DEF Orderly
  <2>4. FetchHidden'
    BY <2>1, <2>3, FrameType DEF FetchHidden, CachesHeld, HeldInv
  <2>5. FetchAlone'
    BY <2>1 DEF FetchAlone, HeldInv
  <2> QED
    BY <2>2, <2>4, <2>5 DEF HeldInv
<1>2. ASSUME NEW b \in Boxes, PressAndFetch(b) PROVE HeldInv'
  <2> DEFINE f == Frame(b, "popup", "login")
  <2>1. f \in Frames /\ f.at # "fetch" /\ f.box = b
    BY DEF Frame, Frames
  <2>2. \A k \in 1 .. Len(stack) : stack[k].at = "fetch" => stack[k].box # f.box
    BY <1>2, <2>1, NoFetchPressed DEF PressAndFetch, Orderly
  <2>3. stack' = Append(stack, f) /\ UNCHANGED <<live, inUse, cache, newwin, Headers>>
    BY <1>2 DEF PressAndFetch
  <2> HIDE DEF f
  <2> QED
    BY <2>1, <2>2, <2>3, CallHolds
<1>3. ASSUME NEW b \in ImapBoxes, Poll(b) PROVE HeldInv'
  <2> DEFINE f == Frame(b, "check", "status")
  <2>1. f \in Frames /\ f.at # "fetch"
    BY DEF Frame, Frames, Boxes
  <2>2. stack = <<>> /\ stack' = Append(stack, f) /\ Len(stack) = 0
    BY <1>3 DEF Poll
  <2>3. UNCHANGED <<live, inUse, cache, newwin, Headers>>
    BY <1>3 DEF Poll
  <2> HIDE DEF f
  <2> QED
    BY <2>1, <2>2, <2>3, CallHolds
<1>4. ASSUME Hide PROVE HeldInv'
  BY <1>4, HideHolds
<1>5. ASSUME StatusSame \/ NoAnswer \/ SearchedInVain \/ FetchEnds PROVE HeldInv'
  BY <1>5, FinishHolds DEF StatusSame, NoAnswer, SearchedInVain, FetchEnds, At
<1>6. ASSUME StatusChanged \/ Examined PROVE HeldInv'
  BY <1>6, MoveHolds DEF StatusChanged, Examined, At
<1>7. ASSUME ImapReady PROVE HeldInv'
  BY <1>7, ReadyHolds DEF ImapReady, At
<1>8. ASSUME PopReady \/ Searched PROVE HeldInv'
  BY <1>8, DropHolds DEF PopReady, Searched, At
<1>9. ASSUME FetchOne PROVE HeldInv'
  BY <1>9, FetchHolds
<1>10. ASSUME FetchUnanswered PROVE HeldInv'
  <2>1. live \subseteq live' /\ UNCHANGED <<inUse, cache, newwin, Headers, stack>>
    BY <1>10 DEF FetchUnanswered
  <2> QED
    BY <2>1 DEF HeldInv, CachesHeld, ShownHeld, FetchHidden, FetchAlone, Apart
<1>11. ASSUME UNCHANGED vars PROVE HeldInv'
  BY <1>11 DEF vars, HeldInv, CachesHeld, ShownHeld, FetchHidden, FetchAlone, Apart
<1> QED
  BY <1>1, <1>2, <1>3, <1>4, <1>5, <1>6, <1>7, <1>8, <1>9, <1>10, <1>11 DEF Next

LEMMA InitHeld == Init => HeldInv
<1> SUFFICES ASSUME Init PROVE HeldInv
  OBVIOUS
<1>1. Len(stack) = 0 /\ Headers = <<>> /\ \A b \in Boxes : cache[b] = <<>>
  BY DEF Init
<1> QED
  BY <1>1, EmptyToSet, ApartFromEmpty DEF HeldInv, CachesHeld, ShownHeld, FetchHidden, FetchAlone

LEMMA PressesStay == [Next]_vars => UNCHANGED presses
  BY DEF Next, vars, PressCached, PressAndFetch, Poll, Hide, StatusSame, StatusChanged, NoAnswer,
         ImapReady, PopReady, Examined, SearchedInVain, Searched, FetchOne, FetchUnanswered, FetchEnds

\* The invariant, for a user whose presses keep off fetching mailboxes.
LEMMA Held == Spec => [](TypeOK /\ (Orderly => HeldInv))
<1>1. Init => TypeOK /\ (Orderly => HeldInv)
  BY InitHeld, EmptySeq DEF Init, TypeOK
<1>2. TypeOK /\ (Orderly => HeldInv) /\ [Next]_vars => (TypeOK /\ (Orderly => HeldInv))'
  BY NextType, NextHeld, PressesStay DEF Orderly
<1> QED
  BY <1>1, <1>2, PTL DEF Spec

LEMMA NotAny == TypeOK /\ presses # "any" => Orderly
  BY MsgListAssumption DEF TypeOK, Orderly, Presses

\* imap_releaseHeaders never frees a list the popup still shows, unless a press
\* comes while the pressed mailbox is fetching.
THEOREM ShownStaysLive == Spec => []ShownIsLiveApart
<1>1. TypeOK /\ (Orderly => HeldInv) => ShownIsLiveApart
  BY NotAny DEF ShownIsLiveApart, ShownIsLive, HeldInv, ShownHeld
<1> QED
  BY <1>1, Held, PTL

\* Nor one that a mailbox keeps in its cache; and no two mailboxes share a
\* message.
THEOREM CachesStayLive == Spec => []CacheIsLive
<1>1. TypeOK /\ (Orderly => HeldInv) => CacheIsLive
  BY NotAny DEF CacheIsLive, HeldInv, CachesHeld, Apart
<1> QED
  BY <1>1, Held, PTL

-----------------------------------------------------------------------------
(***************************************************************************)
(* Lost messages.  While presses do not overlap there is one call at a time, *)
(* a popup's call runs without a window, and a mailbox that is about to drop *)
(* its list has let it go before.  in_use of an IMAP mailbox's list then says *)
(* exactly that the list is both cached and shown, so the one that lets it   *)
(* go last frees it.  msglst_hide does not let go of a POP3 mailbox's list,  *)
(* but the mailbox still has that one.                                      *)
(***************************************************************************)

\* A call that does not begin with imap_releaseHeaders finds nothing cached.
LetGo(f) ==
    /\ f.at = "status" \/ f.why = "check" => f.box \in ImapBoxes
    /\ f.at \in {"examine", "search"} => cache[f.box] = <<>>
    /\ f.at = "login" /\ f.box \in PopBoxes => cache[f.box] = <<>>
    /\ f.why = "popup" => ~newwin /\ Active_pc = f.box

OneCall == stack = <<>> \/ \E f \in Frames : stack = <<f>> /\ LetGo(f)

Marked(list) == list # <<>> /\ inUse[Head(list)] > 0
MarksAreShared ==
    /\ \A b \in ImapBoxes : Marked(cache[b]) => Headers = cache[b]
    /\ Marked(Headers) => \E b \in Boxes : cache[b] = Headers

\* What the popup shows is of the mailbox that was pressed, when that is a POP3
\* mailbox: nothing fetches its headers while the window is open.
ShownOfActive ==
    newwin => \/ Active_pc \in ImapBoxes
              \/ Active_pc \in PopBoxes /\ cache[Active_pc] = Headers

Accounted == live \subseteq PointedTo \union unlinked

KeptInv == OneCall /\ MarksAreShared /\ ShownOfActive /\ Accounted
CalmInv == presses = "calm" => HeldInv /\ KeptInv

LEMMA OnlyFinish ==
    ASSUME NEW f, stack = <<f>>, Finish
    PROVE  stack' = <<>> /\ Top = f
  BY DEF Finish, Front, Top

LEMMA OnlyGoto ==
    ASSUME NEW f, NEW at, stack = <<f>>, Goto(at)
    PROVE  stack' = <<[f EXCEPT !.at = at]>> /\ Top = f
<1>1. Front(<<f>>) = <<>> /\ Top = f
  BY DEF Front, Top
<1>2. \A g : Append(<<>>, g) = <<g>>
  OBVIOUS
<1> QED
  BY <1>1, <1>2 DEF Goto

\* A window opens when there is none.
LEMMA ShowKeeps ==
    ASSUME TypeOK, HeldInv, MarksAreShared, Accounted,
           ~newwin, NEW b \in Boxes, Show(b), Active_pc' = b, UNCHANGED <<live, cache, unlinked>>
    PROVE  MarksAreShared' /\ ShownOfActive' /\ Accounted'
<1>1. Headers = <<>> /\ Headers' = cache[b]
  BY DEF HeldInv, ShownHeld, Show
<1>2. PointedTo \subseteq PointedTo'
  BY <1>1, EmptyToSet DEF PointedTo
<1>3. ASSUME NEW c \in ImapBoxes, c # b PROVE ~Marked(cache[c])'
  <2>1. SUFFICES ASSUME cache[c] # <<>> PROVE ~ (inUse'[Head(cache[c])] > 0)
    BY DEF Marked
  <2>2. ~ (inUse[Head(cache[c])] > 0)
    BY <1>1, <2>1 DEF MarksAreShared, Marked
  <2>3. cache[b] \in Seq(Nodes) /\ cache[c] \in Seq(Nodes) /\ Apart(cache[b], cache[c])
    BY <1>3 DEF TypeOK, HeldInv, CachesHeld, Boxes
  <2>4. cache[b] # <<>> => Head(cache[b]) # Head(cache[c])
    BY <2>1, <2>3, HeadsDiffer
  <2>5. Head(cache[c]) \in Nodes
    BY <2>1, <2>3, HeadInToSet
  <2> QED
    BY <2>2, <2>4, <2>5 DEF Show, TypeOK
<1>4. MarksAreShared'
  BY <1>1, <1>3 DEF MarksAreShared
<1>5. Accounted'
  BY <1>2 DEF Accounted
<1>6. ShownOfActive'
  BY <1>1 DEF ShownOfActive, Boxes
<1> QED
  BY <1>4, <1>5, <1>6

\* msglst_hide: an IMAP list is freed when no mailbox keeps it, and only then; a
\* POP3 list stays where it is.
LEMMA HideKeeps ==
    ASSUME TypeOK, HeldInv, KeptInv, Hide
    PROVE  KeptInv'
<1>1. /\ Headers \in Seq(Nodes) /\ Headers' = <<>> /\ newwin /\ newwin' = FALSE
      /\ UNCHANGED <<cache, stack, Active_pc, unlinked>>
  BY DEF Hide, TypeOK
<1>2. OneCall' /\ ShownOfActive'
  BY <1>1 DEF KeptInv, OneCall, LetGo, ShownOfActive
<1>3. /\ live \subseteq PointedTo \union unlinked /\ ImapBoxes \subseteq Boxes
      /\ ~Marked(Headers)'
  BY <1>1 DEF KeptInv, Accounted, Boxes, Marked
<1>4. CASE Active_pc \notin ImapBoxes
  <2>1. /\ Active_pc \in Boxes /\ cache[Active_pc] = Headers
        /\ UNCHANGED <<live, inUse>>
    BY <1>1, <1>4 DEF Hide, KeptInv, ShownOfActive, Boxes
  <2>2. Accounted'
    BY <1>1, <1>3, <2>1 DEF Accounted, PointedTo
  <2>3. ASSUME NEW c \in ImapBoxes, Marked(cache[c])' PROVE FALSE
    <3>1. cache[c] = Headers /\ cache[c] # <<>>
      BY <1>1, <2>1, <2>3 DEF KeptInv, MarksAreShared, Marked
    <3>2. Apart(cache[c], cache[Active_pc])
      BY <1>3, <1>4, <2>1 DEF HeldInv, CachesHeld
    <3> QED
      BY <1>1, <2>1, <3>1, <3>2, HeadInToSet DEF Apart
  <2> QED
    BY <1>2, <1>3, <2>2, <2>3 DEF KeptInv, MarksAreShared
<1>5. CASE Active_pc \in ImapBoxes /\ Marked(Headers)
  <2>1. live' = live /\ inUse' = [inUse EXCEPT ![Head(Headers)] = @ - 1]
    BY <1>5 DEF Hide, Marked, Release
  <2>2. PICK b \in Boxes : cache[b] = Headers
    BY <1>5 DEF KeptInv, MarksAreShared
  <2>3. Accounted'
    BY <1>1, <1>3, <2>1, <2>2 DEF Accounted, PointedTo
  <2>4. Head(Headers) \in Nodes /\ inUse[Head(Headers)] = 1
    BY <1>1, <1>5, HeadInToSet DEF Marked, TypeOK
  <2>5. inUse'[Head(Headers)] = 0
    BY <2>1, <2>4 DEF TypeOK
  <2>6. ASSUME NEW c \in ImapBoxes PROVE ~Marked(cache[c])'
    <3>1. SUFFICES ASSUME cache[c] # <<>> PROVE ~ (inUse'[Head(cache[c])] > 0)
      BY <1>1 DEF Marked
    <3>2. CASE cache[c] = Headers
      BY <3>2, <2>5
    <3>3. CASE cache[c] # Headers
      <4>1. ~ (inUse[Head(cache[c])] > 0)
        BY <3>1, <3>3 DEF KeptInv, MarksAreShared, Marked
      <4>2. Head(cache[c]) \in Nodes
        BY <1>3, <3>1, HeadInToSet DEF TypeOK
      <4> QED
        BY <4>1, <4>2, <2>1, <2>4, <2>5 DEF TypeOK
    <3> QED
      BY <3>2, <3>3
  <2> QED
    BY <1>2, <1>3, <2>3, <2>6 DEF KeptInv, MarksAreShared
<1>6. CASE Active_pc \in ImapBoxes /\ ~Marked(Headers)
  <2>1. live' = live \ ToSet(Headers) /\ inUse' = inUse
    BY <1>6 DEF Hide, Marked, Release
  <2>2. Accounted'
    BY <1>1, <1>3, <2>1 DEF Accounted, PointedTo
  <2>3. \A c \in ImapBoxes : ~Marked(cache[c])
    BY <1>6 DEF KeptInv, MarksAreShared
  <2> QED
    BY <1>1, <1>2, <1>3, <2>1, <2>2, <2>3 DEF KeptInv, MarksAreShared, Marked
<1> QED
  BY <1>4, <1>5, <1>6

\* ImapReady: the mailbox lets its list go; the popup may still show it.
LEMMA ReadyKeeps ==
    ASSUME TypeOK, HeldInv, MarksAreShared, ShownOfActive, Accounted, NEW b \in ImapBoxes,
           Release(cache[b]), cache' = [cache EXCEPT ![b] = <<>>],
           UNCHANGED <<newwin, Headers, Active_pc, unlinked>>
    PROVE  MarksAreShared' /\ ShownOfActive' /\ Accounted'
<1>0. ImapBoxes \subseteq Boxes /\ b \in Boxes
  BY DEF Boxes
<1>1. cache'[b] = <<>> /\ \A c \in Boxes : c # b => cache'[c] = cache[c]
  BY <1>0 DEF TypeOK
<1>2. cache[b] \in Seq(Nodes)
  BY <1>0 DEF TypeOK
<1>5. ShownOfActive'
  BY <1>1, MsgListAssumption DEF ShownOfActive, Boxes
<1>3. CASE Marked(cache[b])
  <2>1. live' = live /\ inUse' = [inUse EXCEPT ![Head(cache[b])] = @ - 1]
    BY <1>3 DEF Marked, Release
  <2>2. Headers = cache[b]
    BY <1>3 DEF MarksAreShared
  <2>3. Accounted'
    BY <1>1, <2>1, <2>2 DEF Accounted, PointedTo
  <2>4. Head(Headers) \in Nodes /\ inUse[Head(Headers)] = 1
    BY <1>2, <1>3, <2>2, HeadInToSet DEF Marked, TypeOK
  <2>5. inUse'[Head(Headers)] = 0
    BY <2>1, <2>2, <2>4 DEF TypeOK
  <2>6. ASSUME NEW c \in ImapBoxes PROVE ~Marked(cache[c])'
    <3>1. CASE c = b
      BY <3>1, <1>1 DEF Marked
    <3>2. CASE c # b
      <4>1. SUFFICES ASSUME cache[c] # <<>> PROVE ~ (inUse'[Head(cache[c])] > 0)
        BY <1>1, <3>2 DEF Marked
      <4>2. CASE cache[c] = Headers
        BY <4>2, <2>5
      <4>3. CASE cache[c] # Headers
        <5>1. ~ (inUse[Head(cache[c])] > 0)
          BY <4>1, <4>3 DEF MarksAreShared, Marked
        <5>2. Head(cache[c]) \in Nodes
          BY <1>0, <4>1, HeadInToSet DEF TypeOK
        <5> QED
          BY <5>1, <5>2, <2>1, <2>2, <2>4, <2>5 DEF TypeOK
      <4> QED
        BY <4>2, <4>3
    <3> QED
      BY <3>1, <3>2
  <2>7. ~Marked(Headers)'
    BY <2>5 DEF Marked
  <2> QED
    BY <1>5, <2>3, <2>6, <2>7 DEF MarksAreShared
<1>4. CASE ~Marked(cache[b])
  <2>1. live' = live \ ToSet(cache[b]) /\ inUse' = inUse
    BY <1>4 DEF Marked, Release
  <2>2. Accounted'
    <3>1. SUFFICES ASSUME NEW m \in live, m \notin ToSet(cache[b]), m \notin unlinked
                   PROVE  m \in PointedTo'
      BY <2>1 DEF Accounted
    <3>2. m \in ToSet(Headers) \/ \E c \in Boxes : c # b /\ m \in ToSet(cache[c])
      BY <3>1 DEF Accounted, PointedTo
    <3> QED
      BY <3>2, <1>1 DEF PointedTo
  <2>3. \A c \in ImapBoxes : Marked(cache[c])' => c # b /\ Marked(cache[c]) /\ cache'[c] = cache[c]
    BY <1>0, <1>1, <2>1 DEF Marked
  <2>4. Marked(Headers)' => \E c \in Boxes : c # b /\ cache[c] = Headers
    BY <1>4, <2>1 DEF MarksAreShared, Marked
  <2> QED
    BY <1>0, <1>1, <1>5, <2>2, <2>3, <2>4 DEF MarksAreShared
<1> QED
  BY <1>3, <1>4

\* A message that is fetched is in front of its mailbox's list, unmarked.
LEMMA FetchKeeps ==
    ASSUME TypeOK, HeldInv, MarksAreShared, Accounted, FetchOne
    PROVE  MarksAreShared' /\ Accounted'
<1> DEFINE b == Top.box
<1>1. /\ b \in Boxes /\ Len(stack) \in 1 .. Len(stack) /\ stack[Len(stack)] = Top
      /\ Top.at = "fetch" /\ UNCHANGED <<Headers, unlinked>>
  BY TopType DEF FetchOne, At, Top
<1>2. PICK m \in Nodes \ (live \union PointedTo) :
          /\ live' = live \union {m}
          /\ inUse' = [inUse EXCEPT ![m] = 0]
          /\ cache' = [cache EXCEPT ![Top.box] = <<m>> \o @]
  BY DEF FetchOne
<1>3. /\ cache'[b] = <<m>> \o cache[b]
      /\ \A c \in Boxes : c # b => cache'[c] = cache[c]
  BY <1>1, <1>2 DEF TypeOK
<1>4. ToSet(cache'[b]) = {m} \union ToSet(cache[b]) /\ Head(cache'[b]) = m
  <2>1. cache[b] \in Seq(Nodes)
    BY <1>1 DEF TypeOK
  <2>2. Head(<<m>> \o cache[b]) = m
    BY <2>1, <1>2
  <2> QED
    BY <2>1, <2>2, <1>2, <1>3, ConsToSet
<1>5. Apart(cache[b], Headers)
  BY <1>1 DEF FetchHidden, HeldInv
<1>6. m \notin ToSet(Headers) /\ \A c \in Boxes : m \notin ToSet(cache[c])
  BY <1>2 DEF CachesHeld, ShownHeld, HeldInv
<1>7. Accounted'
  <2>1. m \in PointedTo'
    BY <1>1, <1>4 DEF PointedTo
  <2>2. \A x \in PointedTo : x \in PointedTo'
    <3>1. SUFFICES ASSUME NEW c \in Boxes PROVE ToSet(cache[c]) \subseteq ToSet(cache'[c])
      BY <1>1 DEF PointedTo
    <3> QED
      BY <1>3, <1>4
  <2> QED
    BY <2>1, <2>2, <1>1, <1>2 DEF Accounted
<1>8. ASSUME NEW c \in ImapBoxes, Marked(cache[c])' PROVE Headers' = cache'[c]
  <2>0. c \in Boxes
    BY DEF Boxes
  <2>1. c # b
    BY <1>2, <1>4, <1>8 DEF Marked, TypeOK
  <2>2. cache'[c] = cache[c] /\ cache[c] # <<>> /\ inUse'[Head(cache[c])] > 0
    BY <1>3, <1>8, <2>0, <2>1 DEF Marked
  <2>3. Head(cache[c]) \in ToSet(cache[c])
    BY <2>0, <2>2, HeadInToSet DEF TypeOK
  <2>4. Head(cache[c]) # m
    BY <2>0, <2>3, <1>6
  <2>5. inUse'[Head(cache[c])] = inUse[Head(cache[c])]
    BY <2>0, <2>2, <2>3, <2>4, <1>2 DEF TypeOK
  <2> QED
    BY <1>1, <2>2, <2>5 DEF MarksAreShared, Marked
<1>9. ASSUME Marked(Headers)' PROVE \E c \in Boxes : cache'[c] = Headers'
  <2>1. Headers # <<>> /\ inUse'[Head(Headers)] > 0
    BY <1>1, <1>9 DEF Marked
  <2>2. Head(Headers) \in ToSet(Headers)
    BY <2>1, HeadInToSet DEF TypeOK
  <2>3. inUse'[Head(Headers)] = inUse[Head(Headers)]
    BY <2>2, <1>2, <1>6 DEF TypeOK
  <2>4. PICK c \in Boxes : cache[c] = Headers
    BY <2>1, <2>3 DEF MarksAreShared, Marked
  <2>5. c # b
    BY <2>2, <2>4, <1>5 DEF Apart
  <2> QED
    BY <1>1, <1>3, <2>4, <2>5
<1> QED
  BY <1>7, <1>8, <1>9 DEF MarksAreShared

\* The call goes on; nothing else changes.
LEMMA KeptMoves ==
    ASSUME KeptInv, NEW f \in Frames, stack' = <<f>>, LetGo(f),
           UNCHANGED <<live, inUse, cache, newwin, Headers, Active_pc, unlinked>>
    PROVE  KeptInv'
<1>1. LetGo(f)'
  BY DEF LetGo
<1>2. MarksAreShared' /\ Accounted' /\ ShownOfActive'
  BY DEF KeptInv, MarksAreShared, Marked, Accounted, PointedTo, ShownOfActive
<1> QED
  BY <1>1, <1>2 DEF KeptInv, OneCall

LEMMA NextKept == TypeOK /\ HeldInv /\ KeptInv /\ presses = "calm" /\ [Next]_vars => KeptInv'
<1> SUFFICES ASSUME TypeOK, HeldInv, KeptInv, presses = "calm", [Next]_vars PROVE KeptInv'
  OBVIOUS
<1>0. /\ OneCall /\ MarksAreShared /\ ShownOfActive /\ Accounted
      /\ ImapBoxes \intersect PopBoxes = {}
  BY MsgListAssumption DEF KeptInv
<1>1. ASSUME NEW b \in Boxes, PressCached(b) PROVE KeptInv'
  <2>1. /\ stack = <<>> /\ ~newwin /\ Show(b) /\ Active_pc' = b
        /\ UNCHANGED <<live, cache, unlinked, stack>>
    BY <1>1 DEF PressCached, MayPress
  <2> QED
    BY <1>0, <2>1, ShowKeeps DEF KeptInv, OneCall
<1>2. ASSUME NEW b \in Boxes, PressAndFetch(b) PROVE KeptInv'
  <2> DEFINE f == Frame(b, "popup", "login")
  <2>1. /\ stack = <<>> /\ ~newwin /\ cache[b] = <<>> /\ stack' = Append(stack, f)
        /\ Active_pc' = b /\ UNCHANGED <<live, inUse, cache, newwin, Headers, unlinked>>
    BY <1>2 DEF PressAndFetch, MayPress
  <2>2. f \in Frames /\ LetGo(f)'
    BY <2>1 DEF Frame, Frames, LetGo
  <2> HIDE DEF f
  <2>3. stack' = <<f>>
    BY <2>1
  <2>4. MarksAreShared' /\ Accounted' /\ ShownOfActive'
    BY <1>0, <2>1 DEF MarksAreShared, Marked, Accounted, PointedTo, ShownOfActive
  <2> QED
    BY <2>2, <2>3, <2>4 DEF KeptInv, OneCall
<1>3. ASSUME NEW b \in ImapBoxes, Poll(b) PROVE KeptInv'
  <2> DEFINE f == Frame(b, "check", "status")
  <2>1. stack' = <<f>> /\ UNCHANGED <<live, inUse, cache, newwin, Headers, Active_pc, unlinked>>
    BY <1>3 DEF Poll
  <2>2. f \in Frames /\ LetGo(f)
    BY DEF Frame, Frames, LetGo, Boxes
  <2> HIDE DEF f
  <2> QED
    BY <2>1, <2>2, KeptMoves
<1>4. ASSUME Hide PROVE KeptInv'
  BY <1>4, HideKeeps
<1>5. ASSUME StatusSame \/ NoAnswer \/ SearchedInVain \/ FetchEnds PROVE KeptInv'
  <2>1. stack # <<>> /\ Finish /\ UNCHANGED <<live, cache, Active_pc, unlinked>>
    BY <1>5 DEF StatusSame, NoAnswer, SearchedInVain, FetchEnds, At
  <2>2. PICK f \in Frames : stack = <<f>> /\ LetGo(f)
    BY <1>0, <2>1 DEF OneCall
  <2>3. stack' = <<>> /\ Top = f /\ f.box \in Boxes
    BY <2>1, <2>2, OnlyFinish DEF Frames
  <2>4. CASE f.why = "popup"
    <3>1. ~newwin /\ Show(f.box) /\ Active_pc' = f.box
      BY <2>1, <2>2, <2>3, <2>4 DEF LetGo, Finish
    <3> QED
      BY <1>0, <2>1, <2>3, <3>1, ShowKeeps DEF KeptInv, OneCall
  <2>5. CASE f.why # "popup"
    <3>1. UNCHANGED <<live, cache, Headers, inUse, newwin, Active_pc, unlinked>>
      BY <2>1, <2>3, <2>5 DEF Finish
    <3>2. MarksAreShared' /\ Accounted' /\ ShownOfActive'
      BY <1>0, <3>1 DEF MarksAreShared, Marked, Accounted, PointedTo, ShownOfActive
    <3> QED
      BY <2>3, <3>2 DEF KeptInv, OneCall
  <2> QED
    BY <2>4, <2>5
<1>6. ASSUME NEW at \in {"login", "search"}, NEW f \in Frames, stack = <<f>>, Goto(at),
             at = "search" => cache[f.box] = <<>>, at = "login" => f.box \in ImapBoxes,
             LetGo(f), UNCHANGED <<live, inUse, cache, newwin, Headers, Active_pc, unlinked>>
      PROVE  KeptInv'
  <2>1. PICK g : g = [f EXCEPT !.at = at]
    OBVIOUS
  <2>2. g \in Frames /\ g.box = f.box /\ g.at = at /\ g.why = f.why
    BY <2>1 DEF Frames
  <2>3. stack' = <<g>>
    BY <1>6, <2>1, OnlyGoto
  <2>4. LetGo(g)
    BY <1>0, <1>6, <2>2 DEF LetGo
  <2> QED
    BY <1>6, <2>2, <2>3, <2>4, KeptMoves
<1>7. CASE StatusChanged \/ Examined
  <2>1. PICK f \in Frames : stack = <<f>> /\ LetGo(f)
    BY <1>0, <1>7 DEF StatusChanged, Examined, At, OneCall
  <2>2. Top = f
    BY <2>1 DEF Top
  <2> QED
    BY <1>6, <1>7, <2>1, <2>2 DEF StatusChanged, Examined, At, LetGo
<1>8. CASE ImapReady
  <2>1. PICK f \in Frames : stack = <<f>> /\ LetGo(f)
    BY <1>0, <1>8 DEF ImapReady, At, OneCall
  <2>2. Top = f /\ f.box \in Boxes
    BY <2>1 DEF Top, Frames
  <2>3. /\ Release(cache[f.box]) /\ cache' = [cache EXCEPT ![f.box] = <<>>]
        /\ Goto("examine") /\ UNCHANGED <<newwin, Headers, Active_pc, unlinked>>
        /\ f.box \in ImapBoxes
    BY <1>8, <2>2 DEF ImapReady
  <2>4. PICK g : g = [f EXCEPT !.at = "examine"]
    OBVIOUS
  <2>5. g \in Frames /\ g.box = f.box /\ g.at = "examine" /\ g.why = f.why
    BY <2>4 DEF Frames
  <2>6. stack' = <<g>>
    BY <2>1, <2>3, <2>4, OnlyGoto
  <2>7. LetGo(g)'
    BY <2>1, <2>2, <2>3, <2>5 DEF LetGo, TypeOK
  <2>8. MarksAreShared' /\ ShownOfActive' /\ Accounted'
    BY <1>0, <2>2, <2>3, ReadyKeeps
  <2> QED
    BY <2>5, <2>6, <2>7, <2>8 DEF KeptInv, OneCall
<1>9. CASE PopReady \/ Searched
  <2>1. PICK f \in Frames : stack = <<f>> /\ LetGo(f)
    BY <1>0, <1>9 DEF PopReady, Searched, At, OneCall
  <2>2. Top = f /\ f.box \in Boxes
    BY <2>1 DEF Top, Frames
  <2>3. /\ cache[f.box] = <<>> /\ cache' = [cache EXCEPT ![f.box] = <<>>]
        /\ Goto("fetch") /\ UNCHANGED <<live, inUse, newwin, Headers, Active_pc, unlinked>>
    BY <1>9, <2>1, <2>2 DEF PopReady, Searched, At, LetGo
  <2>4. cache' = cache
    BY <2>3 DEF TypeOK
  <2>5. PICK g : g = [f EXCEPT !.at = "fetch"]
    OBVIOUS
  <2>6. g \in Frames /\ g.at = "fetch" /\ g.why = f.why /\ g.box = f.box
    BY <2>5 DEF Frames
  <2>7. stack' = <<g>>
    BY <2>1, <2>3, <2>5, OnlyGoto
  <2>8. LetGo(g)
    BY <2>1, <2>6 DEF LetGo
  <2> QED
    BY <2>3, <2>4, <2>6, <2>7, <2>8, KeptMoves
<1>10. CASE FetchOne
  <2>1. PICK f \in Frames : stack = <<f>> /\ LetGo(f)
    BY <1>0, <1>10 DEF FetchOne, At, OneCall
  <2>2. /\ f.at = "fetch" /\ Top = f /\ f.box \in Boxes
        /\ UNCHANGED <<newwin, Headers, Active_pc, stack>>
    BY <1>10, <2>1 DEF FetchOne, At, Top, Frames
  <2>3. LetGo(f)'
    BY <2>1, <2>2 DEF LetGo
  <2>4. newwin => f.box \in ImapBoxes
    BY <2>1 DEF LetGo, Frames
  <2>5. \A c \in Boxes : c # f.box => cache'[c] = cache[c]
    BY <1>10, <2>2 DEF FetchOne, TypeOK
  <2>6. ShownOfActive'
    BY <1>0, <2>2, <2>4, <2>5 DEF ShownOfActive, Boxes
  <2> QED
    BY <1>0, <1>10, <2>1, <2>2, <2>3, <2>6, FetchKeeps DEF KeptInv, OneCall
<1>11. CASE FetchUnanswered
  <2>1. /\ live' \subseteq live \union unlinked' /\ unlinked \subseteq unlinked'
        /\ UNCHANGED <<inUse, cache, newwin, Headers, Active_pc, stack>>
    BY <1>11 DEF FetchUnanswered
  <2>2. OneCall'
    BY <1>0, <2>1 DEF OneCall, LetGo
  <2>3. MarksAreShared' /\ ShownOfActive'
    BY <1>0, <2>1 DEF MarksAreShared, Marked, ShownOfActive
  <2>4. Accounted'
    BY <1>0, <2>1 DEF Accounted, PointedTo
  <2> QED
    BY <2>2, <2>3, <2>4 DEF KeptInv
<1>12. CASE UNCHANGED vars
  <2>1. OneCall'
    BY <1>0, <1>12 DEF vars, OneCall, LetGo
  <2>2. MarksAreShared' /\ ShownOfActive' /\ Accounted'
    BY <1>0, <1>12 DEF vars, MarksAreShared, Marked, ShownOfActive, Accounted, PointedTo
  <2> QED
    BY <2>1, <2>2 DEF KeptInv
<1> QED
  BY <1>1, <1>2, <1>3, <1>4, <1>5, <1>7, <1>8, <1>9, <1>10, <1>11, <1>12 DEF Next

\* While presses do not overlap, no list of headers is forgotten: the popup or
\* the mailbox, whichever lets it go last, frees it.  What no list has is, at most,
\* the message of a FETCH that an IMAP server did not answer.
THEOREM NoListIsLost == Spec => []NothingLost
<1>1. Init => TypeOK /\ CalmInv
  <2> SUFFICES ASSUME Init PROVE TypeOK /\ CalmInv
    OBVIOUS
  <2>1. HeldInv /\ TypeOK
    BY InitHeld, EmptySeq DEF Init, TypeOK
  <2>2. live = {} /\ stack = <<>> /\ Headers = <<>> /\ ~newwin
        /\ \A b \in ImapBoxes : cache[b] = <<>>
    BY DEF Init, Boxes
  <2> QED
    BY <2>1, <2>2 DEF CalmInv, KeptInv, OneCall, MarksAreShared, Marked, ShownOfActive, Accounted
<1>2. TypeOK /\ CalmInv /\ [Next]_vars => (TypeOK /\ CalmInv)'
  BY NextType, NextHeld, NextKept, PressesStay DEF CalmInv, Orderly
<1>3. CalmInv => NothingLost
  BY DEF CalmInv, KeptInv, Accounted, NothingLost
<1> QED
  BY <1>1, <1>2, <1>3, PTL DEF Spec
=============================================================================
