----------------------------- MODULE ImapProofs -----------------------------
(***************************************************************************)
(* Theorems about the connection cache, for any mailboxes and accounts, any *)
(* number of slots and any nesting of popups.                               *)
(***************************************************************************)
EXTENDS Imap, FiniteSetTheorems, FunctionTheorems, WellFoundedInduction, TLAPS

Frames == [box : Boxes, goal : {"check", "headers"},
           at : Waits \union {"connect"}, cs : Conns \union {NULL}]

\* The first and the last of some slots, which the loops over fdmap find.
LEMMA SmallestOf ==
    ASSUME NEW S \in SUBSET Nat, S # {}
    PROVE  \E m \in S : \A n \in S : m <= n
<1>1. \E m \in S : \A n \in S : ~ (<<n, m>> \in OpToRel(<, Nat))
  BY NatLessThanWellFounded, WFMin
<1>2. PICK m \in S : \A n \in S : ~ (<<n, m>> \in OpToRel(<, Nat))
  BY <1>1
<1>3. \A n \in S : ~ (n < m)
  BY <1>2 DEF OpToRel
<1> QED
  BY <1>3

LEMMA LargestOf ==
    ASSUME NEW S \in SUBSET Nat, S # {}, NEW N \in Nat, \A n \in S : n <= N
    PROVE  \E m \in S : \A n \in S : n <= m
<1> DEFINE R == {N - n : n \in S}
<1>1. R \in SUBSET Nat /\ R # {}
  <2>1. \A n \in S : N - n \in Nat
    OBVIOUS
  <2> QED
    BY <2>1
<1>2. PICK r \in R : \A q \in R : r <= q
  BY <1>1, SmallestOf
<1>3. PICK m \in S : r = N - m
  BY <1>2
<1>4. \A n \in S : N - m <= N - n
  BY <1>2, <1>3
<1> QED
  BY <1>3, <1>4

Maps == [Slots -> [id : Accounts \union {NULL}, cs : Conns \union {NULL}]]

LEMMA LastSlot ==
    ASSUME NEW map \in Maps, NEW b, {s \in Slots : map[s].id = Account(b)} # {}
    PROVE  \E s \in Slots : map[s].id = Account(b) /\ StateFor(map, b) = map[s].cs
<1> DEFINE mine == {s \in Slots : map[s].id = Account(b)}
<1>1. \E s \in mine : \A t \in mine : t <= s
  <2>1. mine \in SUBSET Nat /\ FDMAP_SIZE \in Nat /\ \A s \in mine : s <= FDMAP_SIZE
    BY ImapAssumption DEF Slots
  <2> QED
    BY <2>1, LargestOf
<1>2. (CHOOSE s \in mine : \A t \in mine : t <= s) \in mine
  BY <1>1
<1> QED
  BY <1>2 DEF StateFor

LEMMA StateForType ==
    ASSUME NEW map \in Maps, NEW b \in Boxes
    PROVE  StateFor(map, b) \in Conns \union {NULL}
<1>1. CASE {s \in Slots : map[s].id = Account(b)} = {}
  BY <1>1 DEF StateFor
<1>2. CASE {s \in Slots : map[s].id = Account(b)} # {}
  BY <1>2, LastSlot DEF Maps
<1> QED
  BY <1>1, <1>2

LEMMA EnterType ==
    ASSUME TypeOK, NEW b \in Boxes, NEW goal \in {"check", "headers"}
    PROVE  /\ Enter(b, goal) \in Frames
           /\ Enter(b, goal).at # "login"
           /\ Enter(b, goal).box = b /\ Enter(b, goal).goal = goal
           /\ Enter(b, goal).at = "connect" <=> StateFor(fdmap, b) = NULL
<1>1. StateFor(fdmap, b) \in Conns \union {NULL}
  BY StateForType DEF TypeOK, Maps
<1> QED
  BY <1>1 DEF Enter, Request, Frame, Frames, Waits

-----------------------------------------------------------------------------
(* The stack of calls: a call is added, goes on, or returns.                *)

Pushed(f) == stack' = Append(stack, f)

LEMMA TopType ==
    ASSUME TypeOK, stack # <<>>
    PROVE  /\ stack \in Seq(Frames) /\ Len(stack) \in Nat \ {0}
           /\ Top \in Frames /\ Top = stack[Len(stack)]
<1>1. stack \in Seq(Frames)
  BY DEF TypeOK, Frames
<1> QED
  BY <1>1 DEF Top

LEMMA PushFrames ==
    ASSUME TypeOK, NEW f \in Frames, Pushed(f)
    PROVE  /\ stack' \in Seq(Frames)
           /\ Len(stack') = Len(stack) + 1 /\ Len(stack) \in Nat
           /\ \A k \in 1 .. Len(stack) : stack'[k] = stack[k]
           /\ stack'[Len(stack) + 1] = f
<1>1. stack \in Seq(Frames)
  BY DEF TypeOK, Frames
<1> QED
  BY <1>1 DEF Pushed

LEMMA BelowFrames ==
    ASSUME NEW F, NEW s \in Seq(F), s # <<>>
    PROVE  LET below == SubSeq(s, 1, Len(s) - 1)
           IN  /\ below \in Seq(F)
               /\ Len(below) = Len(s) - 1
               /\ \A k \in 1 .. Len(s) - 1 : below[k] = s[k]
<1>1. Len(s) \in Nat \ {0} /\ s \in [1 .. Len(s) -> F]
  OBVIOUS
<1>2. Len(s) - 1 \in 0 .. Len(s)
  BY <1>1
<1> DEFINE below == SubSeq(s, 1, Len(s) - 1)
<1>3. below \in Seq(F)
  BY <1>1, <1>2
<1>4. Len(below) = Len(s) - 1
  BY <1>1, <1>2
<1>5. \A k \in 1 .. Len(s) - 1 : below[k] = s[k]
  BY <1>1, <1>2
<1> QED
  BY <1>3, <1>4, <1>5

LEMMA PopFrames ==
    ASSUME TypeOK, stack # <<>>, Return
    PROVE  /\ stack' \in Seq(Frames)
           /\ Len(stack') = Len(stack) - 1
           /\ \A k \in 1 .. Len(stack) - 1 : stack'[k] = stack[k]
<1>1. stack \in Seq(Frames) /\ Len(stack) \in Nat \ {0}
  BY TopType
<1> QED
  BY <1>1, BelowFrames DEF Return, Below

LEMMA GotoFrames ==
    ASSUME TypeOK, stack # <<>>, NEW f \in Frames, Goto(f)
    PROVE  /\ stack' \in Seq(Frames)
           /\ Len(stack') = Len(stack)
           /\ \A k \in 1 .. Len(stack) - 1 : stack'[k] = stack[k]
           /\ stack'[Len(stack)] = f
<1>1. stack \in Seq(Frames) /\ Len(stack) \in Nat \ {0}
  BY TopType
<1>2. Below \in Seq(Frames) /\ Len(Below) = Len(stack) - 1
      /\ \A k \in 1 .. Len(stack) - 1 : Below[k] = stack[k]
  BY <1>1, BelowFrames DEF Below
<1> QED
  BY <1>1, <1>2 DEF Goto

-----------------------------------------------------------------------------
(* No connection is lost, closed twice or handed out closed.                *)

Login(k) == stack[k].at = "login"

\* A call that logs in holds an open connection of its own, not yet in the
\* cache.
LoginsHold ==
    \A k \in 1 .. Len(stack) : Login(k) =>
        /\ stack[k].cs \in open
        /\ \A s \in Slots : fdmap[s].cs # stack[k].cs
LoginsApart ==
    \A j, k \in 1 .. Len(stack) :
        Login(j) /\ Login(k) /\ stack[j].cs = stack[k].cs => j = k

\* The inductive invariant.
CacheInv ==
    /\ TypeOK
    /\ SlotsHoldOpenConnections
    /\ NothingLeaks
    /\ LoginsHold
    /\ LoginsApart

\* The cache and the connections stay as they are, and so do the calls that
\* log in.
LEMMA QuietMove ==
    ASSUME CacheInv, UNCHANGED <<setup, fdmap, open>>, stack' \in Seq(Frames),
           ended' \in {"no", "exit", "crash"},
           NEW n \in Nat, n <= Len(stack), n <= Len(stack'),
           \A k \in 1 .. n : stack'[k] = stack[k],
           \A k \in 1 .. Len(stack) : k > n => ~Login(k),
           \A k \in 1 .. Len(stack') : k > n => ~Login(k)'
    PROVE  CacheInv'
<1>1. stack \in Seq(Frames) /\ Len(stack) \in Nat /\ Len(stack') \in Nat
  BY DEF CacheInv, TypeOK, Frames
<1>2. \A k \in 1 .. Len(stack) : Login(k) => k \in 1 .. n
  BY <1>1
<1>3. \A k \in 1 .. Len(stack') : Login(k)' => k \in 1 .. n
  BY <1>1
<1>4. \A k \in 1 .. n : /\ k \in 1 .. Len(stack) /\ k \in 1 .. Len(stack')
                        /\ stack'[k] = stack[k] /\ Login(k)' = Login(k)
  BY <1>1 DEF Login
<1>5. TypeOK'
  BY DEF CacheInv, TypeOK, Frames, Slots
<1>6. SlotsHoldOpenConnections'
  BY DEF CacheInv, SlotsHoldOpenConnections, Slots, Free, Slot
<1>7. NothingLeaks'
  <2>1. SUFFICES ASSUME NEW c \in open, ~ \E s \in Slots : fdmap[s].cs = c
                 PROVE  \E k \in 1 .. Len(stack') : Login(k)' /\ stack'[k].cs = c
    BY DEF NothingLeaks, Login
  <2>2. PICK k \in 1 .. Len(stack) : Login(k) /\ stack[k].cs = c
    BY <2>1 DEF CacheInv, NothingLeaks, Login
  <2>3. k \in 1 .. n
    BY <2>2, <1>2
  <2> QED
    BY <2>2, <2>3, <1>4
<1>8. LoginsHold'
  <2>1. SUFFICES ASSUME NEW k \in 1 .. Len(stack'), Login(k)'
                 PROVE  /\ stack'[k].cs \in open
                        /\ \A s \in Slots : fdmap[s].cs # stack'[k].cs
    BY DEF LoginsHold
  <2>2. k \in 1 .. n
    BY <2>1, <1>3
  <2> QED
    BY <2>1, <2>2, <1>4 DEF CacheInv, LoginsHold
<1>9. LoginsApart'
  <2>1. SUFFICES ASSUME NEW j \in 1 .. Len(stack'), NEW k \in 1 .. Len(stack'),
                        Login(j)', Login(k)', stack'[j].cs = stack'[k].cs
                 PROVE  j = k
    BY DEF LoginsApart
  <2>2. j \in 1 .. n /\ k \in 1 .. n
    BY <2>1, <1>3
  <2> QED
    BY <2>1, <2>2, <1>4 DEF CacheInv, LoginsApart
<1> QED
  BY <1>5, <1>6, <1>7, <1>8, <1>9 DEF CacheInv

\* A call enters, is answered, or gives up before it has a connection.
LEMMA PollKeeps == ASSUME CacheInv, NEW b \in Boxes, Poll(b) PROVE CacheInv'
<1>1. TypeOK /\ stack = <<>> /\ Len(stack) = 0
  BY DEF CacheInv, Poll
<1>2. Enter(b, "check") \in Frames /\ Enter(b, "check").at # "login"
  BY <1>1, EnterType
<1>3. stack' = <<Enter(b, "check")>> /\ UNCHANGED <<setup, fdmap, open, ended>>
  BY DEF Poll
<1>4. stack' \in Seq(Frames) /\ Len(stack') = 1 /\ stack'[1].at # "login"
  BY <1>2, <1>3
<1>5. \A k \in 1 .. Len(stack') : ~Login(k)'
  BY <1>4 DEF Login
<1>6. ended' \in {"no", "exit", "crash"}
  BY <1>1, <1>3 DEF TypeOK
<1> QED
  BY <1>1, <1>3, <1>4, <1>5, <1>6, QuietMove

LEMMA PopupKeeps == ASSUME CacheInv, NEW b \in Boxes, Popup(b) PROVE CacheInv'
<1> DEFINE f == Enter(b, "headers")
<1>1. TypeOK /\ stack' = Append(stack, f) /\ UNCHANGED <<setup, fdmap, open, ended>>
  BY DEF CacheInv, Popup
<1>2. f \in Frames /\ f.at # "login"
  BY <1>1, EnterType
<1> HIDE DEF f
<1>3. /\ stack' \in Seq(Frames) /\ Len(stack) \in Nat /\ Len(stack') = Len(stack) + 1
      /\ \A k \in 1 .. Len(stack) : stack'[k] = stack[k]
      /\ stack'[Len(stack) + 1] = f
  BY <1>1, <1>2, PushFrames DEF Pushed
<1>4. \A k \in 1 .. Len(stack') : k > Len(stack) => ~Login(k)'
  BY <1>2, <1>3 DEF Login
<1>5. ended' \in {"no", "exit", "crash"}
  BY <1>1 DEF TypeOK
<1> QED
  BY <1>1, <1>3, <1>4, <1>5, QuietMove

\* The call on top, which is not logging in, returns or goes on elsewhere.
TopMoves == Return \/ \E f \in Frames : f.at # "login" /\ Goto(f)

LEMMA TopMoveFrames ==
    ASSUME TypeOK, stack # <<>>, TopMoves
    PROVE  /\ Len(stack) \in Nat \ {0} /\ Len(stack') \in Nat
           /\ Len(stack) - 1 <= Len(stack') /\ Len(stack') <= Len(stack)
           /\ stack' \in Seq(Frames)
           /\ \A k \in 1 .. Len(stack) - 1 : stack'[k] = stack[k]
           /\ \A k \in 1 .. Len(stack') : k > Len(stack) - 1 => ~Login(k)'
<1>1. Len(stack) \in Nat \ {0}
  BY TopType
<1>2. CASE Return
  <2>1. /\ stack' \in Seq(Frames) /\ Len(stack') = Len(stack) - 1
        /\ \A k \in 1 .. Len(stack) - 1 : stack'[k] = stack[k]
    BY <1>2, PopFrames
  <2> QED
    BY <1>1, <2>1
<1>3. ASSUME NEW f \in Frames, f.at # "login", Goto(f)
      PROVE  /\ Len(stack') = Len(stack) /\ stack' \in Seq(Frames)
             /\ \A k \in 1 .. Len(stack) - 1 : stack'[k] = stack[k]
             /\ \A k \in 1 .. Len(stack') : k > Len(stack) - 1 => ~Login(k)'
  <2>1. /\ stack' \in Seq(Frames) /\ Len(stack') = Len(stack)
        /\ \A k \in 1 .. Len(stack) - 1 : stack'[k] = stack[k]
        /\ stack'[Len(stack)] = f
    BY <1>3, GotoFrames
  <2> QED
    BY <1>1, <1>3, <2>1 DEF Login
<1> QED
  BY <1>1, <1>2, <1>3 DEF TopMoves

LEMMA QuietTop ==
    ASSUME CacheInv, stack # <<>>, Top.at # "login", TopMoves,
           UNCHANGED <<setup, fdmap, open, ended>>
    PROVE  CacheInv'
<1>1. TypeOK /\ ended' \in {"no", "exit", "crash"}
  BY DEF CacheInv, TypeOK
<1>2. /\ Len(stack) \in Nat \ {0} /\ Len(stack') \in Nat
      /\ Len(stack) - 1 <= Len(stack') /\ Len(stack') <= Len(stack)
      /\ stack' \in Seq(Frames)
      /\ \A k \in 1 .. Len(stack) - 1 : stack'[k] = stack[k]
      /\ \A k \in 1 .. Len(stack') : k > Len(stack) - 1 => ~Login(k)'
  BY <1>1, TopMoveFrames
<1>3. \A k \in 1 .. Len(stack) : k > Len(stack) - 1 => ~Login(k)
  BY <1>1, <1>2, TopType DEF Login
<1> DEFINE n == Len(stack) - 1
<1>4. n \in Nat /\ n <= Len(stack) /\ n <= Len(stack')
  BY <1>2
<1>5. /\ \A k \in 1 .. n : stack'[k] = stack[k]
      /\ \A k \in 1 .. Len(stack) : k > n => ~Login(k)
      /\ \A k \in 1 .. Len(stack') : k > n => ~Login(k)'
  BY <1>2, <1>3
<1> HIDE DEF n
<1> QED
  BY <1>1, <1>2, <1>4, <1>5, QuietMove

LEMMA AnswersKeep ==
    ASSUME CacheInv,
           NoConnection \/ StatusAnswered \/ ExamineAnswered \/ SearchAnswered \/ Fetched
    PROVE  CacheInv'
<1>1. /\ TypeOK /\ stack # <<>> /\ Top.at # "login" /\ Top \in Frames
      /\ UNCHANGED <<setup, fdmap, open, ended>>
  <2>1. stack # <<>> /\ Top.at # "login" /\ UNCHANGED <<setup, fdmap, open, ended>>
    BY DEF NoConnection, StatusAnswered, ExamineAnswered, SearchAnswered, Fetched, At
  <2> QED
    BY <2>1, TopType DEF CacheInv
<1>2. CASE NoConnection
  BY <1>1, <1>2, QuietTop DEF NoConnection, TopMoves
<1>3. CASE StatusAnswered
  <2>1. Enter(Top.box, "headers") \in Frames /\ Enter(Top.box, "headers").at # "login"
    BY <1>1, EnterType DEF Frames
  <2>2. TopMoves
    BY <1>3, <2>1 DEF StatusAnswered, TopMoves
  <2> QED
    BY <1>1, <2>2, QuietTop
<1>4. CASE ExamineAnswered
  <2>1. [Top EXCEPT !.at = "search"] \in Frames /\ [Top EXCEPT !.at = "search"].at # "login"
    BY <1>1 DEF Frames, Waits
  <2>2. TopMoves
    BY <1>4, <2>1 DEF ExamineAnswered, TopMoves
  <2> QED
    BY <1>1, <2>2, QuietTop
<1>5. CASE SearchAnswered
  <2>1. [Top EXCEPT !.at = "fetch"] \in Frames /\ [Top EXCEPT !.at = "fetch"].at # "login"
    BY <1>1 DEF Frames, Waits
  <2>2. TopMoves
    BY <1>5, <2>1 DEF SearchAnswered, TopMoves
  <2> QED
    BY <1>1, <2>2, QuietTop
<1>6. CASE Fetched
  BY <1>1, <1>6, QuietTop DEF Fetched, TopMoves
<1> QED
  BY <1>2, <1>3, <1>4, <1>5, <1>6

LEMMA ConnectKeeps == ASSUME CacheInv, Connect PROVE CacheInv'
<1>1. TypeOK /\ stack # <<>> /\ Top.at = "connect" /\ Top \in Frames
      /\ Len(stack) \in Nat \ {0} /\ Top = stack[Len(stack)]
      /\ UNCHANGED <<setup, fdmap, ended>>
  <2>1. TypeOK /\ stack # <<>> /\ Top.at = "connect" /\ UNCHANGED <<setup, fdmap, ended>>
    BY DEF CacheInv, Connect, At
  <2> QED
    BY <2>1, TopType
<1>2. PICK c \in Conns \ open :
        open' = open \union {c} /\ Goto([Top EXCEPT !.at = "login", !.cs = c])
  BY DEF Connect
<1> DEFINE f == [Top EXCEPT !.at = "login", !.cs = c]
<1>3. f \in Frames /\ f.at = "login" /\ f.cs = c
  BY <1>1 DEF Frames, Waits
<1>4. /\ stack' \in Seq(Frames) /\ Len(stack') = Len(stack)
      /\ \A k \in 1 .. Len(stack) - 1 : stack'[k] = stack[k]
      /\ stack'[Len(stack)] = f
  BY <1>1, <1>2, <1>3, GotoFrames
<1> HIDE DEF f
<1>0. PICK n \in Nat : n = Len(stack)
  BY <1>1
<1>5. \A k \in 1 .. n : k = n \/ k \in 1 .. n - 1
  BY <1>0, <1>1
<1>6. \A k \in 1 .. n - 1 : k \in 1 .. n /\ Login(k)' = Login(k) /\ stack'[k] = stack[k]
  BY <1>0, <1>1, <1>4 DEF Login
<1>7. ~Login(n) /\ Login(n)' /\ stack'[n].cs = c /\ n \in 1 .. n
  BY <1>0, <1>1, <1>3, <1>4 DEF Login
<1>8. \A k \in 1 .. n - 1 : Login(k) => stack[k].cs \in open /\ stack[k].cs # c
  BY <1>0, <1>2, <1>6 DEF CacheInv, LoginsHold
<1>9. \A s \in Slots : fdmap[s].cs # c
  BY <1>2, ImapAssumption DEF CacheInv, SlotsHoldOpenConnections, Free, Slot
<1>10. TypeOK'
  BY <1>1, <1>2, <1>4 DEF TypeOK, Frames, Slots
<1>11. SlotsHoldOpenConnections'
  BY <1>1, <1>2 DEF CacheInv, SlotsHoldOpenConnections, Slots, Free, Slot
<1>12. NothingLeaks'
  <2> SUFFICES ASSUME NEW d \in open', ~ \E s \in Slots : fdmap'[s].cs = d
               PROVE  \E k \in 1 .. Len(stack') : Login(k)' /\ stack'[k].cs = d
    BY DEF NothingLeaks, Login
  <2>1. ~ (\E s \in Slots : fdmap[s].cs = d) /\ Len(stack') = n
    BY <1>0, <1>1, <1>4
  <2>2. CASE d = c
    <3>1. n \in 1 .. Len(stack') /\ Login(n)' /\ stack'[n].cs = d
      BY <2>1, <2>2, <1>7
    <3> QED
      BY <3>1
  <2>3. CASE d # c
    <3>1. d \in open
      BY <2>3, <1>2
    <3>2. PICK k \in 1 .. n : Login(k) /\ stack[k].cs = d
      BY <1>0, <2>1, <3>1 DEF CacheInv, NothingLeaks, Login
    <3>3. k \in 1 .. n - 1
      BY <3>2, <1>5, <1>7
    <3> QED
      BY <2>1, <3>2, <3>3, <1>5, <1>6
  <2> QED
    BY <2>2, <2>3
<1>13. LoginsHold'
  <2>1. SUFFICES ASSUME NEW k \in 1 .. n, Login(k)'
                 PROVE  /\ stack'[k].cs \in open'
                        /\ \A s \in Slots : fdmap[s].cs # stack'[k].cs
    BY <1>0, <1>1, <1>4 DEF LoginsHold, Slots
  <2>2. CASE k = n
    BY <2>2, <1>2, <1>7, <1>9
  <2>3. CASE k # n
    BY <1>0, <2>1, <2>3, <1>2, <1>5, <1>6 DEF CacheInv, LoginsHold
  <2> QED
    BY <2>2, <2>3
<1>14. LoginsApart'
  <2>1. SUFFICES ASSUME NEW j \in 1 .. n, NEW k \in 1 .. n,
                        Login(j)', Login(k)', stack'[j].cs = stack'[k].cs
                 PROVE  j = k
    BY <1>0, <1>1, <1>4 DEF LoginsApart
  <2>2. CASE j = n
    BY <2>1, <2>2, <1>5, <1>6, <1>7, <1>8
  <2>3. CASE k = n
    BY <2>1, <2>3, <1>5, <1>6, <1>7, <1>8
  <2>4. CASE j # n /\ k # n
    BY <1>0, <2>1, <2>4, <1>5, <1>6 DEF CacheInv, LoginsApart
  <2> QED
    BY <2>2, <2>3, <2>4
<1> QED
  BY <1>10, <1>11, <1>12, <1>13, <1>14 DEF CacheInv

\* The caller of imap_open goes on, or returns.
LEMMA ContinueMoves ==
    ASSUME NEW map \in Maps, TypeOK, stack # <<>>, Continue(map)
    PROVE  TopMoves
<1>1. Top \in Frames
  BY TopType
<1>2. CASE StateFor(map, Top.box) = NULL
  BY <1>2 DEF Continue, TopMoves
<1>3. CASE StateFor(map, Top.box) # NULL
  <2> DEFINE f == Request(Top.box, Top.goal, StateFor(map, Top.box))
  <2>1. StateFor(map, Top.box) \in Conns \union {NULL}
    BY <1>1, StateForType DEF Frames
  <2>2. f \in Frames /\ f.at # "login"
    BY <1>1, <2>1 DEF Request, Frame, Frames, Waits
  <2> QED
    BY <1>3, <2>2 DEF Continue, TopMoves
<1> QED
  BY <1>2, <1>3

\* When the top call moves, the calls below it stay.
LEMMA OthersStay ==
    ASSUME TypeOK, stack # <<>>, TopMoves
    PROVE  /\ stack' \in Seq(Frames)
           /\ \A k \in 1 .. Len(stack) - 1 : /\ k \in 1 .. Len(stack) /\ k # Len(stack)
                                             /\ k \in 1 .. Len(stack')
                                             /\ stack'[k] = stack[k] /\ Login(k)' = Login(k)
           /\ \A k \in 1 .. Len(stack') : Login(k)' => k \in 1 .. Len(stack) - 1
           /\ \A k \in 1 .. Len(stack) : k = Len(stack) \/ k \in 1 .. Len(stack) - 1
  BY TopMoveFrames DEF Login

LEMMA LoginWorksKeeps == ASSUME CacheInv, LoginWorks PROVE CacheInv'
<1>1. /\ TypeOK /\ stack # <<>> /\ Top.at = "login" /\ Top \in Frames
      /\ Len(stack) \in Nat \ {0} /\ Top = stack[Len(stack)]
      /\ UNCHANGED <<setup, open>>
  <2>1. TypeOK /\ stack # <<>> /\ Top.at = "login" /\ UNCHANGED <<setup, open>>
    BY DEF CacheInv, LoginWorks, At
  <2> QED
    BY <2>1, TopType
<1>2. CASE Unused = {}
  <2>1. ended' = "exit" /\ UNCHANGED <<fdmap, stack>>
    BY <1>2 DEF LoginWorks
  <2> QED
    BY <1>1, <2>1 DEF CacheInv, TypeOK, SlotsHoldOpenConnections, NothingLeaks,
      LoginsHold, LoginsApart, Login, Slots, Free, Slot
<1>3. CASE Unused # {}
  <2> DEFINE u == CHOOSE s \in Unused : \A t \in Unused : s <= t
  <2>1. PICK s \in Slots : s = u /\ fdmap[s].cs = NULL
    <3>1. Unused \in SUBSET Nat
      BY DEF Unused, Slots
    <3>2. \E m \in Unused : \A t \in Unused : m <= t
      BY <1>3, <3>1, SmallestOf
    <3>3. u \in Unused
      BY <3>2
    <3> QED
      BY <3>3 DEF Unused
  <2>2. /\ fdmap' = [fdmap EXCEPT ![s] = Slot(Account(Top.box), Top.cs)]
        /\ Continue(fdmap') /\ ended' = ended
    BY <1>3, <2>1 DEF LoginWorks
  <2> HIDE DEF u
  <2>3. PICK n \in Nat : n = Len(stack) /\ n \in 1 .. n
    BY <1>1
  <2>4. PICK c \in Conns : c = Top.cs /\ stack[n].cs = c /\ c \in open
    <3>1. n \in 1 .. Len(stack) /\ Login(n)
      BY <1>1, <2>3 DEF Login
    <3> QED
      BY <1>1, <2>3, <3>1 DEF CacheInv, LoginsHold, TypeOK
  <2>5. Account(Top.box) \in Accounts
    BY <1>1, ImapAssumption DEF TypeOK, Frames, Setup, Account
  <2>6. /\ fdmap' \in Maps
        /\ fdmap'[s].id = Account(Top.box) /\ fdmap'[s].cs = c
        /\ \A t \in Slots : t # s => fdmap'[t] = fdmap[t]
    BY <1>1, <2>2, <2>4, <2>5 DEF TypeOK, Maps, Slot
  <2>7. TopMoves
    BY <1>1, <2>2, <2>6, ContinueMoves
  <2>8. /\ stack' \in Seq(Frames)
        /\ \A k \in 1 .. n - 1 : /\ k \in 1 .. n /\ k # n /\ k \in 1 .. Len(stack')
                                 /\ stack'[k] = stack[k] /\ Login(k)' = Login(k)
        /\ \A k \in 1 .. Len(stack') : Login(k)' => k \in 1 .. n - 1
        /\ \A k \in 1 .. n : k = n \/ k \in 1 .. n - 1
    BY <1>1, <2>3, <2>7, OthersStay
  <2>9. Login(n) /\ \A t \in Slots : fdmap[t].cs # c
    BY <1>1, <2>3, <2>4 DEF CacheInv, LoginsHold, Login
  <2>10. \A k \in 1 .. n - 1 : Login(k) => stack[k].cs # c
    BY <2>3, <2>4, <2>8, <2>9 DEF CacheInv, LoginsApart
  <2>11. TypeOK'
    BY <1>1, <2>2, <2>6, <2>8 DEF TypeOK, Maps, Frames, Slots
  <2>12. SlotsHoldOpenConnections'
    <3>1. \A t \in Slots : fdmap'[t] = Free \/ (fdmap'[t].id # NULL /\ fdmap'[t].cs \in open)
      <4>1. TAKE t \in Slots
      <4>2. CASE t = s
        BY <4>2, <2>4, <2>5, <2>6, ImapAssumption
      <4>3. CASE t # s
        BY <4>3, <2>6 DEF CacheInv, SlotsHoldOpenConnections
      <4> QED
        BY <4>2, <4>3
    <3>2. \A r, t \in Slots :
            fdmap'[r].cs = fdmap'[t].cs /\ fdmap'[r].cs # NULL => r = t
      BY <2>6, <2>9 DEF CacheInv, SlotsHoldOpenConnections
    <3> QED
      BY <1>1, <3>1, <3>2 DEF SlotsHoldOpenConnections, Slots, Free, Slot
  <2>13. NothingLeaks'
    <3>1. SUFFICES ASSUME NEW d \in open
                   PROVE  \/ \E t \in Slots : fdmap'[t].cs = d
                          \/ \E k \in 1 .. Len(stack') : Login(k)' /\ stack'[k].cs = d
      BY <1>1 DEF NothingLeaks, Login, Slots
    <3>2. CASE d = c
      BY <3>2, <2>6
    <3>3. CASE \E t \in Slots : fdmap[t].cs = d
      <4>1. d # NULL
        BY <1>1, ImapAssumption DEF TypeOK
      <4> QED
        BY <3>3, <4>1, <2>1, <2>6
    <3>4. CASE d # c /\ \E k \in 1 .. n : Login(k) /\ stack[k].cs = d
      <4>1. PICK k \in 1 .. n : Login(k) /\ stack[k].cs = d
        BY <3>4
      <4>2. k \in 1 .. n - 1
        BY <3>4, <4>1, <2>4, <2>8
      <4> QED
        BY <4>1, <4>2, <2>8
    <3> QED
      BY <3>2, <3>3, <3>4, <2>3 DEF CacheInv, NothingLeaks, Login
  <2>14. LoginsHold'
    <3>1. SUFFICES ASSUME NEW k \in 1 .. Len(stack'), Login(k)'
                   PROVE  /\ stack'[k].cs \in open
                          /\ \A t \in Slots : fdmap'[t].cs # stack'[k].cs
      BY <1>1 DEF LoginsHold, Slots
    <3>2. k \in 1 .. n - 1 /\ stack'[k] = stack[k] /\ Login(k) /\ k \in 1 .. n
      BY <3>1, <2>8
    <3>3. stack[k].cs \in open /\ (\A t \in Slots : fdmap[t].cs # stack[k].cs)
      BY <3>2, <2>3 DEF CacheInv, LoginsHold
    <3> QED
      BY <3>2, <3>3, <2>6, <2>10
  <2>15. LoginsApart'
    <3>1. SUFFICES ASSUME NEW j \in 1 .. Len(stack'), NEW k \in 1 .. Len(stack'),
                          Login(j)', Login(k)', stack'[j].cs = stack'[k].cs
                   PROVE  j = k
      BY DEF LoginsApart
    <3>2. j \in 1 .. n - 1 /\ k \in 1 .. n - 1
      BY <3>1, <2>8
    <3> QED
      BY <3>1, <3>2, <2>3, <2>8 DEF CacheInv, LoginsApart
  <2> QED
    BY <2>11, <2>12, <2>13, <2>14, <2>15 DEF CacheInv
<1> QED
  BY <1>2, <1>3

LEMMA LoginFailsKeeps == ASSUME CacheInv, LoginFails PROVE CacheInv'
<1>1. /\ TypeOK /\ stack # <<>> /\ Top.at = "login" /\ Top \in Frames
      /\ Len(stack) \in Nat \ {0} /\ Top = stack[Len(stack)]
      /\ open' = open \ {Top.cs} /\ Continue(fdmap)
      /\ UNCHANGED <<setup, fdmap, ended>>
  <2>1. /\ TypeOK /\ stack # <<>> /\ Top.at = "login"
        /\ open' = open \ {Top.cs} /\ Continue(fdmap)
        /\ UNCHANGED <<setup, fdmap, ended>>
    BY DEF CacheInv, LoginFails, At
  <2> QED
    BY <2>1, TopType
<1>2. TopMoves
  BY <1>1, ContinueMoves DEF TypeOK, Maps
<1>3. PICK n \in Nat : n = Len(stack) /\ n \in 1 .. n
  BY <1>1
<1>4. /\ stack' \in Seq(Frames)
      /\ \A k \in 1 .. n - 1 : /\ k \in 1 .. n /\ k # n /\ k \in 1 .. Len(stack')
                               /\ stack'[k] = stack[k] /\ Login(k)' = Login(k)
      /\ \A k \in 1 .. Len(stack') : Login(k)' => k \in 1 .. n - 1
      /\ \A k \in 1 .. n : k = n \/ k \in 1 .. n - 1
  BY <1>1, <1>2, <1>3, OthersStay
<1>5. Login(n) /\ stack[n] = Top /\ \A t \in Slots : fdmap[t].cs # Top.cs
  BY <1>1, <1>3 DEF CacheInv, LoginsHold, Login
<1>6. \A k \in 1 .. n - 1 : Login(k) => stack[k].cs # Top.cs
  BY <1>3, <1>4, <1>5 DEF CacheInv, LoginsApart
<1>7. TypeOK'
  BY <1>1, <1>4 DEF TypeOK, Frames, Slots
<1>8. SlotsHoldOpenConnections'
  BY <1>1, <1>5 DEF CacheInv, SlotsHoldOpenConnections, Slots, Free, Slot
<1>9. NothingLeaks'
  <2>1. SUFFICES ASSUME NEW d \in open, d # Top.cs, ~ \E t \in Slots : fdmap[t].cs = d
                 PROVE  \E k \in 1 .. Len(stack') : Login(k)' /\ stack'[k].cs = d
    BY <1>1 DEF NothingLeaks, Login, Slots
  <2>2. PICK k \in 1 .. n : Login(k) /\ stack[k].cs = d
    BY <2>1, <1>3 DEF CacheInv, NothingLeaks, Login
  <2>3. k \in 1 .. n - 1
    BY <2>1, <2>2, <1>4, <1>5
  <2> QED
    BY <2>2, <2>3, <1>4
<1>10. LoginsHold'
  <2>1. SUFFICES ASSUME NEW k \in 1 .. Len(stack'), Login(k)'
                 PROVE  /\ stack'[k].cs \in open \ {Top.cs}
                        /\ \A t \in Slots : fdmap[t].cs # stack'[k].cs
    BY <1>1 DEF LoginsHold, Slots
  <2>2. k \in 1 .. n - 1 /\ stack'[k] = stack[k] /\ Login(k) /\ k \in 1 .. n
    BY <2>1, <1>4
  <2>3. stack[k].cs \in open /\ (\A t \in Slots : fdmap[t].cs # stack[k].cs)
    BY <2>2, <1>3 DEF CacheInv, LoginsHold
  <2> QED
    BY <2>2, <2>3, <1>6
<1>11. LoginsApart'
  <2>1. SUFFICES ASSUME NEW j \in 1 .. Len(stack'), NEW k \in 1 .. Len(stack'),
                        Login(j)', Login(k)', stack'[j].cs = stack'[k].cs
                 PROVE  j = k
    BY DEF LoginsApart
  <2>2. j \in 1 .. n - 1 /\ k \in 1 .. n - 1
    BY <2>1, <1>4
  <2> QED
    BY <2>1, <2>2, <1>3, <1>4 DEF CacheInv, LoginsApart
<1> QED
  BY <1>7, <1>8, <1>9, <1>10, <1>11 DEF CacheInv

\* A call with a connection that is waited on gives it up; the code ends the
\* program when it is not in the cache any more.
LEMMA NoAnswerKeeps == ASSUME CacheInv, NoAnswer PROVE CacheInv'
<1> DEFINE bound == {t \in Slots : fdmap[t].cs = Top.cs}
<1>1. /\ TypeOK /\ stack # <<>> /\ Top.at # "login" /\ Top \in Frames
      /\ Len(stack) \in Nat \ {0} /\ Top = stack[Len(stack)]
      /\ Drop(Top.cs) /\ Return /\ UNCHANGED setup
  <2>1. /\ TypeOK /\ stack # <<>> /\ Top.at # "login"
        /\ Drop(Top.cs) /\ Return /\ UNCHANGED setup
    BY DEF CacheInv, NoAnswer, At
  <2> QED
    BY <2>1, TopType
<1>2. TopMoves
  BY <1>1 DEF TopMoves
<1>3. PICK n \in Nat : n = Len(stack) /\ n \in 1 .. n
  BY <1>1
<1>4. /\ stack' \in Seq(Frames)
      /\ \A k \in 1 .. n - 1 : /\ k \in 1 .. n /\ k # n /\ k \in 1 .. Len(stack')
                               /\ stack'[k] = stack[k] /\ Login(k)' = Login(k)
      /\ \A k \in 1 .. Len(stack') : Login(k)' => k \in 1 .. n - 1
      /\ \A k \in 1 .. n : k = n \/ k \in 1 .. n - 1
  BY <1>1, <1>2, <1>3, OthersStay
<1>5. ~Login(n)
  BY <1>1, <1>3 DEF Login
<1>6. LoginsApart'
  <2>1. SUFFICES ASSUME NEW j \in 1 .. Len(stack'), NEW k \in 1 .. Len(stack'),
                        Login(j)', Login(k)', stack'[j].cs = stack'[k].cs
                 PROVE  j = k
    BY DEF LoginsApart
  <2>2. j \in 1 .. n - 1 /\ k \in 1 .. n - 1
    BY <2>1, <1>4
  <2> QED
    BY <2>1, <2>2, <1>3, <1>4 DEF CacheInv, LoginsApart
<1>7. \A d : (\E k \in 1 .. n : Login(k) /\ stack[k].cs = d)
            => \E k \in 1 .. Len(stack') : Login(k)' /\ stack'[k].cs = d
  BY <1>4, <1>5
<1>8. \A k \in 1 .. Len(stack') : Login(k)' =>
        /\ stack'[k].cs \in open
        /\ \A t \in Slots : fdmap[t].cs # stack'[k].cs
  BY <1>3, <1>4 DEF CacheInv, LoginsHold
<1>9. CASE bound = {}
  <2>1. ended' = "crash" /\ UNCHANGED <<fdmap, open>>
    BY <1>1, <1>9 DEF Drop
  <2>2. TypeOK'
    BY <1>1, <1>4, <2>1 DEF TypeOK, Frames, Slots
  <2>3. SlotsHoldOpenConnections'
    BY <2>1 DEF CacheInv, SlotsHoldOpenConnections, Slots, Free, Slot
  <2>4. NothingLeaks'
    BY <1>3, <1>7, <2>1 DEF CacheInv, NothingLeaks, Login, Slots
  <2>5. LoginsHold'
    BY <1>8, <2>1 DEF LoginsHold, Slots
  <2> QED
    BY <2>2, <2>3, <2>4, <2>5, <1>6 DEF CacheInv
<1>10. CASE bound # {}
  <2> DEFINE u == CHOOSE t \in bound : \A r \in bound : t <= r
  <2>1. PICK s \in Slots : s = u /\ fdmap[s].cs = Top.cs
    <3>1. bound \in SUBSET Nat
      BY DEF Slots
    <3>2. \E m \in bound : \A r \in bound : m <= r
      BY <1>10, <3>1, SmallestOf
    <3>3. u \in bound
      BY <3>2
    <3> QED
      BY <3>3
  <2>2. /\ fdmap' = [fdmap EXCEPT ![s] = Free]
        /\ open' = open \ {Top.cs} /\ ended' = ended
    BY <1>1, <1>10, <2>1 DEF Drop
  <2> HIDE DEF u
  <2>3. PICK c \in Conns \union {NULL} : c = Top.cs
    BY <1>1 DEF Frames
  <2>4. /\ fdmap' \in Maps /\ fdmap'[s] = Free
        /\ \A t \in Slots : t # s => fdmap'[t] = fdmap[t]
    BY <1>1, <2>2 DEF TypeOK, Maps, Free, Slot
  <2>5. \A t \in Slots : t # s => \/ fdmap[t] = Free
                                  \/ fdmap[t].id # NULL /\ fdmap[t].cs \in open \ {c}
    <3>1. SUFFICES ASSUME NEW t \in Slots, t # s, fdmap[t] # Free
                   PROVE  fdmap[t].id # NULL /\ fdmap[t].cs \in open \ {c}
      OBVIOUS
    <3>2. fdmap[t].id # NULL /\ fdmap[t].cs \in open
      BY <3>1 DEF CacheInv, SlotsHoldOpenConnections
    <3>3. fdmap[t].cs # NULL
      BY <1>1, <3>2, ImapAssumption DEF TypeOK
    <3> QED
      BY <3>1, <3>2, <3>3, <2>1, <2>3 DEF CacheInv, SlotsHoldOpenConnections
  <2>6. TypeOK'
    BY <1>1, <1>4, <2>2, <2>4 DEF TypeOK, Maps, Frames, Slots
  <2>7. SlotsHoldOpenConnections'
    <3>1. \A t \in Slots : fdmap'[t] = Free \/ (fdmap'[t].id # NULL /\ fdmap'[t].cs \in open')
      BY <2>2, <2>3, <2>4, <2>5
    <3>2. \A r, t \in Slots :
            fdmap'[r].cs = fdmap'[t].cs /\ fdmap'[r].cs # NULL => r = t
      BY <2>4 DEF CacheInv, SlotsHoldOpenConnections, Free, Slot
    <3> QED
      BY <3>1, <3>2 DEF SlotsHoldOpenConnections, Slots, Free, Slot
  <2>8. NothingLeaks'
    <3>1. SUFFICES ASSUME NEW d \in open, d # c
                   PROVE  \/ \E t \in Slots : fdmap'[t].cs = d
                          \/ \E k \in 1 .. Len(stack') : Login(k)' /\ stack'[k].cs = d
      BY <2>2, <2>3 DEF NothingLeaks, Login, Slots
    <3>2. CASE \E t \in Slots : fdmap[t].cs = d
      BY <3>1, <3>2, <2>1, <2>3, <2>4
    <3>3. CASE \E k \in 1 .. n : Login(k) /\ stack[k].cs = d
      BY <3>3, <1>7
    <3> QED
      BY <3>1, <3>2, <3>3, <1>3 DEF CacheInv, NothingLeaks, Login
  <2>9. LoginsHold'
    <3>1. SUFFICES ASSUME NEW k \in 1 .. Len(stack'), Login(k)'
                   PROVE  /\ stack'[k].cs \in open'
                          /\ \A t \in Slots : fdmap'[t].cs # stack'[k].cs
      BY DEF LoginsHold, Slots
    <3>2. stack'[k].cs \in open /\ \A t \in Slots : fdmap[t].cs # stack'[k].cs
      BY <3>1, <1>8
    <3>3. stack'[k].cs # c /\ stack'[k].cs # NULL
      BY <1>1, <3>2, <2>1, <2>3, ImapAssumption DEF TypeOK
    <3> QED
      BY <3>2, <3>3, <2>2, <2>3, <2>4 DEF Free, Slot
  <2> QED
    BY <2>6, <2>7, <2>8, <2>9, <1>6 DEF CacheInv
<1> QED
  BY <1>9, <1>10

LEMMA CacheInit == Init => CacheInv
<1>1. SUFFICES ASSUME Init PROVE CacheInv
  OBVIOUS
<1>2. TypeOK
  BY <1>1 DEF Init, TypeOK, Free, Slot
<1> QED
  BY <1>1, <1>2 DEF Init, CacheInv, SlotsHoldOpenConnections, NothingLeaks,
    LoginsHold, LoginsApart, Free, Slot

LEMMA CacheNext == CacheInv /\ [Next]_vars => CacheInv'
<1>1. SUFFICES ASSUME CacheInv, [Next]_vars PROVE CacheInv'
  OBVIOUS
<1>2. CASE UNCHANGED vars
  BY <1>1, <1>2 DEF CacheInv, TypeOK, SlotsHoldOpenConnections, NothingLeaks,
    LoginsHold, LoginsApart, Login, Slots, Free, Slot, vars
<1>3. ASSUME NEW b \in Boxes, Poll(b) \/ Popup(b) PROVE CacheInv'
  BY <1>1, <1>3, PollKeeps, PopupKeeps
<1>4. CASE Connect
  BY <1>1, <1>4, ConnectKeeps
<1>5. CASE LoginWorks \/ LoginFails
  BY <1>1, <1>5, LoginWorksKeeps, LoginFailsKeeps
<1>6. CASE NoConnection \/ StatusAnswered \/ ExamineAnswered \/ SearchAnswered \/ Fetched
  BY <1>1, <1>6, AnswersKeep
<1>7. CASE NoAnswer
  BY <1>1, <1>7, NoAnswerKeeps
<1> QED
  BY <1>1, <1>2, <1>3, <1>4, <1>5, <1>6, <1>7 DEF Next

\* bind_state_to_pcu and unbind keep the connection cache right.
THEOREM CacheCorrect == Spec => []CacheInv
<1>1. Init => CacheInv
  BY CacheInit
<1>2. CacheInv /\ [Next]_vars => CacheInv'
  BY CacheNext
<1> QED
  BY <1>1, <1>2, PTL DEF Spec

\* The connection state machine stays within its types.
THEOREM TypeCorrect == Spec => []TypeOK
<1>1. CacheInv => TypeOK
  BY DEF CacheInv
<1> QED
  BY <1>1, CacheCorrect, PTL

\* The cache never hands out a connection that was closed, and no connection
\* is in two of its slots, however the popups nest in the waits.
THEOREM CacheHoldsOpenConnections == Spec => []SlotsHoldOpenConnections
<1>1. CacheInv => SlotsHoldOpenConnections
  BY DEF CacheInv
<1> QED
  BY <1>1, CacheCorrect, PTL

\* No connection is forgotten: it is in the cache, or its login is under way.
THEOREM ConnectionsDoNotLeak == Spec => []NothingLeaks
<1>1. CacheInv => NothingLeaks
  BY DEF CacheInv
<1> QED
  BY <1>1, CacheCorrect, PTL

-----------------------------------------------------------------------------
(* Without popups, one connection for each account.                         *)

Missing(b) == \A s \in Slots : fdmap[s].id # Account(b)
OneEach == \A s, t \in Slots : fdmap[s].id = fdmap[t].id /\ fdmap[s].id # NULL => s = t
Named == \A s \in Slots : fdmap[s].id # NULL => \E b \in Boxes : fdmap[s].id = Account(b)
Fits == Cardinality({Account(b) : b \in Boxes}) <= FDMAP_SIZE => ended # "exit"

\* At most one call is under way, and one that connects or logs in is alone
\* with its account: no other call can have filled a slot for it.
Alone ==
    \/ stack = <<>>
    \/ \E f \in Frames : /\ stack = <<f>>
                         /\ f.at \in {"connect", "login"} => Missing(f.box)

OneInv == setup.popups = {} => Alone /\ OneEach /\ Named /\ Fits
SharedInv == CacheInv /\ OneInv

\* A slot for an account that no slot is missing: state_for_pcu finds none.
LEMMA NoneFound ==
    ASSUME CacheInv, NEW b \in Boxes, StateFor(fdmap, b) = NULL
    PROVE  Missing(b)
<1>1. TypeOK /\ fdmap \in Maps /\ Account(b) \in Accounts
  BY ImapAssumption DEF CacheInv, TypeOK, Maps, Setup, Account
<1>2. SUFFICES ASSUME {s \in Slots : fdmap[s].id = Account(b)} # {}
               PROVE  FALSE
  BY DEF Missing
<1>3. PICK s \in Slots : fdmap[s].id = Account(b) /\ StateFor(fdmap, b) = fdmap[s].cs
  BY <1>1, <1>2, LastSlot
<1>4. fdmap[s] # Free /\ fdmap[s].cs \in open
  BY <1>1, <1>3, ImapAssumption DEF CacheInv, SlotsHoldOpenConnections, Free, Slot
<1> QED
  BY <1>1, <1>3, <1>4, ImapAssumption DEF TypeOK

LEMMA NoneThere ==
    ASSUME NEW b, Missing(b)
    PROVE  StateFor(fdmap, b) = NULL
  BY DEF Missing, StateFor

\* When every slot holds an account and one account is missing, there are
\* more accounts than slots.
LEMMA Overflow ==
    ASSUME CacheInv, OneEach, Named, Unused = {}, NEW b \in Boxes, Missing(b)
    PROVE  ~ (Cardinality({Account(x) : x \in Boxes}) <= FDMAP_SIZE)
<1> DEFINE A == {Account(x) : x \in Boxes}
           f == [s \in Slots |-> fdmap[s].id]
           g == [x \in Boxes |-> Account(x)]
<1>1. IsFiniteSet(A)
  <2>1. g \in Surjection(Boxes, A)
    BY Fun_IsSurj
  <2> QED
    BY <2>1, ImapAssumption, FS_Surjection
<1>2. Cardinality(A) \in Nat
  BY <1>1, FS_CardinalityType
<1>3. Account(b) \in A
  OBVIOUS
<1>4. f \in Injection(Slots, A \ {Account(b)})
  <2>1. \A s \in Slots : fdmap[s].id # NULL
    BY DEF Unused, CacheInv, SlotsHoldOpenConnections, Free, Slot
  <2>2. \A s \in Slots : fdmap[s].id \in A \ {Account(b)}
    BY <2>1 DEF Named, Missing
  <2>3. \A s, t \in Slots : fdmap[s].id = fdmap[t].id => s = t
    BY <2>1 DEF OneEach
  <2> QED
    BY <2>2, <2>3, Fun_IsInj
<1> HIDE DEF A, f, g
<1>5. IsFiniteSet(A \ {Account(b)}) /\ Cardinality(A \ {Account(b)}) = Cardinality(A) - 1
  BY <1>1, <1>3, FS_RemoveElement
<1>6. Cardinality(Slots) <= Cardinality(A \ {Account(b)})
  BY <1>4, <1>5, FS_Injection
<1>7. Cardinality(Slots) = FDMAP_SIZE
  <2>1. FDMAP_SIZE \in Int /\ 1 \in Int /\ ~ (1 > FDMAP_SIZE) /\ FDMAP_SIZE - 1 + 1 = FDMAP_SIZE
    BY ImapAssumption
  <2>2. Cardinality(1 .. FDMAP_SIZE) = FDMAP_SIZE - 1 + 1
    BY <2>1, FS_Interval
  <2> QED
    BY <2>1, <2>2 DEF Slots
<1>8. FDMAP_SIZE \in Nat
  BY ImapAssumption
<1>9. ~ (Cardinality(A) <= FDMAP_SIZE)
  BY <1>2, <1>5, <1>6, <1>7, <1>8
<1> QED
  BY <1>9 DEF A

\* The only call returns, or goes on.
LEMMA OnlyReturn == ASSUME NEW f, stack = <<f>>, Return PROVE stack' = <<>>
  BY DEF Return, Below
LEMMA OnlyGoto == ASSUME NEW f, NEW g, stack = <<f>>, Goto(g) PROVE stack' = <<g>>
<1>1. Below = <<>>
  BY DEF Below
<1>2. Append(<<>>, g) = <<g>>
  OBVIOUS
<1> QED
  BY <1>1, <1>2 DEF Goto

\* A step that keeps the cache, and lets no call start to connect.
LEMMA SameCache ==
    ASSUME SharedInv, setup.popups = {}, UNCHANGED <<setup, fdmap>>,
           ended' # "exit" \/ ended' = ended,
           \/ stack' = <<>>
           \/ \E f \in Frames : /\ stack' = <<f>>
                                /\ f.at \in {"connect", "login"} => Missing(f.box)
    PROVE  OneInv'
<1>1. Alone'
  BY DEF Alone, Missing, Account, Slots
<1>2. OneEach' /\ Named' /\ Fits'
  BY DEF SharedInv, OneInv, OneEach, Named, Fits, Account, Slots
<1> QED
  BY <1>1, <1>2 DEF OneInv

LEMMA SharedNext == SharedInv /\ [Next]_vars => SharedInv'
<1>1. SUFFICES ASSUME SharedInv, [Next]_vars, setup.popups = {}
               PROVE  OneInv'
  <2>1. SharedInv /\ [Next]_vars => CacheInv' /\ setup' = setup
    BY CacheNext DEF SharedInv, Next, vars, Poll, Popup, Connect, NoConnection, LoginWorks,
      LoginFails, StatusAnswered, ExamineAnswered, SearchAnswered, Fetched, NoAnswer
  <2> QED
    BY <2>1 DEF SharedInv, OneInv
<1>2. CacheInv /\ TypeOK /\ Alone /\ OneEach /\ Named /\ Fits
  BY <1>1 DEF SharedInv, OneInv, CacheInv
<1>3. ASSUME stack # <<>>
      PROVE  \E f \in Frames : /\ stack = <<f>> /\ Top = f
                               /\ f.at \in {"connect", "login"} => Missing(f.box)
  BY <1>2, <1>3 DEF Alone, Top
<1>4. CASE UNCHANGED vars
  BY <1>1, <1>2, <1>4, SameCache DEF vars, Alone
<1>5. ASSUME NEW b \in Boxes, Poll(b) PROVE OneInv'
  <2> DEFINE f == Enter(b, "check")
  <2>1. f \in Frames /\ f.box = b /\ (f.at \in {"connect", "login"} => StateFor(fdmap, b) = NULL)
    BY <1>2, EnterType
  <2>2. f.at \in {"connect", "login"} => Missing(f.box)
    BY <1>2, <2>1, NoneFound
  <2>3. stack' = <<f>> /\ UNCHANGED <<setup, fdmap, ended>>
    BY <1>5 DEF Poll
  <2> HIDE DEF f
  <2> QED
    BY <1>1, <2>1, <2>2, <2>3, SameCache
<1>6. ASSUME NEW b \in Boxes, Popup(b) PROVE OneInv'
  BY <1>1, <1>6 DEF Popup
<1>7. CASE Connect
  <2>1. stack # <<>> /\ Top.at = "connect" /\ UNCHANGED <<setup, fdmap, ended>>
    BY <1>7 DEF Connect, At
  <2>2. PICK f \in Frames : stack = <<f>> /\ Top = f /\ Missing(f.box)
    BY <1>3, <2>1
  <2>3. PICK c \in Conns : Goto([f EXCEPT !.at = "login", !.cs = c])
    BY <1>7, <2>2 DEF Connect
  <2>4. PICK g : g = [f EXCEPT !.at = "login", !.cs = c]
    OBVIOUS
  <2>5. g \in Frames /\ g.box = f.box
    BY <2>4 DEF Frames, Waits
  <2>6. stack' = <<g>>
    BY <2>2, <2>3, <2>4, OnlyGoto
  <2> QED
    BY <1>1, <2>1, <2>2, <2>5, <2>6, SameCache
<1>8. CASE LoginWorks
  <2>1. stack # <<>> /\ Top.at = "login" /\ UNCHANGED <<setup, open>>
    BY <1>8 DEF LoginWorks, At
  <2>2. PICK f \in Frames : stack = <<f>> /\ Top = f /\ Missing(f.box)
    BY <1>3, <2>1
  <2>3. CASE Unused = {}
    <3>1. ended' = "exit" /\ UNCHANGED <<fdmap, stack>>
      BY <1>8, <2>3 DEF LoginWorks
    <3>2. ~ (Cardinality({Account(x) : x \in Boxes}) <= FDMAP_SIZE)
      BY <1>2, <2>2, <2>3, Overflow DEF Frames
    <3>3. Fits'
      BY <2>1, <3>2 DEF Fits, Account
    <3>4. Alone' /\ OneEach' /\ Named'
      BY <1>2, <2>1, <3>1 DEF Alone, Missing, OneEach, Named, Account, Slots
    <3> QED
      BY <3>3, <3>4 DEF OneInv
  <2>4. CASE Unused # {}
    <3> DEFINE u == CHOOSE s \in Unused : \A t \in Unused : s <= t
    <3>1. PICK s \in Slots : s = u
      <4>1. Unused \in SUBSET Nat
        BY DEF Unused, Slots
      <4>2. u \in Unused
        BY <2>4, <4>1, SmallestOf
      <4> QED
        BY <4>2 DEF Unused
    <3>2. /\ fdmap' = [fdmap EXCEPT ![s] = Slot(Account(f.box), f.cs)]
          /\ Continue(fdmap') /\ ended' = ended
      BY <1>8, <2>2, <2>4, <3>1 DEF LoginWorks
    <3> HIDE DEF u
    <3>3. fdmap'[s].id = Account(f.box) /\ \A t \in Slots : t # s => fdmap'[t] = fdmap[t]
      BY <1>2, <3>2 DEF TypeOK, Slot
    <3>4. Fits'
      BY <1>2, <2>1, <3>2 DEF Fits, Account
    <3>5. OneEach'
      BY <1>2, <2>2, <3>3 DEF OneEach, Missing, Slots
    <3>6. Named'
      BY <1>2, <2>1, <2>2, <3>3 DEF Named, Account, Slots, Frames
    <3>7. Alone'
      <4>1. CASE StateFor(fdmap', f.box) = NULL
        BY <2>2, <3>2, <4>1, OnlyReturn DEF Continue, Alone
      <4>2. CASE StateFor(fdmap', f.box) # NULL
        <5>1. PICK g : g = Request(f.box, f.goal, StateFor(fdmap', f.box))
          OBVIOUS
        <5>2. stack' = <<g>>
          BY <2>2, <3>2, <4>2, <5>1, OnlyGoto DEF Continue
        <5>3. fdmap' \in Maps
          BY <1>1, CacheNext DEF SharedInv, CacheInv, TypeOK, Maps, Slots
        <5>4. StateFor(fdmap', f.box) \in Conns \union {NULL}
          BY <5>3, StateForType DEF Frames
        <5>5. g \in Frames /\ g.at \notin {"connect", "login"}
          BY <5>1, <5>4 DEF Request, Frame, Frames, Waits
        <5> QED
          BY <5>2, <5>5 DEF Alone
      <4> QED
        BY <4>1, <4>2
    <3> QED
      BY <3>4, <3>5, <3>6, <3>7 DEF OneInv
  <2> QED
    BY <2>3, <2>4
<1>9. CASE LoginFails
  <2>1. stack # <<>> /\ Top.at = "login" /\ UNCHANGED <<setup, fdmap, ended>> /\ Continue(fdmap)
    BY <1>9 DEF LoginFails, At
  <2>2. PICK f \in Frames : stack = <<f>> /\ Top = f /\ Missing(f.box)
    BY <1>3, <2>1
  <2>3. Return
    BY <2>1, <2>2, NoneThere DEF Continue
  <2> QED
    BY <1>1, <2>1, <2>2, <2>3, OnlyReturn, SameCache
<1>10. CASE NoConnection \/ StatusAnswered \/ Fetched
  <2>1. stack # <<>> /\ UNCHANGED <<setup, fdmap, ended>> /\ Return
    BY <1>1, <1>10 DEF NoConnection, StatusAnswered, Fetched, At
  <2> QED
    BY <1>1, <1>3, <2>1, OnlyReturn, SameCache
<1>11. ASSUME NEW at \in {"search", "fetch"}, stack # <<>>, Goto([Top EXCEPT !.at = at]),
              UNCHANGED <<setup, fdmap, ended>>
       PROVE  OneInv'
  <2>1. PICK f \in Frames : stack = <<f>> /\ Top = f
    BY <1>3, <1>11
  <2>2. PICK g : g = [f EXCEPT !.at = at]
    OBVIOUS
  <2>3. g \in Frames /\ g.at \notin {"connect", "login"}
    BY <2>2 DEF Frames, Waits
  <2>4. stack' = <<g>>
    BY <1>11, <2>1, <2>2, OnlyGoto
  <2> QED
    BY <1>1, <1>11, <2>3, <2>4, SameCache
<1>12. CASE ExamineAnswered
  BY <1>11, <1>12 DEF ExamineAnswered, At
<1>13. CASE SearchAnswered
  <2>1. stack # <<>> /\ UNCHANGED <<setup, fdmap, ended>>
        /\ (Return \/ Goto([Top EXCEPT !.at = "fetch"]))
    BY <1>13 DEF SearchAnswered, At
  <2> QED
    BY <1>1, <1>3, <1>11, <2>1, OnlyReturn, SameCache
<1>14. CASE NoAnswer
  <2>1. stack # <<>> /\ Drop(Top.cs) /\ Return /\ UNCHANGED setup
    BY <1>14 DEF NoAnswer, At
  <2>2. stack' = <<>>
    BY <1>3, <2>1, OnlyReturn
  <2>3. ended' # "exit" \/ ended' = ended
    BY <2>1 DEF Drop
  <2>4. \A t \in Slots : fdmap'[t].id = fdmap[t].id \/ fdmap'[t].id = NULL
    <3>1. \/ fdmap' = fdmap
          \/ \E s : fdmap' = [fdmap EXCEPT ![s] = Free]
      BY <2>1 DEF Drop
    <3> QED
      BY <1>2, <3>1 DEF TypeOK, Free, Slot
  <2>5. OneEach' /\ Named'
    BY <1>2, <2>1, <2>4 DEF OneEach, Named, Account, Slots
  <2>6. Fits' /\ Alone'
    BY <1>2, <2>1, <2>2, <2>3 DEF Fits, Account, Alone
  <2> QED
    BY <2>5, <2>6 DEF OneInv
<1> QED
  BY <1>1, <1>4, <1>5, <1>6, <1>7, <1>8, <1>9, <1>10, <1>12, <1>13, <1>14 DEF Next

\* Without popups the mailboxes of an account share one connection, and a
\* cache with a slot for every account never ends the program.
THEOREM AccountsShareASocket == Spec => []OneSocketPerAccount
<1>1. Init => SharedInv
  <2>1. Init => OneInv
    BY DEF Init, OneInv, Alone, OneEach, Named, Fits, Free, Slot
  <2> QED
    BY <2>1, CacheInit DEF SharedInv
<1>2. SharedInv /\ [Next]_vars => SharedInv'
  BY SharedNext
<1>3. SharedInv => OneSocketPerAccount
  BY DEF SharedInv, OneInv, OneEach, Fits, OneSocketPerAccount
<1> QED
  BY <1>1, <1>2, <1>3, PTL DEF Spec
=============================================================================
