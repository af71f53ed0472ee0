------------------------- MODULE PasswordMgrProofs -------------------------
(***************************************************************************)
(* Theorems about the password cache, for any mailboxes and accounts, any   *)
(* heap and any nesting of logins.                                          *)
(***************************************************************************)
EXTENDS PasswordMgr, FiniteSetTheorems, FunctionTheorems, WellFoundedInduction, TLAPS

Frames == [box : Boxes, at : {"walk", "login"}, p : Nodes \union {NULL},
           flush : BOOLEAN, sent : Passwords]

\* Walk(k): the kth call looks the list through.
Walking(k) == stack[k].at = "walk"

-----------------------------------------------------------------------------
(* The stack of logins: one is added, goes on, or returns.                  *)

Pushed(f) == stack' = Append(stack, f)

LEMMA StackType ==
    ASSUME TypeOK
    PROVE  stack \in Seq(Frames) /\ Len(stack) \in Nat
BY DEF TypeOK, Frames

LEMMA TopType ==
    ASSUME TypeOK, stack # <<>>
    PROVE  /\ stack \in Seq(Frames) /\ Len(stack) \in Nat \ {0}
           /\ Top \in Frames /\ Top = stack[Len(stack)]
           /\ Box \in Boxes /\ Box = Top.box /\ Account \in Accounts
<1>1. stack \in Seq(Frames)
  BY StackType
<1>2. Len(stack) \in Nat \ {0} /\ Top \in Frames /\ Top = stack[Len(stack)]
  BY <1>1 DEF Top
<1>3. setup \in Setup
  BY PasswordAssumption DEF TypeOK
<1> QED
  BY <1>1, <1>2, <1>3 DEF Box, Account, Frames, Setup

LEMMA PushFrames ==
    ASSUME TypeOK, NEW f \in Frames, Pushed(f)
    PROVE  /\ stack' \in Seq(Frames)
           /\ Len(stack') = Len(stack) + 1
           /\ \A k \in 1 .. Len(stack) : stack'[k] = stack[k]
           /\ stack'[Len(stack) + 1] = f
<1>1. stack \in Seq(Frames)
  BY StackType
<1> QED
  BY <1>1 DEF Pushed

LEMMA BelowFrames ==
    ASSUME NEW F, NEW s \in Seq(F), s # <<>>
    PROVE  LET below == SubSeq(s, 1, Len(s) - 1)
           IN  /\ below \in Seq(F)
               /\ Len(below) = Len(s) - 1
               /\ \A k \in 1 .. Len(s) - 1 : below[k] = s[k]
<1>1. Len(s) \in Nat \ {0} /\ s \in [1 .. Len(s) -> F]
  OBVIOUS
<1>2. Len(s) - 1 \in 0 .. Len(s)
  BY <1>1
<1> DEFINE below == SubSeq(s, 1, Len(s) - 1)
<1>3. below \in Seq(F)
  BY <1>1, <1>2
<1>4. Len(below) = Len(s) - 1
  BY <1>1, <1>2
<1>5. \A k \in 1 .. Len(s) - 1 : below[k] = s[k]
  BY <1>1, <1>2
<1> QED
  BY <1>3, <1>4, <1>5

LEMMA PopFrames ==
    ASSUME TypeOK, stack # <<>>, Return
    PROVE  /\ stack' \in Seq(Frames)
           /\ Len(stack') = Len(stack) - 1
           /\ \A k \in 1 .. Len(stack) - 1 : stack'[k] = stack[k]
<1>1. stack \in Seq(Frames) /\ Len(stack) \in Nat \ {0}
  BY TopType
<1> QED
  BY <1>1, BelowFrames DEF Return, Below

LEMMA GotoFrames ==
    ASSUME TypeOK, stack # <<>>, NEW f \in Frames, Goto(f)
    PROVE  /\ stack' \in Seq(Frames)
           /\ Len(stack') = Len(stack)
           /\ \A k \in 1 .. Len(stack) - 1 : stack'[k] = stack[k]
           /\ stack'[Len(stack)] = f
<1>1. stack \in Seq(Frames) /\ Len(stack) \in Nat \ {0}
  BY TopType
<1>2. Below \in Seq(Frames) /\ Len(Below) = Len(stack) - 1
      /\ \A k \in 1 .. Len(stack) - 1 : Below[k] = stack[k]
  BY <1>1, BelowFrames DEF Below
<1> QED
  BY <1>1, <1>2 DEF Goto

-----------------------------------------------------------------------------
(* Types.                                                                   *)

LEMMA FrameTypes ==
    ASSUME TypeOK, NEW b \in Boxes, NEW flush \in BOOLEAN, NEW pw \in Passwords
    PROVE  /\ Ask(b, flush) \in Frames /\ Ask(b, flush).at = "walk"
           /\ Ask(b, flush).box = b /\ Ask(b, flush).p = passList
           /\ Ask(b, flush).flush = flush
           /\ Send(b, flush, pw) \in Frames /\ Send(b, flush, pw).at = "login"
           /\ Send(b, flush, pw).box = b /\ Send(b, flush, pw).sent = pw
BY DEF Ask, Send, Frame, Frames, TypeOK, Passwords

\* A step in terms of the stack: what the handlers of the code do to it, and
\* the frame they leave on top.
Opened(b) ==
    \/ Pushed(Ask(b, FALSE))
    \/ Pushed(Send(b, FALSE, password[b]))

LEMMA OpenPushes ==
    ASSUME TypeOK, NEW b \in Boxes, Open(b)
    PROVE  /\ Opened(b) /\ b \in setup.open
           /\ \A k \in 1 .. Len(stack) : k = Len(stack) => ~Walking(k)
<1>1. Opened(b)
  <2>1. CASE LooksEmpty(password[b]) /\ ~Pop3(b)
    BY <2>1 DEF Open, Opened, Pushed
  <2>2. CASE ~(LooksEmpty(password[b]) /\ ~Pop3(b))
    BY <2>2 DEF Open, Opened, Pushed
  <2> QED
    BY <2>1, <2>2
<1>2. ASSUME NEW k \in 1 .. Len(stack), k = Len(stack) PROVE ~Walking(k)
  <2>1. stack # <<>> /\ Top = stack[k]
    BY <1>2, StackType DEF Top
  <2> QED
    BY <2>1 DEF Open, Walking
<1> QED
  BY <1>1, <1>2 DEF Open

LEMMA TypedAreStrings == Typed \subseteq Passwords
BY PasswordAssumption

LEMMA AnswerTypes ==
    ASSUME TypeOK, stack # <<>>, NEW n \in Nodes, NEW pw \in Typed, Answer(n, pw)
    PROVE  TypeOK'
<1>1. Box \in Boxes /\ Account \in Accounts /\ Top \in Frames /\ pw \in Passwords
  BY TopType, TypedAreStrings
<1>2. Top.flush \in BOOLEAN
  BY <1>1 DEF Frames
<1>3. Send(Box, Top.flush, pw) \in Frames
  BY <1>1, <1>2, FrameTypes
<1>4. stack' \in Seq(Frames) /\ Len(stack') = Len(stack)
  BY <1>3, GotoFrames DEF Answer
<1>5. /\ binding' \in [Nodes -> Accounts \union {NULL}]
      /\ stored' \in [Nodes -> Passwords]
      /\ next' \in [Nodes -> Nodes \union {NULL}]
      /\ passList' \in Nodes \union {NULL}
      /\ password' \in [Boxes -> Passwords]
      /\ refused' \subseteq Accounts
  BY <1>1 DEF Answer, TypeOK
<1> QED
  BY <1>4, <1>5 DEF Answer, TypeOK, Frames

LEMMA TypeStep == ASSUME TypeOK, [Next]_vars PROVE TypeOK'
<1> USE DEF list
<1>1. ASSUME stack' \in Seq(Frames), Len(stack') <= Len(stack),
             UNCHANGED <<setup, list>>,
             password' \in [Boxes -> Passwords], enabled' \in [Boxes -> BOOLEAN],
             exited' \in BOOLEAN, refused' \subseteq Accounts
      PROVE  TypeOK'
  <2>1. setup \in Setup /\ Len(stack) \in Nat /\ Len(stack') \in Nat
    BY <1>1, StackType, PasswordAssumption DEF TypeOK
  <2>2. setup.depth \in Nat
    BY <2>1 DEF Setup
  <2> QED
    BY <1>1, <2>1, <2>2 DEF TypeOK, Frames
<1>2. ASSUME NEW b \in Boxes, Open(b) PROVE TypeOK'
  <2>1. password[b] \in Passwords
    BY DEF TypeOK
  <2>2. stack' \in Seq(Frames) /\ Len(stack') = Len(stack) + 1
    <3>1. Opened(b)
      BY <1>2, OpenPushes
    <3>2. Ask(b, FALSE) \in Frames /\ Send(b, FALSE, password[b]) \in Frames
      BY <2>1, FrameTypes
    <3> QED
      BY <3>1, <3>2, PushFrames DEF Opened
  <2>3. Len(stack) < setup.depth /\ Len(stack) \in Nat /\ setup.depth \in Nat
    BY <1>2, StackType, PasswordAssumption DEF Open, TypeOK, Setup
  <2>4. Len(stack') <= setup.depth
    BY <2>2, <2>3
  <2>5. UNCHANGED <<setup, list, password, enabled, exited, refused>>
    BY <1>2 DEF Open
  <2> QED
    BY <2>2, <2>4, <2>5 DEF TypeOK, Frames
<1>3. CASE Walk
  <2>1. stack # <<>> /\ Top \in Frames /\ Top.p \in Nodes
    BY <1>3, TopType DEF Walk, At, Frames
  <2>2. next[Top.p] \in Nodes \union {NULL}
    BY <2>1 DEF TypeOK
  <2>3. [Top EXCEPT !.p = next[Top.p]] \in Frames
    BY <2>1, <2>2 DEF Frames
  <2>4. stack' \in Seq(Frames) /\ Len(stack') = Len(stack)
    BY <1>3, <2>1, <2>3, GotoFrames DEF Walk
  <2> QED
    BY <1>1, <1>3, <2>4, StackType DEF Walk, TypeOK
<1>4. CASE Hit
  <2>1. stack # <<>> /\ Top.p \in Nodes /\ Box \in Boxes
    BY <1>4, TopType DEF Hit, At, Found, Frames
  <2>2. stored[Top.p] \in Passwords
    BY <2>1 DEF TypeOK
  <2>3. stack' \in Seq(Frames) /\ Len(stack') = Len(stack)
    BY <1>4, <2>1, <2>2, FrameTypes, GotoFrames DEF Hit
  <2>4. password' \in [Boxes -> Passwords]
    BY <1>4, <2>2 DEF Hit, TypeOK
  <2>5. UNCHANGED <<setup, list, enabled, exited, refused>>
    BY <1>4 DEF Hit
  <2> QED
    BY <1>1, <2>3, <2>4, <2>5, StackType DEF TypeOK
<1>5. CASE Disable
  <2>1. stack # <<>> /\ Box \in Boxes /\ Top.flush \in BOOLEAN
    BY <1>5, TopType DEF Disable, At, Frames
  <2>2. password[Box] \in Passwords
    BY <2>1 DEF TypeOK
  <2>3. stack' \in Seq(Frames) /\ Len(stack') = Len(stack)
    BY <1>5, <2>1, <2>2, FrameTypes, GotoFrames DEF Disable
  <2>4. enabled' \in [Boxes -> BOOLEAN]
    BY <1>5 DEF Disable, TypeOK
  <2>5. UNCHANGED <<setup, list, password, exited, refused>>
    BY <1>5 DEF Disable
  <2> QED
    BY <1>1, <2>3, <2>4, <2>5, StackType DEF TypeOK
<1>6. CASE Miss
  BY <1>6, AnswerTypes DEF Miss, At
<1>7. CASE Flush
  <2>1. stack # <<>> /\ Top.p \in Nodes
    BY <1>7, TopType DEF Flush, At, Found, Frames
  <2> QED
    BY <1>7, <2>1, AnswerTypes DEF Flush
<1>8. CASE Cancel
  BY <1>8, <1>1, StackType DEF Cancel, TypeOK
<1>9. CASE Accepted \/ Silent
  <2>1. stack # <<>> /\ Return
    BY <1>9 DEF Accepted, Silent, At
  <2>2. stack' \in Seq(Frames) /\ Len(stack') = Len(stack) - 1
    BY <2>1, PopFrames
  <2> QED
    BY <1>1, <1>9, <2>2, StackType DEF Accepted, Silent, TypeOK
<1>10. ASSUME Refuse PROVE stack # <<>> /\ refused' \subseteq Accounts
  <2>1. stack # <<>> /\ Account \in Accounts
    BY <1>10, TopType DEF Refuse, At
  <2> QED
    BY <1>10, <2>1 DEF Refuse, TypeOK
<1>11. CASE LoginRefused
  <2>1. stack # <<>> /\ refused' \subseteq Accounts /\ Box \in Boxes
    BY <1>10, <1>11, TopType DEF LoginRefused
  <2>2. stack' \in Seq(Frames) /\ Len(stack') = Len(stack)
    <3>1. "empty" \in Passwords
      BY DEF Passwords
    <3>2. Ask(Box, TRUE) \in Frames
      BY <2>1, <3>1, FrameTypes
    <3> QED
      BY <1>11, <2>1, <3>2, GotoFrames DEF LoginRefused
  <2>3. password' \in [Boxes -> Passwords]
    BY <1>11 DEF LoginRefused, TypeOK, Passwords
  <2> QED
    BY <1>1, <1>11, <2>1, <2>2, <2>3, StackType DEF LoginRefused, TypeOK
<1>12. CASE PasswordRequired
  <2>1. stack # <<>> /\ Box \in Boxes
    BY <1>12, TopType DEF PasswordRequired, At
  <2>2. stack' \in Seq(Frames) /\ Len(stack') = Len(stack)
    <3>1. "empty" \in Passwords
      BY DEF Passwords
    <3>2. Ask(Box, TRUE) \in Frames
      BY <2>1, <3>1, FrameTypes
    <3> QED
      BY <1>12, <2>1, <3>2, GotoFrames DEF PasswordRequired
  <2>3. password' \in [Boxes -> Passwords]
    BY <1>12 DEF PasswordRequired, TypeOK, Passwords
  <2> QED
    BY <1>1, <1>12, <2>1, <2>2, <2>3, StackType DEF PasswordRequired, TypeOK
<1>13. CASE PassRefused
  <2>1. stack # <<>> /\ Return /\ refused' \subseteq Accounts
    BY <1>10, <1>13 DEF PassRefused
  <2>2. stack' \in Seq(Frames) /\ Len(stack') = Len(stack) - 1
    BY <2>1, PopFrames
  <2> QED
    BY <1>1, <1>13, <2>1, <2>2, StackType DEF PassRefused, TypeOK
<1>14. CASE UNCHANGED vars
  BY <1>14 DEF vars, TypeOK
<1> QED
  BY <1>2, <1>3, <1>4, <1>5, <1>6, <1>7, <1>8, <1>9, <1>11, <1>12, <1>13, <1>14
     DEF Next, Lookup, Server

-----------------------------------------------------------------------------
(* The heap: until a binding is flushed the list holds every binding once;  *)
(* the flush puts one in front that is in the list already, and from then   *)
(* on a walk goes round and never comes to an end.                          *)

\* The ith binding of s, or the NULL behind the last.
From(s, i) == IF i \in 1 .. Len(s) THEN s[i] ELSE NULL

\* The list is s.
IsList(s) ==
    /\ \A i, j \in 1 .. Len(s) : s[i] = s[j] => i = j
    /\ \A n \in Nodes : binding[n] # NULL => \E i \in 1 .. Len(s) : s[i] = n
    /\ \A i \in 1 .. Len(s) : binding[s[i]] # NULL
    /\ passList = From(s, 1)
    /\ \A i \in 1 .. Len(s) : next[s[i]] = From(s, i + 1)

\* What f walked past is of other accounts.
Past(s, f) ==
    \E i \in 1 .. Len(s) + 1 :
        /\ f.p = From(s, i)
        /\ \A j \in 1 .. Len(s) : j < i => binding[s[j]] # setup.accountOf[f.box]

Straight(s) == IsList(s) /\ \A k \in 1 .. Len(stack) : Walking(k) => Past(s, stack[k])

\* The bindings of c follow each other, and no way leads out.
Round(c) ==
    /\ passList \in c
    /\ \A n \in c : binding[n] # NULL /\ next[n] \in c
    /\ \A k \in 1 .. Len(stack) : Walking(k) => stack[k].p \in c

\* Only the innermost login looks the list through: no other can change it
\* meanwhile.
OnlyTopWalks == \A k \in 1 .. Len(stack) : Walking(k) => k = Len(stack)
BoxesAreOpen == \A k \in 1 .. Len(stack) : stack[k].box \in setup.open

\* The inductive invariant.
HeapInv ==
    /\ TypeOK
    /\ OnlyTopWalks /\ BoxesAreOpen
    /\ OneBindingEach
    /\ (\E s \in Seq(Nodes) : Straight(s)) \/ (\E c \in SUBSET Nodes : Round(c))

\* A walk begins, or takes a step.
Begins(f) == f.p = passList
StepsFrom(g, f) ==
    /\ g.p # NULL /\ binding[g.p] # setup.accountOf[g.box]
    /\ f.p = next[g.p] /\ f.box = g.box

\* The list stays as it is.
LEMMA QuietHeap ==
    ASSUME HeapInv, TypeOK', UNCHANGED <<setup, list>>, OnlyTopWalks', BoxesAreOpen',
           \A k \in 1 .. Len(stack') : Walking(k)' =>
               \/ Begins(stack'[k])
               \/ \E j \in 1 .. Len(stack) : Walking(j) /\ StepsFrom(stack[j], stack'[k])
               \/ \E j \in 1 .. Len(stack) : Walking(j) /\ stack[j] = stack'[k]
    PROVE  HeapInv'
<1> USE DEF list
<1>1. OneBindingEach'
  BY DEF HeapInv, OneBindingEach
<1>2. ASSUME NEW s \in Seq(Nodes), Straight(s) PROVE Straight(s)'
  <2>1. IsList(s)'
    BY <1>2 DEF Straight, IsList, From
  <2>2. Len(s) \in Nat
    OBVIOUS
  <2>3. ASSUME NEW k \in 1 .. Len(stack'), Begins(stack'[k]) PROVE Past(s, stack[k])'
    <3>1. 1 \in 1 .. Len(s) + 1 /\ ~ \E j \in 1 .. Len(s) : j < 1
      BY <2>2
    <3>2. stack'[k].p = From(s, 1)
      BY <1>2, <2>3 DEF Begins, Straight, IsList
    <3> QED
      BY <3>1, <3>2 DEF Past
  <2>4. ASSUME NEW k \in 1 .. Len(stack'), NEW j \in 1 .. Len(stack), Walking(j),
               StepsFrom(stack[j], stack'[k])
        PROVE  Past(s, stack[k])'
    <3>1. PICK i \in 1 .. Len(s) + 1 :
             /\ stack[j].p = From(s, i)
             /\ \A l \in 1 .. Len(s) : l < i => binding[s[l]] # setup.accountOf[stack[j].box]
      BY <1>2, <2>4 DEF Straight, Past
    <3>2. i \in 1 .. Len(s) /\ stack[j].p = s[i]
      BY <2>4, <3>1 DEF StepsFrom, From
    <3>3. stack'[k].p = From(s, i + 1)
      BY <1>2, <2>4, <3>2 DEF StepsFrom, Straight, IsList
    <3>4. i + 1 \in 1 .. Len(s) + 1
      BY <2>2, <3>2
    <3>5. \A l \in 1 .. Len(s) : l < i + 1 => binding[s[l]] # setup.accountOf[stack[j].box]
      BY <2>2, <2>4, <3>1, <3>2 DEF StepsFrom
    <3>6. stack'[k].box = stack[j].box
      BY <2>4 DEF StepsFrom
    <3>7. \E l \in 1 .. Len(s) + 1 :
             /\ stack'[k].p = From(s, l)
             /\ \A m \in 1 .. Len(s) : m < l => binding[s[m]] # setup.accountOf[stack'[k].box]
      BY <3>3, <3>4, <3>5, <3>6
    <3> QED
      BY <3>7 DEF Past, From
  <2>5. ASSUME NEW k \in 1 .. Len(stack'), NEW j \in 1 .. Len(stack), Walking(j),
               stack[j] = stack'[k]
        PROVE  Past(s, stack[k])'
    BY <1>2, <2>5 DEF Straight, Past
  <2> QED
    BY <2>1, <2>3, <2>4, <2>5 DEF Straight
<1>3. ASSUME NEW c \in SUBSET Nodes, Round(c) PROVE Round(c)'
  BY <1>3 DEF Round, Begins, StepsFrom
<1> QED
  BY <1>1, <1>2, <1>3 DEF HeapInv

\* A walk that comes to the end has met every binding, and none of the account.
LEMMA NoneAtTheEnd ==
    ASSUME HeapInv, At("walk"), Top.p = NULL
    PROVE  /\ \A n \in Nodes : binding[n] # Account
           /\ \E s \in Seq(Nodes) : Straight(s)
<1>1. stack # <<>> /\ Len(stack) \in Nat \ {0} /\ Top = stack[Len(stack)]
      /\ Walking(Len(stack)) /\ Account \in Accounts
  BY TopType DEF HeapInv, At, Walking
<1>2. ~ \E c \in SUBSET Nodes : Round(c)
  BY <1>1, PasswordAssumption DEF Round
<1>3. PICK s \in Seq(Nodes) : Straight(s)
  BY <1>2 DEF HeapInv
<1>4. PICK i \in 1 .. Len(s) + 1 :
             /\ Top.p = From(s, i)
             /\ \A l \in 1 .. Len(s) : l < i => binding[s[l]] # Account
  BY <1>1, <1>3 DEF Straight, Past, Account, Box
<1>5. i = Len(s) + 1
  <2>1. i \notin 1 .. Len(s)
    BY <1>4, PasswordAssumption DEF From
  <2> QED
    BY <2>1
<1>6. ASSUME NEW n \in Nodes, binding[n] = Account PROVE FALSE
  <2>1. PICK l \in 1 .. Len(s) : s[l] = n
    BY <1>1, <1>3, <1>6, PasswordAssumption DEF Straight, IsList
  <2> QED
    BY <1>4, <1>5, <1>6, <2>1
<1> QED
  BY <1>3, <1>6

\* After an answer no login looks the list through.
LEMMA AnswerStack ==
    ASSUME HeapInv, stack # <<>>, NEW n \in Nodes, NEW pw \in Typed, Answer(n, pw)
    PROVE  /\ TypeOK' /\ OnlyTopWalks' /\ BoxesAreOpen'
           /\ \A k \in 1 .. Len(stack') : ~Walking(k)'
           /\ Len(stack') = Len(stack)
           /\ \A k \in 1 .. Len(stack) - 1 : stack'[k] = stack[k]
           /\ stack'[Len(stack)] = Send(Box, Top.flush, pw)
<1>1. TypeOK /\ TypeOK'
  BY AnswerTypes DEF HeapInv
<1>2. Box \in Boxes /\ Top \in Frames /\ pw \in Passwords /\ Len(stack) \in Nat \ {0}
      /\ Top = stack[Len(stack)] /\ Box = Top.box
  BY <1>1, TopType, TypedAreStrings
<1> DEFINE f == Send(Box, Top.flush, pw)
<1>3. f \in Frames /\ f.at = "login" /\ f.box = Box
  <2>1. Top.flush \in BOOLEAN
    BY <1>2 DEF Frames
  <2> QED
    BY <1>1, <1>2, <2>1, FrameTypes
<1>4. /\ Len(stack') = Len(stack)
      /\ \A k \in 1 .. Len(stack) - 1 : stack'[k] = stack[k]
      /\ stack'[Len(stack)] = f
  <2>1. Goto(f) /\ f \in Frames
    BY <1>3 DEF Answer
  <2> QED
    BY <1>1, <2>1, GotoFrames
<1> HIDE DEF f
<1>5. \A k \in 1 .. Len(stack') : ~Walking(k)'
  <2>1. ASSUME NEW k \in 1 .. Len(stack') PROVE stack'[k].at # "walk"
    <3>1. CASE k = Len(stack)
      BY <1>3, <1>4, <3>1
    <3>2. CASE k # Len(stack)
      <4>1. k \in 1 .. Len(stack) - 1
        BY <1>2, <1>4, <3>2
      <4>2. ~Walking(k)
        BY <1>2, <4>1 DEF HeapInv, OnlyTopWalks
      <4> QED
        BY <1>4, <4>1, <4>2 DEF Walking
    <3> QED
      BY <3>1, <3>2
  <2> QED
    BY <2>1 DEF Walking
<1>6. BoxesAreOpen'
  <2>1. setup' = setup
    BY DEF Answer
  <2>2. ASSUME NEW k \in 1 .. Len(stack') PROVE stack'[k].box \in setup.open
    BY <1>2, <1>3, <1>4 DEF HeapInv, BoxesAreOpen
  <2> QED
    BY <2>1, <2>2 DEF BoxesAreOpen
<1> QED
  BY <1>1, <1>4, <1>5, <1>6 DEF OnlyTopWalks, f

LEMMA Cons ==
    ASSUME NEW S, NEW s \in Seq(S), NEW n \in S
    PROVE  LET t == <<n>> \o s
           IN  t \in Seq(S) /\ Len(t) = Len(s) + 1 /\ t[1] = n
               /\ \A i \in 1 .. Len(s) : t[i + 1] = s[i]
OBVIOUS

LEMMA MissHeap ==
    ASSUME HeapInv, Miss
    PROVE  HeapInv' /\ \E s \in Seq(Nodes) : IsList(s)'
<1>1. PICK n \in Nodes, pw \in Typed : binding[n] = NULL /\ Answer(n, pw)
  BY DEF Miss
<1>2. stack # <<>> /\ TypeOK /\ Account \in Accounts
  BY TopType DEF HeapInv, Miss, At
<1>3. TypeOK' /\ OnlyTopWalks' /\ BoxesAreOpen' /\ \A k \in 1 .. Len(stack') : ~Walking(k)'
  BY <1>1, <1>2, AnswerStack
<1>4. (\A m \in Nodes : binding[m] # Account) /\ \E s \in Seq(Nodes) : Straight(s)
  BY NoneAtTheEnd DEF Miss
<1>5. binding' = [binding EXCEPT ![n] = Account] /\ binding \in [Nodes -> Accounts \union {NULL}]
  BY <1>1, <1>2 DEF Answer, TypeOK
<1>6. OneBindingEach'
  BY <1>4, <1>5 DEF HeapInv, OneBindingEach
<1>7. PICK s \in Seq(Nodes) : IsList(s)
  BY <1>4 DEF Straight
<1>8. PICK t \in Seq(Nodes) : t = <<n>> \o s
  BY Cons
<1>9. Len(t) = Len(s) + 1 /\ t[1] = n /\ (\A i \in 1 .. Len(s) : t[i + 1] = s[i])
      /\ Len(s) \in Nat
  BY <1>8, Cons
<1>10. \A i \in 1 .. Len(t) : i = 1 \/ (i - 1 \in 1 .. Len(s) /\ t[i] = s[i - 1])
  <2>1. ASSUME NEW i \in 1 .. Len(t), i # 1 PROVE i - 1 \in 1 .. Len(s) /\ t[i] = s[i - 1]
    <3>1. i - 1 \in 1 .. Len(s) /\ (i - 1) + 1 = i
      BY <1>9, <2>1
    <3> QED
      BY <1>9, <3>1
  <2> QED
    BY <2>1
<1>11. \A i \in 1 .. Len(s) : s[i] # n /\ s[i] \in Nodes
  BY <1>1, <1>7 DEF IsList
<1>12. IsList(t)'
  <2>1. \A i, j \in 1 .. Len(t) : t[i] = t[j] => i = j
    <3>1. ASSUME NEW i \in 1 .. Len(t), NEW j \in 1 .. Len(t), t[i] = t[j] PROVE i = j
      <4>1. CASE i = 1 \/ j = 1
        BY <1>9, <1>10, <1>11, <3>1, <4>1
      <4>2. CASE i # 1 /\ j # 1
        <5>1. i - 1 = j - 1
          BY <1>7, <1>10, <3>1, <4>2, SMTT(30) DEF IsList
        <5> QED
          BY <5>1, <1>9
      <4> QED
        BY <4>1, <4>2
    <3> QED
      BY <3>1
  <2>2. ASSUME NEW m \in Nodes, binding'[m] # NULL PROVE \E i \in 1 .. Len(t) : t[i] = m
    <3>1. CASE m = n
      BY <1>9, <3>1
    <3>2. CASE m # n
      <4>1. PICK i \in 1 .. Len(s) : s[i] = m
        BY <1>5, <1>7, <2>2, <3>2 DEF IsList
      <4>2. i + 1 \in 1 .. Len(t) /\ t[i + 1] = m
        BY <1>9, <4>1
      <4> QED
        BY <4>2
    <3> QED
      BY <3>1, <3>2
  <2>3. ASSUME NEW i \in 1 .. Len(t) PROVE binding'[t[i]] # NULL
    <3>1. CASE i = 1
      BY <1>2, <1>5, <1>9, <3>1, PasswordAssumption
    <3>2. CASE i # 1
      <4>1. i - 1 \in 1 .. Len(s) /\ t[i] = s[i - 1]
        BY <1>10, <3>2
      <4>2. s[i - 1] \in Nodes /\ s[i - 1] # n /\ binding[s[i - 1]] # NULL
        BY <1>7, <1>11, <4>1 DEF IsList
      <4> QED
        BY <1>5, <4>1, <4>2
    <3> QED
      BY <3>1, <3>2
  <2>4. passList' = From(t, 1)
    BY <1>1, <1>9 DEF Answer, From
  <2>5. next' = [next EXCEPT ![n] = passList] /\ next \in [Nodes -> Nodes \union {NULL}]
    BY <1>1, <1>2 DEF Answer, TypeOK
  <2>6. ASSUME NEW i \in 1 .. Len(t) PROVE next'[t[i]] = From(t, i + 1)
    <3>1. From(t, i + 1) = From(s, i)
      BY <1>9, <1>10 DEF From
    <3>2. CASE i = 1
      BY <1>7, <1>9, <2>5, <3>1, <3>2 DEF IsList
    <3>3. CASE i # 1
      <4>1. i - 1 \in 1 .. Len(s) /\ t[i] = s[i - 1] /\ t[i] # n /\ t[i] \in Nodes
        BY <1>10, <1>11, <3>3
      <4>2. next[s[i - 1]] = From(s, i)
        <5>1. next[s[i - 1]] = From(s, (i - 1) + 1) /\ (i - 1) + 1 = i
          BY <1>7, <1>9, <4>1 DEF IsList
        <5> QED
          BY <5>1
      <4> QED
        BY <2>5, <3>1, <4>1, <4>2
    <3> QED
      BY <3>2, <3>3
  <2> QED
    BY <2>1, <2>2, <2>3, <2>4, <2>6 DEF IsList, From
<1>13. Straight(t)'
  BY <1>3, <1>12 DEF Straight
<1> QED
  BY <1>3, <1>6, <1>12, <1>13 DEF HeapInv

LEMMA FlushHeap == ASSUME HeapInv, Flush PROVE HeapInv'
<1>1. PICK pw \in Typed : Answer(Top.p, pw)
  BY DEF Flush
<1>2. stack # <<>> /\ TypeOK /\ Top \in Frames /\ Walking(Len(stack))
      /\ Len(stack) \in Nat \ {0} /\ Top = stack[Len(stack)]
  BY TopType DEF HeapInv, Flush, At, Walking
<1>3. PICK p \in Nodes : p = Top.p
  BY <1>2 DEF Flush, Found, Frames
<1>4. TypeOK' /\ OnlyTopWalks' /\ BoxesAreOpen' /\ \A k \in 1 .. Len(stack') : ~Walking(k)'
  BY <1>1, <1>2, <1>3, AnswerStack
<1>5. binding' = binding
  BY <1>1, <1>2 DEF Answer, Flush, Found, TypeOK
<1>6. OneBindingEach'
  BY <1>5 DEF HeapInv, OneBindingEach
<1>7. passList' = p /\ next' = [next EXCEPT ![p] = passList]
      /\ next \in [Nodes -> Nodes \union {NULL}]
  BY <1>1, <1>2, <1>3 DEF Answer, TypeOK
<1>8. ASSUME NEW s \in Seq(Nodes), Straight(s) PROVE \E c \in SUBSET Nodes : Round(c)'
  <2>1. PICK i \in 1 .. Len(s) + 1 : p = From(s, i)
    BY <1>2, <1>3, <1>8 DEF Straight, Past
  <2>2. i \in 1 .. Len(s) /\ p = s[i] /\ Len(s) \in Nat
    BY <1>3, <2>1, PasswordAssumption DEF From
  <2>3. PICK c \in SUBSET Nodes : c = {s[j] : j \in 1 .. i}
    <3>1. \A j \in 1 .. i : s[j] \in Nodes
      BY <2>2
    <3> QED
      BY <3>1
  <2>4. passList' \in c
    BY <1>7, <2>2, <2>3
  <2>5. passList \in c
    BY <1>8, <2>2, <2>3 DEF Straight, IsList, From
  <2>6. ASSUME NEW n \in c PROVE binding'[n] # NULL /\ next'[n] \in c
    <3>1. PICK j \in 1 .. i : n = s[j]
      BY <2>3
    <3>2. j \in 1 .. Len(s) /\ binding[s[j]] # NULL /\ next[s[j]] = From(s, j + 1)
      BY <1>8, <2>2, <3>1 DEF Straight, IsList
    <3>3. CASE j = i
      BY <1>5, <1>7, <2>2, <2>5, <3>1, <3>2, <3>3
    <3>4. CASE j # i
      <4>1. j + 1 \in 1 .. i /\ j + 1 \in 1 .. Len(s)
        BY <2>2, <3>1, <3>4
      <4>2. next[n] = s[j + 1] /\ s[j + 1] \in c
        BY <2>3, <3>1, <3>2, <4>1 DEF From
      <4>3. n # p
        BY <1>8, <2>2, <3>1, <3>2, <3>4 DEF Straight, IsList
      <4> QED
        BY <1>5, <1>7, <3>1, <3>2, <4>2, <4>3
    <3> QED
      BY <3>3, <3>4
  <2>7. Round(c)'
    BY <1>4, <2>4, <2>6 DEF Round
  <2> QED
    BY <2>7
<1>9. ASSUME NEW c \in SUBSET Nodes, Round(c) PROVE \E d \in SUBSET Nodes : Round(d)'
  <2>1. p \in c /\ passList \in c
    BY <1>2, <1>3, <1>9 DEF Round
  <2>2. ASSUME NEW n \in c PROVE binding'[n] # NULL /\ next'[n] \in c
    BY <1>5, <1>7, <1>9, <2>1 DEF Round
  <2>3. Round(c)'
    BY <1>4, <1>7, <2>1, <2>2 DEF Round
  <2> QED
    BY <2>3
<1> QED
  BY <1>4, <1>6, <1>8, <1>9 DEF HeapInv

\* The other steps: the list stays, a login is added, goes on or returns.
LEMMA PopHeap ==
    ASSUME HeapInv, TypeOK', At("login"), Return, UNCHANGED <<setup, list>>
    PROVE  HeapInv'
<1>1. TypeOK /\ stack # <<>> /\ Len(stack) \in Nat \ {0}
  BY TopType DEF HeapInv, At
<1>2. Len(stack') = Len(stack) - 1 /\ \A k \in 1 .. Len(stack) - 1 : stack'[k] = stack[k]
  BY <1>1, PopFrames
<1>3. \A k \in 1 .. Len(stack') : k \in 1 .. Len(stack) - 1 /\ k \in 1 .. Len(stack)
  BY <1>1, <1>2
<1>4. \A k \in 1 .. Len(stack') : ~Walking(k)'
  BY <1>1, <1>2, <1>3 DEF HeapInv, OnlyTopWalks, Walking
<1>5. OnlyTopWalks' /\ BoxesAreOpen'
  BY <1>2, <1>3, <1>4 DEF HeapInv, OnlyTopWalks, BoxesAreOpen
<1> QED
  BY <1>4, <1>5, QuietHeap

LEMMA GotoHeap ==
    ASSUME HeapInv, TypeOK', stack # <<>>, NEW f \in Frames, Goto(f), f.box = Box,
           UNCHANGED <<setup, list>>,
           f.at = "walk" => Begins(f) \/ (Top.at = "walk" /\ StepsFrom(Top, f))
    PROVE  HeapInv'
<1>1. TypeOK /\ Len(stack) \in Nat \ {0} /\ Top = stack[Len(stack)] /\ Box = Top.box
  BY TopType DEF HeapInv
<1>2. Len(stack') = Len(stack) /\ stack'[Len(stack)] = f
      /\ \A k \in 1 .. Len(stack) - 1 : stack'[k] = stack[k]
  BY <1>1, GotoFrames
<1>3. \A k \in 1 .. Len(stack) : k = Len(stack) \/ k \in 1 .. Len(stack) - 1
  BY <1>1
<1>4. \A k \in 1 .. Len(stack') : Walking(k)' => k = Len(stack) /\ f.at = "walk"
  BY <1>1, <1>2, <1>3 DEF HeapInv, OnlyTopWalks, Walking
<1>5. OnlyTopWalks'
  BY <1>2, <1>4 DEF OnlyTopWalks
<1>6. BoxesAreOpen'
  BY <1>1, <1>2, <1>3 DEF HeapInv, BoxesAreOpen
<1>7. ASSUME NEW k \in 1 .. Len(stack'), Walking(k)'
      PROVE  Begins(stack'[k])
             \/ \E j \in 1 .. Len(stack) : Walking(j) /\ StepsFrom(stack[j], stack'[k])
  <2>1. k = Len(stack) /\ stack'[k] = f /\ f.at = "walk" /\ Len(stack) \in 1 .. Len(stack)
    BY <1>1, <1>2, <1>4, <1>7
  <2> QED
    BY <1>1, <2>1 DEF Walking
<1> QED
  BY <1>5, <1>6, <1>7, QuietHeap

LEMMA PushHeap ==
    ASSUME HeapInv, TypeOK', NEW f \in Frames, Pushed(f), f.box \in setup.open,
           UNCHANGED <<setup, list>>, stack # <<>> => Top.at = "login",
           f.at = "walk" => Begins(f)
    PROVE  HeapInv'
<1>1. TypeOK /\ Len(stack) \in Nat /\ stack \in Seq(Frames)
  BY StackType DEF HeapInv
<1>2. Len(stack') = Len(stack) + 1 /\ stack'[Len(stack) + 1] = f
      /\ \A k \in 1 .. Len(stack) : stack'[k] = stack[k]
  BY <1>1, PushFrames
<1>3. \A k \in 1 .. Len(stack') : k = Len(stack) + 1 \/ k \in 1 .. Len(stack)
  BY <1>1, <1>2
<1>4. \A k \in 1 .. Len(stack) : ~Walking(k)
  <2>1. ASSUME NEW k \in 1 .. Len(stack), Walking(k) PROVE FALSE
    <3>1. k = Len(stack) /\ stack # <<>>
      BY <1>1, <2>1 DEF HeapInv, OnlyTopWalks
    <3> QED
      BY <2>1, <3>1 DEF Walking, Top
  <2> QED
    BY <2>1
<1>5. \A k \in 1 .. Len(stack') : Walking(k)' => k = Len(stack) + 1 /\ f.at = "walk"
  BY <1>1, <1>2, <1>3, <1>4 DEF Walking
<1>6. OnlyTopWalks'
  BY <1>2, <1>5 DEF OnlyTopWalks
<1>7. BoxesAreOpen'
  BY <1>1, <1>2, <1>3 DEF HeapInv, BoxesAreOpen
<1>8. \A k \in 1 .. Len(stack') : Walking(k)' => Begins(stack'[k])
  BY <1>2, <1>5
<1> QED
  BY <1>6, <1>7, <1>8, QuietHeap

LEMMA HeapStep == ASSUME HeapInv, [Next]_vars PROVE HeapInv'
<1>1. TypeOK /\ TypeOK'
  BY TypeStep DEF HeapInv
<1>2. ASSUME NEW b \in Boxes, Open(b) PROVE HeapInv'
  <2>1. Opened(b) /\ b \in setup.open
    BY <1>1, <1>2, OpenPushes
  <2>2. UNCHANGED <<setup, list>> /\ (stack # <<>> => Top.at = "login")
    BY <1>2 DEF Open
  <2>3. password[b] \in Passwords
    BY <1>1 DEF TypeOK
  <2>4. CASE Pushed(Ask(b, FALSE))
    <3>1. Ask(b, FALSE) \in Frames /\ Ask(b, FALSE).box = b /\ Begins(Ask(b, FALSE))
      BY <1>1, <2>3, FrameTypes DEF Begins
    <3> QED
      BY <1>1, <2>1, <2>2, <2>4, <3>1, PushHeap
  <2>5. CASE Pushed(Send(b, FALSE, password[b]))
    <3> DEFINE f == Send(b, FALSE, password[b])
    <3>1. f \in Frames /\ f.box = b /\ f.at = "login"
      <4>1. \A flush \in BOOLEAN, pw \in Passwords :
               /\ Send(b, flush, pw) \in Frames /\ Send(b, flush, pw).box = b
               /\ Send(b, flush, pw).at = "login"
        BY <1>1, FrameTypes
      <4> QED
        BY <2>3, <4>1, Zenon
    <3>2. Pushed(f)
      BY <2>5
    <3> HIDE DEF f
    <3> QED
      BY <1>1, <2>1, <2>2, <3>1, <3>2, PushHeap
  <2> QED
    BY <2>1, <2>4, <2>5 DEF Opened
<1>3. CASE Walk
  <2>1. stack # <<>> /\ Top \in Frames /\ Top.p \in Nodes /\ Box = Top.box
        /\ Account = setup.accountOf[Top.box]
    BY <1>1, <1>3, TopType DEF Walk, At, Frames, Account
  <2>2. PICK f : f = [Top EXCEPT !.p = next[Top.p]]
    OBVIOUS
  <2>3. f \in Frames /\ f.box = Top.box /\ f.p = next[Top.p]
    <3>1. next[Top.p] \in Nodes \union {NULL}
      BY <1>1, <2>1 DEF TypeOK
    <3> QED
      BY <2>1, <2>2, <3>1 DEF Frames
  <2>4. Goto(f) /\ UNCHANGED <<setup, list>> /\ Top.at = "walk"
        /\ Top.p # NULL /\ binding[Top.p] # Account
    BY <1>3, <2>2 DEF Walk, At
  <2>5. StepsFrom(Top, f)
    BY <2>1, <2>3, <2>4 DEF StepsFrom
  <2> QED
    BY <1>1, <2>1, <2>3, <2>4, <2>5, GotoHeap
<1>4. ASSUME stack # <<>>, UNCHANGED <<setup, list>>, NEW flush \in BOOLEAN,
             NEW pw \in Passwords, Goto(Send(Box, flush, pw))
      PROVE  HeapInv'
  <2> DEFINE f == Send(Box, flush, pw)
  <2>1. f \in Frames /\ f.box = Box /\ f.at = "login"
    BY <1>1, <1>4, TopType, FrameTypes
  <2>2. Goto(f)
    BY <1>4
  <2> HIDE DEF f
  <2> QED
    BY <1>1, <1>4, <2>1, <2>2, GotoHeap
<1>5. ASSUME stack # <<>>, UNCHANGED <<setup, list>>, Goto(Ask(Box, TRUE)) PROVE HeapInv'
  <2>1. "empty" \in Passwords
    BY DEF Passwords
  <2>2. Ask(Box, TRUE) \in Frames /\ Ask(Box, TRUE).box = Box /\ Begins(Ask(Box, TRUE))
    BY <1>1, <1>5, <2>1, TopType, FrameTypes DEF Begins
  <2> QED
    BY <1>1, <1>5, <2>2, GotoHeap
<1>6. CASE Hit
  <2>1. stack # <<>> /\ Top.p \in Nodes
    BY <1>1, <1>6, TopType DEF Hit, At, Found, Frames
  <2>2. stored[Top.p] \in Passwords
    BY <1>1, <2>1 DEF TypeOK
  <2>3. UNCHANGED <<setup, list>>
    BY <1>6 DEF Hit
  <2> QED
    BY <1>4, <1>6, <2>1, <2>2, <2>3 DEF Hit
<1>7. CASE Disable
  <2>1. stack # <<>> /\ Box \in Boxes /\ Top.flush \in BOOLEAN
    BY <1>1, <1>7, TopType DEF Disable, At, Frames
  <2>2. password[Box] \in Passwords
    BY <1>1, <2>1 DEF TypeOK
  <2>3. UNCHANGED <<setup, list>>
    BY <1>7 DEF Disable
  <2> QED
    BY <1>4, <1>7, <2>1, <2>2, <2>3 DEF Disable
<1>8. CASE Cancel \/ UNCHANGED vars
  <2>1. UNCHANGED <<setup, list, stack>>
    BY <1>8 DEF Cancel, vars, list
  <2>2. OnlyTopWalks' /\ BoxesAreOpen'
    BY <2>1 DEF HeapInv, OnlyTopWalks, BoxesAreOpen, Walking
  <2> QED
    BY <1>1, <2>1, <2>2, QuietHeap DEF Walking
<1>9. CASE Accepted \/ Silent \/ PassRefused
  <2>1. At("login") /\ Return /\ UNCHANGED <<setup, list>>
    BY <1>9 DEF Accepted, Silent, PassRefused, Refuse
  <2> QED
    BY <1>1, <2>1, PopHeap
<1>10. CASE LoginRefused \/ PasswordRequired
  <2>1. stack # <<>> /\ Goto(Ask(Box, TRUE)) /\ UNCHANGED <<setup, list>>
    BY <1>10 DEF LoginRefused, PasswordRequired, Refuse, At
  <2> QED
    BY <1>5, <2>1
<1> QED
  BY <1>2, <1>3, <1>6, <1>7, <1>8, <1>9, <1>10, MissHeap, FlushHeap
     DEF Next, Lookup, Server

LEMMA HeapInit == ASSUME Init PROVE HeapInv
<1>1. TypeOK
  <2>1. setup.depth \in Nat
    BY PasswordAssumption DEF Init, Setup
  <2>2. stack \in Seq(Frames) /\ Len(stack) <= setup.depth
    BY <2>1 DEF Init
  <2>3. enabled \in [Boxes -> BOOLEAN] /\ exited \in BOOLEAN
    BY DEF Init
  <2> QED
    BY <2>2, <2>3 DEF Init, TypeOK, Passwords, Frames
<1>2. Len(stack) = 0
  BY DEF Init
<1>3. OnlyTopWalks /\ BoxesAreOpen /\ OneBindingEach
  BY <1>2 DEF Init, OnlyTopWalks, BoxesAreOpen, OneBindingEach
<1>4. <<>> \in Seq(Nodes) /\ Straight(<<>>)
  <2>1. <<>> \in Seq(Nodes) /\ Len(<<>>) = 0
    OBVIOUS
  <2>2. IsList(<<>>)
    BY <2>1 DEF Init, IsList, From
  <2> QED
    BY <1>2, <2>1, <2>2 DEF Straight
<1> QED
  BY <1>1, <1>3, <1>4 DEF HeapInv

\* The mailboxes of one account share one binding: passwordFor of
\* passwordMgr.c allocates a binding only after a walk that met all of them.
THEOREM AccountsShareABinding == Spec => []OneBindingEach
<1>1. Init => HeapInv
  BY HeapInit
<1>2. HeapInv /\ [Next]_vars => HeapInv'
  BY HeapStep
<1>3. HeapInv => OneBindingEach
  BY DEF HeapInv
<1> QED
  BY <1>1, <1>2, <1>3, PTL DEF Spec

\* TYPES of the password cache and of its callers.
THEOREM TypeCorrect == Spec => []TypeOK
<1>1. Init => TypeOK
  BY HeapInit DEF HeapInv
<1>2. TypeOK /\ [Next]_vars => TypeOK'
  BY TypeStep
<1> QED
  BY <1>1, <1>2, PTL DEF Spec

-----------------------------------------------------------------------------
(* IMAP asks once.  It is not true of every surrounding: a login that waits *)
(* with an old password, while another one of the same account is told a    *)
(* new one, makes the user type it again.                                   *)

\* Servers that take whatever is typed, whatever mailboxes share an account;
\* or mailboxes of different accounts, whose logins do not nest.
TakesAnything(s) == s.rejects = {}
EachItsOwn(s) ==
    s.depth = 1 /\ \A a, b \in s.open : s.accountOf[a] = s.accountOf[b] => a = b

\* Every call is f or was under way before.
OldOr(f) ==
    \A k \in 1 .. Len(stack') :
        stack'[k] = f \/ \E j \in 1 .. Len(stack) : stack'[k] = stack[j]
Old == \A k \in 1 .. Len(stack') : \E j \in 1 .. Len(stack) : stack'[k] = stack[j]

LEMMA Moves ==
    ASSUME TypeOK
    PROVE  /\ \A f \in Frames : Pushed(f) => OldOr(f)
           /\ \A f \in Frames : stack # <<>> /\ Goto(f) => OldOr(f)
           /\ stack # <<>> /\ Return => Old
<1>1. stack \in Seq(Frames) /\ Len(stack) \in Nat
  BY StackType
<1>2. ASSUME NEW f \in Frames, Pushed(f) PROVE OldOr(f)
  <2>1. Len(stack') = Len(stack) + 1 /\ stack'[Len(stack) + 1] = f
        /\ \A k \in 1 .. Len(stack) : stack'[k] = stack[k]
    BY <1>2, PushFrames
  <2>2. \A k \in 1 .. Len(stack') : k = Len(stack) + 1 \/ k \in 1 .. Len(stack)
    BY <1>1, <2>1
  <2> QED
    BY <2>1, <2>2 DEF OldOr
<1>3. ASSUME NEW f \in Frames, stack # <<>>, Goto(f) PROVE OldOr(f)
  <2>1. Len(stack') = Len(stack) /\ stack'[Len(stack)] = f
        /\ \A k \in 1 .. Len(stack) - 1 : stack'[k] = stack[k]
    BY <1>3, GotoFrames
  <2>2. \A k \in 1 .. Len(stack') : k = Len(stack)
                                   \/ (k \in 1 .. Len(stack) - 1 /\ k \in 1 .. Len(stack))
    BY <1>1, <2>1
  <2> QED
    BY <2>1, <2>2 DEF OldOr
<1>4. ASSUME stack # <<>>, Return PROVE Old
  <2>1. Len(stack') = Len(stack) - 1 /\ \A k \in 1 .. Len(stack) - 1 : stack'[k] = stack[k]
    BY <1>4, PopFrames
  <2>2. \A k \in 1 .. Len(stack') : k \in 1 .. Len(stack) - 1 /\ k \in 1 .. Len(stack)
    BY <1>1, <2>1
  <2> QED
    BY <2>1, <2>2 DEF Old
<1> QED
  BY <1>2, <1>3, <1>4

\* The account has a binding that passes for one without a password.
Poor(a) == \E n \in Nodes : binding[n] = a /\ LooksEmpty(stored[n])

\* Only where the user typed nothing usable is the order given to ask again.
PoorFrame(f) ==
    \/ f.at = "walk" /\ f.flush = TRUE
    \/ f.at = "login" /\ f.sent = "empty"
    => Pop3(f.box) \/ Poor(setup.accountOf[f.box])

OnlyPop3Flushes ==
    /\ HeapInv
    /\ TakesAnything(setup)
    /\ \A k \in 1 .. Len(stack) : PoorFrame(stack[k])

LEMMA NoFlush == ASSUME OnlyPop3Flushes, Flush PROVE Pop3(Box)
<1>1. SUFFICES ASSUME ~Pop3(Box) PROVE FALSE
  OBVIOUS
<1>2. TypeOK /\ stack # <<>> /\ Top.at = "walk" /\ Top.flush
  BY DEF Flush, At, OnlyPop3Flushes, HeapInv
<1>3. Len(stack) \in 1 .. Len(stack) /\ Top = stack[Len(stack)] /\ Top \in Frames
      /\ Account = setup.accountOf[Top.box] /\ Account \in Accounts /\ Box = Top.box
  BY <1>2, TopType DEF Account
<1>4. Top.flush = TRUE
  BY <1>2, <1>3 DEF Frames
<1>5. PICK n \in Nodes : binding[n] = Account /\ LooksEmpty(stored[n])
  BY <1>1, <1>2, <1>3, <1>4 DEF OnlyPop3Flushes, PoorFrame, Poor
<1>6. Top.p \in Nodes /\ binding[Top.p] = Account /\ ~LooksEmpty(stored[Top.p])
  BY <1>3 DEF Flush, Found, Frames
<1> QED
  BY <1>3, <1>5, <1>6, PasswordAssumption DEF OnlyPop3Flushes, HeapInv, OneBindingEach

\* Nothing is written to the heap.
LEMMA QuietOrders ==
    ASSUME OnlyPop3Flushes, HeapInv', UNCHANGED <<setup, list>>,
           Old \/ \E f : OldOr(f) /\ PoorFrame(f)
    PROVE  OnlyPop3Flushes'
<1>1. \A k \in 1 .. Len(stack') : PoorFrame(stack'[k])
  BY DEF OnlyPop3Flushes, Old, OldOr
<1>2. \A k \in 1 .. Len(stack') : PoorFrame(stack[k])'
  BY <1>1 DEF PoorFrame, Pop3, Poor, list
<1> QED
  BY <1>2 DEF OnlyPop3Flushes, TakesAnything

\* An answer is written to a new binding, or by POP3 over a usable password.
LEMMA AnswerOrders ==
    ASSUME OnlyPop3Flushes, HeapInv', Miss \/ Flush
    PROVE  OnlyPop3Flushes'
<1>1. PICK n \in Nodes, pw \in Typed :
          Answer(n, pw) /\ (binding[n] = NULL \/ (binding[n] = Account /\ ~LooksEmpty(stored[n])))
  <2>1. CASE Miss
    BY <2>1 DEF Miss
  <2>2. CASE Flush
    <3>1. stack # <<>> /\ Found /\ ~LooksEmpty(stored[Top.p])
          /\ \E pw \in Typed : Answer(Top.p, pw)
      BY <2>2 DEF Flush, At
    <3>2. Top.p \in Nodes /\ binding[Top.p] = Account
      BY <3>1, TopType DEF Found, Frames, OnlyPop3Flushes, HeapInv
    <3> QED
      BY <3>1, <3>2
  <2> QED
    BY <2>1, <2>2
<1>2. HeapInv /\ TypeOK /\ stack # <<>>
  BY DEF Miss, Flush, At, OnlyPop3Flushes, HeapInv
<1>3. Account \in Accounts /\ Box \in Boxes /\ Top \in Frames /\ Account = setup.accountOf[Box]
  BY <1>2, TopType DEF Account
<1>4. setup' = setup /\ binding' = [binding EXCEPT ![n] = Account]
      /\ stored' = [stored EXCEPT ![n] = pw]
      /\ binding \in [Nodes -> Accounts \union {NULL}] /\ stored \in [Nodes -> Passwords]
  BY <1>1, <1>2 DEF Answer, TypeOK
<1>5. ASSUME NEW a \in Accounts, Poor(a) PROVE Poor(a)'
  <2>1. PICK m \in Nodes : binding[m] = a /\ LooksEmpty(stored[m])
    BY <1>5 DEF Poor
  <2>2. m # n
    BY <1>1, <1>5, <2>1, PasswordAssumption
  <2>3. binding'[m] = a /\ stored'[m] = stored[m]
    BY <1>4, <2>1, <2>2
  <2> QED
    BY <2>1, <2>3 DEF Poor, LooksEmpty
<1>6. PICK f \in Frames :
             /\ f = Send(Box, Top.flush, pw)
             /\ f.at = "login" /\ f.box = Box /\ f.sent = pw
  <2>1. Top.flush \in BOOLEAN /\ pw \in Passwords
    BY <1>3, TypedAreStrings DEF Frames
  <2> QED
    BY <1>2, <1>3, <2>1, FrameTypes
<1>7. OldOr(f)
  <2>1. Goto(f)
    BY <1>1, <1>6 DEF Answer
  <2> QED
    BY <1>2, <2>1, Moves
<1>8. f.sent = "empty" => Poor(setup.accountOf[f.box])'
  <2>1. SUFFICES ASSUME pw = "empty" PROVE Poor(setup.accountOf[f.box])'
    BY <1>6
  <2>2. binding'[n] = Account /\ stored'[n] = "empty"
    BY <1>4, <2>1
  <2> QED
    BY <1>3, <1>4, <1>6, <2>2 DEF Poor, LooksEmpty
<1>9. ASSUME NEW k \in 1 .. Len(stack') PROVE PoorFrame(stack[k])'
  <2>1. CASE stack'[k] = f
    BY <1>4, <1>6, <1>8, <2>1 DEF PoorFrame, Pop3
  <2>2. ASSUME NEW j \in 1 .. Len(stack), stack'[k] = stack[j] PROVE PoorFrame(stack[k])'
    <3>1. stack[j] \in Frames /\ setup \in Setup
      BY <1>2, StackType, PasswordAssumption DEF TypeOK
    <3>2. setup.accountOf[stack[j].box] \in Accounts
      BY <3>1 DEF Frames, Setup
    <3>3. PoorFrame(stack[j])
      BY DEF OnlyPop3Flushes
    <3> QED
      BY <1>4, <1>5, <2>2, <3>2, <3>3 DEF PoorFrame, Pop3
  <2> QED
    BY <1>7, <2>1, <2>2 DEF OldOr
<1> QED
  BY <1>4, <1>9 DEF OnlyPop3Flushes, TakesAnything

LEMMA OrdersStep == ASSUME OnlyPop3Flushes, [Next]_vars PROVE OnlyPop3Flushes'
<1>1. HeapInv /\ HeapInv' /\ TypeOK
  BY HeapStep DEF OnlyPop3Flushes, HeapInv
<1>2. setup.rejects = {}
  BY DEF OnlyPop3Flushes, TakesAnything
<1>3. ASSUME NEW b \in Boxes, Open(b) PROVE OnlyPop3Flushes'
  <2>1. UNCHANGED <<setup, list>> /\ password[b] \in Passwords
    BY <1>1, <1>3 DEF Open, TypeOK
  <2>2. CASE LooksEmpty(password[b]) /\ ~Pop3(b)
    <3>1. Pushed(Ask(b, FALSE))
      BY <1>3, <2>2 DEF Open, Pushed
    <3>2. Ask(b, FALSE) \in Frames
      BY <1>1, <2>1, FrameTypes
    <3>3. PoorFrame(Ask(b, FALSE))
      BY DEF PoorFrame, Ask, Frame
    <3> QED
      BY <1>1, <2>1, <3>1, <3>2, <3>3, Moves, QuietOrders
  <2>3. CASE ~LooksEmpty(password[b]) \/ Pop3(b)
    <3> DEFINE f == Send(b, FALSE, password[b])
    <3>1. Pushed(f)
      BY <1>3, <2>3 DEF Open, Pushed
    <3>2. f \in Frames
      BY <2>1 DEF Send, Frame, Frames
    <3>3. PoorFrame(f)
      BY <2>3 DEF PoorFrame, Send, Frame, LooksEmpty
    <3> HIDE DEF f
    <3> QED
      BY <1>1, <2>1, <3>1, <3>2, <3>3, Moves, QuietOrders
  <2> QED
    BY <2>2, <2>3
<1>4. CASE Lookup \/ Cancel \/ LoginRefused \/ PasswordRequired
           \/ Accepted \/ Silent \/ PassRefused
  <2>1. CASE Cancel
    <3>1. UNCHANGED <<setup, list>> /\ Old
      BY <2>1 DEF Cancel, Old
    <3> QED
      BY <1>1, <3>1, QuietOrders
  <2> SUFFICES ASSUME ~Cancel PROVE OnlyPop3Flushes'
    BY <2>1
  <2>2. stack # <<>>
    BY <1>4 DEF Lookup, Walk, Hit, Disable, Miss, Flush, LoginRefused, PasswordRequired,
                Refuse, Accepted, Silent, PassRefused, At
  <2>3. Top \in Frames /\ Box \in Boxes /\ Box = Top.box /\ Account = setup.accountOf[Box]
        /\ PoorFrame(Top) /\ Top.flush \in BOOLEAN
    BY <1>1, <2>2, TopType DEF OnlyPop3Flushes, Account, Frames
  <2>4. ASSUME UNCHANGED <<setup, list>>, NEW f \in Frames, Goto(f), PoorFrame(f)
        PROVE  OnlyPop3Flushes'
    BY <1>1, <2>2, <2>4, Moves, QuietOrders
  <2>5. CASE Walk
    <3>1. PICK f : f = [Top EXCEPT !.p = next[Top.p]]
      OBVIOUS
    <3>2. next[Top.p] \in Nodes \union {NULL}
      BY <1>1, <2>3, <2>5 DEF Walk, Frames, TypeOK
    <3>3. f \in Frames /\ f.at = Top.at /\ f.flush = Top.flush /\ f.box = Top.box
          /\ f.sent = Top.sent
      BY <2>3, <3>1, <3>2 DEF Frames
    <3>4. PoorFrame(f)
      BY <2>3, <3>3 DEF PoorFrame
    <3> QED
      BY <2>4, <2>5, <3>1, <3>3, <3>4 DEF Walk
  <2>6. CASE Hit
    <3> DEFINE f == Send(Box, FALSE, stored[Top.p])
    <3>1. stored[Top.p] \in Passwords /\ ~LooksEmpty(stored[Top.p]) /\ Goto(f)
          /\ UNCHANGED <<setup, list>>
      BY <1>1, <2>3, <2>6 DEF Hit, Found, Frames, TypeOK
    <3>2. f \in Frames /\ PoorFrame(f)
      BY <2>3, <3>1, PasswordAssumption DEF Send, Frame, Frames, PoorFrame, LooksEmpty
    <3> HIDE DEF f
    <3> QED
      BY <2>4, <3>1, <3>2
  <2>7. CASE Disable
    <3> DEFINE f == Send(Box, Top.flush, password[Box])
    <3>1. password[Box] \in Passwords /\ Goto(f) /\ UNCHANGED <<setup, list>>
      BY <1>1, <2>3, <2>7 DEF Disable, TypeOK
    <3>2. Poor(Account)
      BY <2>3, <2>7 DEF Disable, Found, Poor, Frames
    <3>3. f \in Frames /\ PoorFrame(f)
      BY <2>3, <3>1, <3>2 DEF Send, Frame, Frames, PoorFrame
    <3> HIDE DEF f
    <3> QED
      BY <2>4, <3>1, <3>3
  <2>8. CASE Miss \/ Flush
    BY <1>1, <2>8, AnswerOrders
  <2>10. CASE Accepted \/ Silent \/ PassRefused
    <3>1. Return /\ UNCHANGED <<setup, list>>
      BY <2>10 DEF Accepted, Silent, PassRefused
    <3> QED
      BY <1>1, <2>2, <3>1, Moves, QuietOrders
  <2>11. CASE PasswordRequired
    <3> DEFINE f == Ask(Box, TRUE)
    <3>1. Pop3(Box) /\ Goto(f) /\ UNCHANGED <<setup, list>>
      BY <2>11 DEF PasswordRequired
    <3>2. f \in Frames /\ f.box = Box
      <4>1. "empty" \in Passwords /\ TRUE \in BOOLEAN
        BY DEF Passwords
      <4> QED
        BY <1>1, <2>3, <4>1, FrameTypes
    <3>3. PoorFrame(f)
      BY <3>1, <3>2 DEF PoorFrame
    <3> HIDE DEF f
    <3> QED
      BY <2>4, <3>1, <3>2, <3>3
  <2>12. CASE LoginRefused
    <3>1. Top.at = "login" /\ Top.sent = "empty"
      BY <1>2, <2>12 DEF LoginRefused, Refuse, At
    <3>2. Poor(setup.accountOf[Box])
      BY <2>3, <2>12, <3>1 DEF PoorFrame, LoginRefused
    <3> DEFINE f == Ask(Box, TRUE)
    <3>3. f \in Frames /\ PoorFrame(f)
      <4>1. "empty" \in Passwords
        BY DEF Passwords
      <4>2. f.box = Box
        BY DEF Ask, Frame
      <4> QED
        BY <1>1, <2>3, <3>2, <4>1, <4>2, FrameTypes DEF PoorFrame
    <3>4. Goto(f) /\ UNCHANGED <<setup, list>>
      BY <2>12 DEF LoginRefused
    <3> HIDE DEF f
    <3> QED
      BY <2>4, <3>3, <3>4
  <2> QED
    BY <1>4, <2>5, <2>6, <2>7, <2>8, <2>10, <2>11, <2>12 DEF Lookup
<1>5. CASE UNCHANGED vars
  <2>1. UNCHANGED <<setup, list>> /\ Old
    BY <1>5 DEF vars, list, Old
  <2> QED
    BY <1>1, <2>1, QuietOrders
<1> QED
  BY <1>3, <1>4, <1>5 DEF Next, Server

-----------------------------------------------------------------------------
(* What lookups find: the walk of the list, step by step, and its cache.    *)

\* The least of some numbers.
LEMMA SmallestOf ==
    ASSUME NEW S \in SUBSET Nat, S # {}
    PROVE  \E m \in S : \A n \in S : m <= n
<1>1. PICK m \in S : \A n \in S : ~ (<<n, m>> \in OpToRel(<, Nat))
  BY NatLessThanWellFounded, WFMin
<1>2. \A n \in S : ~ (n < m)
  BY <1>1 DEF OpToRel
<1> QED
  BY <1>2

\* A function that takes the steps of a walk is the walk.
LEMMA WalkedIs ==
    ASSUME NEW head, NEW succ, NEW f,
           f = [k \in Nat |-> IF k = 0 THEN head
                              ELSE IF f[k - 1] = NULL THEN NULL ELSE succ[f[k - 1]]]
    PROVE  Walked(head, succ) = f
<1> DEFINE Steps(g) == g = [k \in Nat |-> IF k = 0 THEN head
                                        ELSE IF g[k - 1] = NULL THEN NULL ELSE succ[g[k - 1]]]
<1>1. Steps(f)
  OBVIOUS
<1>2. Walked(head, succ) = CHOOSE g : Steps(g)
  BY DEF Walked
<1>3. PICK m : m = Walked(head, succ)
  OBVIOUS
<1>4. Steps(m)
  <2> HIDE DEF Steps
  <2> QED
    BY <1>1, <1>2, <1>3, Zenon
<1>5. \A k \in Nat : m[k] = IF k = 0 THEN head
                            ELSE IF m[k - 1] = NULL THEN NULL ELSE succ[m[k - 1]]
  BY <1>4
<1>6. \A k \in Nat : f[k] = IF k = 0 THEN head
                            ELSE IF f[k - 1] = NULL THEN NULL ELSE succ[f[k - 1]]
  BY <1>1
<1>7. \A k \in Nat : m[k] = f[k]
  <2> DEFINE D == {k \in Nat : m[k] # f[k]}
  <2>1. SUFFICES ASSUME D # {} PROVE FALSE
    OBVIOUS
  <2>2. D \in SUBSET Nat
    OBVIOUS
  <2>3. PICK k \in D : \A l \in D : k <= l
    BY <2>1, <2>2, SmallestOf
  <2>4. k \in Nat \ {0}
    BY <2>3, <1>5, <1>6
  <2>5. k - 1 \in Nat /\ k - 1 \notin D
    BY <2>3, <2>4
  <2>6. m[k - 1] = f[k - 1]
    BY <2>5
  <2>7. m[k] = f[k]
    BY <2>4, <2>6, <1>5, <1>6
  <2> QED
    BY <2>3, <2>7
<1>8. m = f
  <2>1. m = [k \in Nat |-> m[k]]
    BY <1>4
  <2>2. f = [k \in Nat |-> f[k]]
    BY <1>1
  <2> QED
    BY <1>7, <2>1, <2>2
<1> QED
  BY <1>3, <1>8

\* What a cache of one binding for each account has to answer.
CacheIsRight ==
    \A a \in Accounts :
        /\ \A n \in Nodes : binding[n] = a => CacheOf(a) = stored[n]
        /\ (\A n \in Nodes : binding[n] # a) => CacheOf(a) = Unknown

\* It does if the walk stays among the bindings and meets all of them.
LEMMA MeetsAll ==
    ASSUME OneBindingEach, \A k \in Nat : Met[k] \in Nodes \union {NULL},
           \A n \in Nodes : binding[n] # NULL =>
               \E k \in 0 .. Cardinality(Nodes) : Met[k] = n
    PROVE  CacheIsRight
<1>1. SUFFICES ASSUME NEW a \in Accounts
               PROVE  /\ \A n \in Nodes : binding[n] = a => CacheOf(a) = stored[n]
                      /\ (\A n \in Nodes : binding[n] # a) => CacheOf(a) = Unknown
  BY DEF CacheIsRight
<1> DEFINE found == {k \in 0 .. Cardinality(Nodes) : Met[k] # NULL /\ binding[Met[k]] = a}
<1>2. CacheOf(a) = IF found = {} THEN Unknown
                   ELSE stored[Met[CHOOSE k \in found : \A l \in found : k <= l]]
  BY DEF CacheOf
<1>3. found \in SUBSET Nat /\ \A k \in found : Met[k] \in Nodes
  OBVIOUS
<1>4. ASSUME NEW n \in Nodes, binding[n] = a PROVE CacheOf(a) = stored[n]
  <2>1. a # NULL /\ n # NULL
    BY PasswordAssumption
  <2>2. PICK k \in 0 .. Cardinality(Nodes) : Met[k] = n
    BY <1>4, <2>1
  <2>3. k \in found
    BY <1>4, <2>1, <2>2
  <2>4. \E m \in found : \A l \in found : m <= l
    <3> HIDE DEF found
    <3> QED
      BY <1>3, <2>3, SmallestOf
  <2>5. PICK m \in found : m = CHOOSE i \in found : \A l \in found : i <= l
    <3> HIDE DEF found
    <3> QED
      BY <2>4
  <2>6. Met[m] \in Nodes /\ binding[Met[m]] = a
    BY <1>3, <2>5
  <2>7. Met[m] = n
    BY <1>4, <2>1, <2>6 DEF OneBindingEach
  <2> HIDE DEF found
  <2> QED
    BY <1>2, <2>3, <2>5, <2>7
<1>5. ASSUME \A n \in Nodes : binding[n] # a PROVE CacheOf(a) = Unknown
  <2>1. found = {}
    BY <1>3, <1>5
  <2> QED
    BY <1>2, <2>1
<1> QED
  BY <1>4, <1>5

LEMMA StraightIsRight ==
    ASSUME HeapInv, NEW s \in Seq(Nodes), IsList(s)
    PROVE  CacheIsRight
<1> DEFINE f == [k \in Nat |-> From(s, k + 1)]
<1>1. Len(s) \in Nat /\ \A i \in 1 .. Len(s) : s[i] \in Nodes /\ s[i] # NULL
  BY PasswordAssumption
<1>2. f = [k \in Nat |-> IF k = 0 THEN passList
                         ELSE IF f[k - 1] = NULL THEN NULL ELSE next[f[k - 1]]]
  <2>1. ASSUME NEW k \in Nat
        PROVE  From(s, k + 1) = IF k = 0 THEN passList
                                ELSE IF f[k - 1] = NULL THEN NULL ELSE next[f[k - 1]]
    <3>1. CASE k = 0
      BY <3>1 DEF IsList
    <3>2. CASE k # 0 /\ k \in 1 .. Len(s)
      <4>1. k - 1 \in Nat /\ f[k - 1] = From(s, (k - 1) + 1) /\ (k - 1) + 1 = k
        BY <3>2
      <4>2. f[k - 1] = s[k]
        BY <3>2, <4>1 DEF From
      <4>3. next[s[k]] = From(s, k + 1)
        BY <3>2 DEF IsList
      <4> QED
        BY <1>1, <3>2, <4>2, <4>3
    <3>3. CASE k # 0 /\ k \notin 1 .. Len(s)
      <4>1. k - 1 \in Nat /\ f[k - 1] = From(s, (k - 1) + 1) /\ (k - 1) + 1 = k
        BY <3>3
      <4>2. f[k - 1] = NULL
        BY <3>3, <4>1 DEF From
      <4>3. From(s, k + 1) = NULL
        BY <1>1, <3>3 DEF From
      <4> QED
        BY <3>3, <4>2, <4>3
    <3> QED
      BY <3>1, <3>2, <3>3
  <2>2. PICK g : g = [k \in Nat |-> IF k = 0 THEN passList
                                    ELSE IF f[k - 1] = NULL THEN NULL ELSE next[f[k - 1]]]
    OBVIOUS
  <2>3. \A k \in Nat : f[k] = g[k]
    BY <2>1, <2>2
  <2>4. f = g
    BY <2>2, <2>3
  <2> QED
    BY <2>2, <2>4
<1>3. Met = f
  <2> HIDE DEF f
  <2> QED
    BY <1>2, WalkedIs DEF Met
<1>4. \A k \in Nat : Met[k] \in Nodes \union {NULL}
  BY <1>1, <1>3 DEF From
<1>5. ASSUME NEW n \in Nodes, binding[n] # NULL
      PROVE  \E k \in 0 .. Cardinality(Nodes) : Met[k] = n
  <2>1. PICK i \in 1 .. Len(s) : s[i] = n
    BY <1>5 DEF IsList
  <2>2. Len(s) <= Cardinality(Nodes) /\ Cardinality(Nodes) \in Nat
    <3>1. [j \in 1 .. Len(s) |-> s[j]] \in Injection(1 .. Len(s), Nodes)
      BY <1>1, Fun_IsInj DEF IsList
    <3>2. Cardinality(1 .. Len(s)) <= Cardinality(Nodes)
      BY <3>1, FS_Injection, PasswordAssumption
    <3>3. Cardinality(1 .. Len(s)) = Len(s)
      BY <1>1, FS_Interval, SMTT(30)
    <3> QED
      BY <3>2, <3>3, FS_CardinalityType, PasswordAssumption
  <2>3. i - 1 \in 0 .. Cardinality(Nodes) /\ i - 1 \in Nat /\ (i - 1) + 1 = i
    BY <1>1, <2>1, <2>2
  <2>4. Met[i - 1] = n
    BY <1>3, <2>1, <2>3 DEF From
  <2> QED
    BY <2>3, <2>4
<1> QED
  BY <1>4, <1>5, MeetsAll DEF HeapInv

\* The walk in a ring of a single binding.
LEMMA SingleIsRight ==
    ASSUME HeapInv, NEW n \in Nodes, passList = n, next[n] = n,
           \A m \in Nodes : binding[m] # NULL => m = n
    PROVE  CacheIsRight
<1> DEFINE f == [k \in Nat |-> n]
<1>1. n # NULL
  BY PasswordAssumption
<1>2. f = [k \in Nat |-> IF k = 0 THEN passList
                         ELSE IF f[k - 1] = NULL THEN NULL ELSE next[f[k - 1]]]
  <2>1. PICK g : g = [k \in Nat |-> IF k = 0 THEN passList
                                    ELSE IF f[k - 1] = NULL THEN NULL ELSE next[f[k - 1]]]
    OBVIOUS
  <2>2. \A k \in Nat : f[k] = g[k]
    <3>1. \A k \in Nat : k = 0 \/ k - 1 \in Nat
      OBVIOUS
    <3> QED
      BY <1>1, <2>1, <3>1
  <2>3. f = g
    BY <2>1, <2>2
  <2> QED
    BY <2>1, <2>3
<1>3. Met = f
  <2> HIDE DEF f
  <2> QED
    BY <1>2, WalkedIs DEF Met
<1>4. \A k \in Nat : Met[k] = n
  BY <1>3
<1>5. 0 \in 0 .. Cardinality(Nodes)
  BY FS_CardinalityType, PasswordAssumption
<1> QED
  BY <1>4, <1>5, MeetsAll DEF HeapInv

-----------------------------------------------------------------------------
(* The list implements the cache of PasswordCache, where a binding is       *)
(* flushed only if it is the only one: the flush of another cuts off the    *)
(* bindings behind it.                                                     *)

OneAccount(s) == \A a, b \in s.open : s.accountOf[a] = s.accountOf[b]

OneAccountInv ==
    /\ HeapInv
    /\ OneAccount(setup)
    /\ \A n \in Nodes : binding[n] # NULL =>
           \E b \in setup.open : binding[n] = setup.accountOf[b]

ListInv ==
    /\ OnlyPop3Flushes
    /\ setup.pop3 = {}
    /\ \E s \in Seq(Nodes) : IsList(s)

\* What a step does to the list.
Answered == stack # <<>> /\ \E n \in Nodes, pw \in Typed :
                Answer(n, pw) /\ (binding[n] = NULL \/ binding[n] = Account)

LEMMA ListSteps ==
    ASSUME TypeOK, [Next]_vars
    PROVE  setup' = setup /\ (Answered \/ UNCHANGED list)
<1>1. CASE Miss
  <2>1. Answered
    BY <1>1 DEF Miss, Answered, At
  <2> QED
    BY <2>1 DEF Answered, Answer
<1>2. CASE Flush
  <2>1. Answered
    <3>1. stack # <<>> /\ Found /\ \E pw \in Typed : Answer(Top.p, pw)
      BY <1>2 DEF Flush, At
    <3>2. Top.p \in Nodes /\ binding[Top.p] = Account
      BY <3>1, TopType DEF Found, Frames
    <3> QED
      BY <3>1, <3>2 DEF Answered
  <2> QED
    BY <2>1 DEF Answered, Answer
<1>3. CASE Walk \/ Hit \/ Disable \/ Cancel \/ Server \/ \E b \in Boxes : Open(b)
  BY <1>3 DEF Walk, Hit, Disable, Cancel, Server, Accepted, Silent, LoginRefused,
              PasswordRequired, PassRefused, Open
<1>4. CASE UNCHANGED vars
  BY <1>4 DEF vars, list
<1> QED
  BY <1>1, <1>2, <1>3, <1>4 DEF Next, Lookup

LEMMA OneAccountStep == ASSUME OneAccountInv, [Next]_vars PROVE OneAccountInv'
<1>1. HeapInv' /\ TypeOK
  BY HeapStep DEF OneAccountInv, HeapInv
<1>2. setup' = setup /\ (Answered \/ UNCHANGED list)
  BY <1>1, ListSteps
<1>3. ASSUME NEW n \in Nodes, binding'[n] # NULL
      PROVE  \E b \in setup.open : binding'[n] = setup.accountOf[b]
  <2>1. CASE UNCHANGED list
    BY <1>3, <2>1 DEF OneAccountInv, list
  <2>2. CASE Answered
    <3>1. PICK m \in Nodes, pw \in Typed : Answer(m, pw)
      BY <2>2 DEF Answered
    <3>2. stack # <<>> /\ Len(stack) \in 1 .. Len(stack) /\ Box = stack[Len(stack)].box
      BY <1>1, <2>2, TopType DEF Answered
    <3>3. Box \in setup.open
      BY <3>2 DEF OneAccountInv, HeapInv, BoxesAreOpen
    <3>4. binding' = [binding EXCEPT ![m] = setup.accountOf[Box]]
      BY <3>1 DEF Answer, Account
    <3> QED
      BY <1>1, <1>3, <3>3, <3>4 DEF OneAccountInv, TypeOK
  <2> QED
    BY <1>2, <2>1, <2>2
<1> QED
  BY <1>1, <1>2, <1>3 DEF OneAccountInv, OneAccount

LEMMA OneAccountIsRight == OneAccountInv => CacheIsRight
<1>1. SUFFICES ASSUME OneAccountInv PROVE CacheIsRight
  OBVIOUS
<1>2. ASSUME NEW s \in Seq(Nodes), Straight(s) PROVE CacheIsRight
  BY <1>1, <1>2, StraightIsRight DEF OneAccountInv, Straight
<1>3. ASSUME NEW c \in SUBSET Nodes, Round(c) PROVE CacheIsRight
  <2>1. passList \in Nodes /\ binding[passList] # NULL /\ next[passList] \in c
    BY <1>3 DEF Round
  <2>2. next[passList] \in Nodes /\ binding[next[passList]] # NULL
    BY <1>3, <2>1 DEF Round
  <2>3. \A m \in Nodes : binding[m] # NULL => m = passList
    <3>1. ASSUME NEW m \in Nodes, binding[m] # NULL PROVE m = passList
      <4>1. binding[m] = binding[passList]
        BY <1>1, <2>1, <3>1 DEF OneAccountInv, OneAccount
      <4> QED
        BY <1>1, <2>1, <3>1, <4>1 DEF OneAccountInv, HeapInv, OneBindingEach
    <3> QED
      BY <3>1
  <2> QED
    BY <1>1, <2>1, <2>2, <2>3, SingleIsRight DEF OneAccountInv
<1> QED
  BY <1>1, <1>2, <1>3 DEF OneAccountInv, HeapInv

LEMMA ListStep == ASSUME ListInv, [Next]_vars PROVE ListInv'
<1>1. OnlyPop3Flushes' /\ HeapInv /\ TypeOK /\ ~Flush /\ setup' = setup
  BY OrdersStep, NoFlush, ListSteps DEF ListInv, OnlyPop3Flushes, HeapInv, Pop3
<1>2. CASE Miss
  BY <1>1, <1>2, MissHeap DEF ListInv
<1>3. CASE ~Miss
  <2>1. UNCHANGED list
    BY <1>1, <1>3 DEF Next, Lookup, Walk, Hit, Disable, Cancel, Server, Accepted, Silent,
                      LoginRefused, PasswordRequired, PassRefused, Open, vars, list
  <2>2. PICK s \in Seq(Nodes) : IsList(s)
    BY DEF ListInv
  <2>3. IsList(s)'
    BY <2>1, <2>2 DEF IsList, From, list
  <2> QED
    BY <1>1, <2>3 DEF ListInv
<1> QED
  BY <1>2, <1>3

LEMMA ListIsRight == ListInv => CacheIsRight
BY StraightIsRight DEF ListInv, OnlyPop3Flushes

\* A step of the list is a step of the cache, or leaves it as it is.
Remembered == [a \in Accounts |-> CacheOf(a)]

LEMMA CacheStep ==
    ASSUME HeapInv, CacheIsRight, CacheIsRight', [Next]_vars
    PROVE  Cache!Next \/ UNCHANGED Remembered
<1>1. TypeOK /\ (Answered \/ UNCHANGED list)
  BY ListSteps DEF HeapInv
<1>2. CASE UNCHANGED list
  <2>1. \A a \in Accounts : CacheOf(a)' = CacheOf(a)
    BY <1>2 DEF CacheOf, Met, list
  <2> QED
    BY <2>1 DEF Remembered
<1>3. CASE Answered
  <2>1. PICK n \in Nodes, pw \in Typed :
               Answer(n, pw) /\ (binding[n] = NULL \/ binding[n] = Account)
    BY <1>3 DEF Answered
  <2>2. PICK mine \in Accounts : mine = Account
    BY <1>1, <1>3, TopType DEF Answered
  <2>3. binding' = [binding EXCEPT ![n] = mine] /\ stored' = [stored EXCEPT ![n] = pw]
        /\ binding \in [Nodes -> Accounts \union {NULL}] /\ stored \in [Nodes -> Passwords]
    BY <1>1, <2>1, <2>2 DEF Answer, TypeOK
  <2>4. CacheOf(mine)' = pw
    <3>1. binding'[n] = mine /\ stored'[n] = pw
      BY <2>3
    <3> QED
      BY <3>1 DEF CacheIsRight
  <2>5. ASSUME NEW a \in Accounts, a # mine PROVE CacheOf(a)' = CacheOf(a)
    <3>1. \A m \in Nodes : binding'[m] = a <=> binding[m] = a
      BY <2>1, <2>2, <2>3, <2>5, PasswordAssumption
    <3>2. \A m \in Nodes : binding[m] = a => stored'[m] = stored[m]
      BY <2>1, <2>2, <2>3, <2>5, PasswordAssumption
    <3>3. CASE \E m \in Nodes : binding[m] = a
      BY <3>1, <3>2, <3>3 DEF CacheIsRight
    <3>4. CASE \A m \in Nodes : binding[m] # a
      BY <3>1, <3>4 DEF CacheIsRight
    <3> QED
      BY <3>3, <3>4
  <2>6. Remembered' = [Remembered EXCEPT ![mine] = pw]
    BY <2>4, <2>5 DEF Remembered
  <2>7. pw \in Passwords
    BY TypedAreStrings
  <2>8. Cache!Learn(mine, pw)
    BY <2>6 DEF Cache!Learn, Remembered
  <2> QED
    BY <2>7, <2>8 DEF Cache!Next
<1> QED
  BY <1>1, <1>2, <1>3

LEMMA CacheInit == ASSUME Init PROVE Cache!Init
<1>1. HeapInv /\ IsList(<<>>) /\ <<>> \in Seq(Nodes)
  <2>1. <<>> \in Seq(Nodes) /\ Len(<<>>) = 0
    OBVIOUS
  <2>2. IsList(<<>>)
    BY <2>1 DEF Init, IsList, From
  <2> QED
    BY <2>1, <2>2, HeapInit
<1>2. CacheIsRight
  BY <1>1, StraightIsRight
<1>3. \A n \in Nodes : binding[n] = NULL
  BY DEF Init
<1>4. \A a \in Accounts : CacheOf(a) = Unknown
  BY <1>2, <1>3, PasswordAssumption DEF CacheIsRight
<1> QED
  BY <1>4 DEF Cache!Init

\* passwordMgr.c keeps its promise: the answer for an account is what later
\* lookups of it find, and no answer for one account touches another's; with
\* one account, or with IMAP servers that never refuse what the user typed.
THEOREM ListImplementsCache ==
    ASSUME \A s \in Setups : (TakesAnything(s) /\ s.pop3 = {}) \/ OneAccount(s)
    PROVE  Spec => ImplementsCache
<1>1. Init => Cache!Init
  BY CacheInit
<1>2. Init => ListInv \/ OneAccountInv
  <2>1. SUFFICES ASSUME Init PROVE ListInv \/ OneAccountInv
    OBVIOUS
  <2>2. HeapInv /\ Len(stack) = 0
    BY <2>1, HeapInit DEF Init
  <2>3. CASE TakesAnything(setup) /\ setup.pop3 = {}
    <3>1. <<>> \in Seq(Nodes) /\ Len(<<>>) = 0
      OBVIOUS
    <3>2. IsList(<<>>)
      BY <2>1, <3>1 DEF Init, IsList, From
    <3>3. OnlyPop3Flushes
      BY <2>2, <2>3 DEF OnlyPop3Flushes
    <3> QED
      BY <2>3, <3>1, <3>2, <3>3 DEF ListInv
  <2>4. CASE OneAccount(setup)
    BY <2>1, <2>2, <2>4 DEF Init, OneAccountInv
  <2> QED
    BY <2>1, <2>3, <2>4 DEF Init
<1> DEFINE Inv == ListInv \/ OneAccountInv
<1>3. Inv /\ [Next]_vars => Inv'
  BY ListStep, OneAccountStep
<1>4. Inv => HeapInv /\ CacheIsRight
  BY ListIsRight, OneAccountIsRight DEF ListInv, OnlyPop3Flushes, OneAccountInv
<1>5. HeapInv /\ CacheIsRight /\ CacheIsRight' /\ [Next]_vars
      => [Cache!Next]_Remembered
  BY CacheStep
<1> HIDE DEF Inv
<1>6. Spec => [](HeapInv /\ CacheIsRight) /\ [][Next]_vars /\ Cache!Init
  BY <1>1, <1>2, <1>3, <1>4, PTL DEF Spec, Inv
<1>7. [](HeapInv /\ CacheIsRight) /\ [][Next]_vars => [][Cache!Next]_Remembered
  BY <1>5, PTL
<1> QED
  BY <1>6, <1>7, PTL DEF ImplementsCache, Cache!Spec, Remembered

-----------------------------------------------------------------------------
(* The question is asked once: mailboxes of different accounts.  A password *)
(* that is remembered and can be used is the mailbox's own, until a server  *)
(* refuses it.                                                             *)

UnusableFor(a) == \A n \in Nodes : binding[n] = a => LooksEmpty(stored[n])

\* The mailbox b was refused and asks for another password.
Overdue(b) ==
    stack # <<>> /\ Top.at = "walk" /\ Top.box = b /\ setup.accountOf[b] \in refused

OwnPassword(b) ==
    \A n \in Nodes : binding[n] = setup.accountOf[b] =>
        LooksEmpty(stored[n]) \/ stored[n] = password[b] \/ Overdue(b)

TopIsJust ==
    stack # <<>> =>
        /\ Top.at = "login" => Top.sent = password[Top.box]
        /\ Top.at = "walk" /\ Top.flush = TRUE =>
               \/ setup.accountOf[Top.box] \in refused
               \/ UnusableFor(setup.accountOf[Top.box])

\* The inductive invariant.
OwnInv ==
    /\ HeapInv
    /\ EachItsOwn(setup)
    /\ \A b \in setup.open : OwnPassword(b)
    /\ TopIsJust

LEMMA FlushIsJust == ASSUME OwnInv, Flush PROVE Account \in refused
<1>1. TypeOK /\ stack # <<>> /\ Top.at = "walk" /\ Top.flush
  BY DEF Flush, At, OwnInv, HeapInv
<1>2. Top \in Frames /\ Account = setup.accountOf[Top.box]
  BY <1>1, TopType DEF Account
<1>3. Top.flush = TRUE
  BY <1>1, <1>2 DEF Frames
<1>4. Top.p \in Nodes /\ binding[Top.p] = Account /\ ~LooksEmpty(stored[Top.p])
  BY <1>2 DEF Flush, Found, Frames
<1> QED
  BY <1>1, <1>2, <1>3, <1>4 DEF OwnInv, TopIsJust, UnusableFor

\* Logins do not nest: there is one, or none.
LEMMA Alone ==
    ASSUME OwnInv
    PROVE  /\ TypeOK
           /\ stack # <<>> =>
                  /\ Len(stack) = 1 /\ Top = stack[1] /\ Top \in Frames
                  /\ Box = Top.box /\ Box \in Boxes /\ Box \in setup.open
                  /\ Account = setup.accountOf[Box] /\ Account \in Accounts
                  /\ \A b \in setup.open : b # Box => setup.accountOf[b] # Account
<1>1. TypeOK /\ setup.depth = 1 /\ BoxesAreOpen
  BY DEF OwnInv, HeapInv, EachItsOwn
<1>2. ASSUME stack # <<>>
      PROVE  /\ Len(stack) = 1 /\ Top = stack[1] /\ Top \in Frames
             /\ Box = Top.box /\ Box \in Boxes
             /\ Account = setup.accountOf[Box] /\ Account \in Accounts
  <2>1. Len(stack) = 1
    <3>1. Len(stack) <= 1
      BY <1>1 DEF TypeOK
    <3>2. PICK n \in Nat \ {0} : n = Len(stack)
      BY <1>1, <1>2, TopType
    <3>3. n = 1
      BY <3>1, <3>2
    <3> QED
      BY <3>2, <3>3
  <2> QED
    BY <1>1, <1>2, <2>1, TopType DEF Account
<1>3. ASSUME stack # <<>> PROVE Box \in setup.open
  <2>1. 1 \in 1 .. Len(stack)
    BY <1>2, <1>3
  <2> QED
    BY <1>1, <1>2, <1>3, <2>1 DEF BoxesAreOpen
<1> QED
  BY <1>1, <1>2, <1>3 DEF OwnInv, EachItsOwn

LEMMA AloneMoves ==
    ASSUME OwnInv
    PROVE  /\ \A f \in Frames : stack = <<>> /\ Pushed(f) => stack' # <<>> /\ Top' = f
           /\ \A f \in Frames : stack # <<>> /\ Goto(f) => stack' # <<>> /\ Top' = f
           /\ stack # <<>> /\ Return => stack' = <<>>
<1>1. ASSUME NEW f \in Frames, stack = <<>>, Pushed(f) PROVE stack' # <<>> /\ Top' = f
  <2>1. Len(stack) = 0
    BY <1>1
  <2>2. Len(stack') = 1 /\ stack'[1] = f /\ stack' \in Seq(Frames)
    BY <1>1, <2>1, Alone, PushFrames
  <2> QED
    BY <2>2 DEF Top
<1>2. ASSUME NEW f \in Frames, stack # <<>>, Goto(f) PROVE stack' # <<>> /\ Top' = f
  <2>1. Len(stack') = 1 /\ stack'[1] = f /\ stack' \in Seq(Frames)
    BY <1>2, Alone, GotoFrames
  <2> QED
    BY <2>1 DEF Top
<1>3. ASSUME stack # <<>>, Return PROVE stack' = <<>>
  <2>1. Len(stack') = 0 /\ stack' \in Seq(Frames)
    BY <1>3, Alone, PopFrames
  <2> QED
    BY <2>1
<1> QED
  BY <1>1, <1>2, <1>3

\* An answer is the mailbox's own password.
LEMMA AnswerOwn ==
    ASSUME OwnInv, HeapInv', stack # <<>>, NEW n \in Nodes, NEW pw \in Typed, Answer(n, pw),
           binding[n] = NULL \/ binding[n] = Account,
           \A m \in Nodes : binding[m] = Account => m = n
    PROVE  OwnInv'
<1>1. TypeOK /\ Box \in Boxes /\ Box \in setup.open /\ Top \in Frames
      /\ Account = setup.accountOf[Box] /\ Account \in Accounts /\ Box = Top.box
      /\ \A b \in setup.open : b # Box => setup.accountOf[b] # Account
  BY Alone
<1>2. PICK mine \in Accounts : mine = Account
  BY <1>1
<1>3. /\ setup' = setup /\ stored' = [stored EXCEPT ![n] = pw]
      /\ binding' = [binding EXCEPT ![n] = mine]
      /\ password' = [password EXCEPT ![Box] = pw]
      /\ binding \in [Nodes -> Accounts \union {NULL}] /\ stored \in [Nodes -> Passwords]
      /\ password \in [Boxes -> Passwords]
  BY <1>1, <1>2 DEF Answer, TypeOK
<1>4. PICK f \in Frames :
             /\ f = Send(Box, Top.flush, pw)
             /\ f.at = "login" /\ f.box = Box /\ f.sent = pw
  <2>1. Top.flush \in BOOLEAN /\ pw \in Passwords
    BY <1>1, TypedAreStrings DEF Frames
  <2> QED
    BY <1>1, <2>1, FrameTypes
<1>5. stack' # <<>> /\ Top' = f
  <2>1. Goto(f)
    BY <1>4 DEF Answer
  <2> QED
    BY <2>1, AloneMoves
<1>6. TopIsJust'
  <2>1. Top'.sent = password'[Top'.box] /\ Top'.at = "login"
    BY <1>1, <1>3, <1>4, <1>5
  <2> QED
    BY <2>1 DEF TopIsJust
<1>7. ASSUME NEW b \in setup.open PROVE OwnPassword(b)'
  <2>1. b \in Boxes
    <3>1. setup \in Setup
      BY <1>1, PasswordAssumption DEF TypeOK
    <3> QED
      BY <3>1 DEF Setup
  <2>2. CASE b = Box
    <3>1. password'[b] = pw
      BY <1>3, <2>1, <2>2
    <3>2. \A m \in Nodes : binding'[m] = mine => stored'[m] = pw
      BY <1>2, <1>3
    <3> QED
      BY <1>1, <1>2, <1>3, <2>2, <3>1, <3>2 DEF OwnPassword
  <2>3. CASE b # Box
    <3>1. OwnPassword(b) /\ ~Overdue(b) /\ setup.accountOf[b] # mine
      BY <1>1, <1>2, <2>3 DEF OwnInv, Overdue
    <3>2. password'[b] = password[b]
      BY <1>3, <2>1, <2>3
    <3>3. \A m \in Nodes : binding'[m] = setup.accountOf[b] =>
              binding[m] = setup.accountOf[b] /\ stored'[m] = stored[m]
      BY <1>2, <1>3, <3>1, PasswordAssumption
    <3> QED
      BY <1>3, <3>1, <3>2, <3>3 DEF OwnPassword, LooksEmpty
  <2> QED
    BY <2>2, <2>3
<1> QED
  BY <1>3, <1>6, <1>7 DEF OwnInv, EachItsOwn

\* Nothing is written to the heap, and the mailbox that logs in, if there is
\* one, has its own password in the end.
LEMMA QuietOwn ==
    ASSUME OwnInv, HeapInv', UNCHANGED <<setup, list>>, TopIsJust',
           \A b \in setup.open : \/ OwnPassword(b)'
                                 \/ /\ password'[b] = password[b]
                                    /\ Overdue(b) => Overdue(b)'
    PROVE  OwnInv'
<1>1. ASSUME NEW b \in setup.open PROVE OwnPassword(b)'
  BY DEF OwnInv, OwnPassword, list, LooksEmpty
<1> QED
  BY <1>1 DEF OwnInv, EachItsOwn

LEMMA OwnStep == ASSUME OwnInv, [Next]_vars PROVE OwnInv'
<1>1. HeapInv /\ HeapInv' /\ TypeOK
  BY HeapStep DEF OwnInv, HeapInv
<1>2. \A b \in setup.open : b \in Boxes /\ password[b] \in Passwords
  <2>1. setup \in Setup
    BY <1>1, PasswordAssumption DEF TypeOK
  <2> QED
    BY <1>1, <2>1 DEF Setup, TypeOK
<1>3. ASSUME NEW b \in Boxes, Open(b) PROVE OwnInv'
  <2>1. stack = <<>>
    <3>1. Len(stack) < 1 /\ Len(stack) \in Nat /\ stack \in Seq(Frames)
      BY <1>1, <1>3, StackType DEF Open, OwnInv, EachItsOwn
    <3> QED
      BY <3>1
  <2>2. UNCHANGED <<setup, list, password, refused>> /\ password[b] \in Passwords
    BY <1>1, <1>3 DEF Open, TypeOK
  <2>3. PICK f \in Frames : Pushed(f) /\ (\/ f = Ask(b, FALSE)
                                         \/ f = Send(b, FALSE, password[b]))
    <3>1. Ask(b, FALSE) \in Frames /\ Send(b, FALSE, password[b]) \in Frames
      <4>1. "empty" \in Passwords
        BY DEF Passwords
      <4> QED
        BY <1>1, <2>2, <4>1 DEF Ask, Send, Frame, Frames, TypeOK
    <3> QED
      BY <1>1, <1>3, <3>1, OpenPushes DEF Opened
  <2>4. Top' = f
    BY <2>1, <2>3, AloneMoves
  <2>5. TopIsJust'
    BY <2>2, <2>3, <2>4 DEF TopIsJust, Ask, Send, Frame
  <2> QED
    BY <1>1, <2>1, <2>2, <2>5, QuietOwn DEF Overdue
<1>4. CASE Miss
  <2>1. PICK n \in Nodes, pw \in Typed : binding[n] = NULL /\ Answer(n, pw)
    BY <1>4 DEF Miss
  <2>2. stack # <<>> /\ \A m \in Nodes : binding[m] # Account
    BY <1>1, <1>4, NoneAtTheEnd DEF Miss, At
  <2> QED
    BY <1>1, <2>1, <2>2, AnswerOwn
<1>5. CASE Flush
  <2>1. PICK pw \in Typed : Answer(Top.p, pw)
    BY <1>5 DEF Flush
  <2>2. stack # <<>> /\ Top.p \in Nodes /\ binding[Top.p] = Account /\ Account # NULL
    <3>1. stack # <<>> /\ Top \in Frames /\ Account \in Accounts
      BY <1>1, <1>5, TopType DEF Flush, At
    <3> QED
      BY <1>5, <3>1, PasswordAssumption DEF Flush, Found, Frames
  <2>3. \A m \in Nodes : binding[m] = Account => m = Top.p
    BY <1>1, <2>2 DEF HeapInv, OneBindingEach
  <2> QED
    BY <1>1, <2>1, <2>2, <2>3, AnswerOwn
<1>6. CASE Cancel \/ UNCHANGED vars
  <2>1. UNCHANGED <<setup, list, password, stack, refused>>
    BY <1>6 DEF Cancel, vars, list
  <2>2. TopIsJust' /\ \A b : Overdue(b) => Overdue(b)'
    BY <2>1 DEF OwnInv, TopIsJust, Top, Overdue, UnusableFor, list, LooksEmpty
  <2> QED
    BY <1>1, <2>1, <2>2, QuietOwn
<1>7. CASE Accepted \/ Silent \/ PassRefused
  <2>1. At("login") /\ stack # <<>> /\ Return /\ UNCHANGED <<setup, list, password>>
    BY <1>7 DEF Accepted, Silent, PassRefused, Refuse, At
  <2>2. stack' = <<>> /\ \A b : ~Overdue(b)
    BY <2>1, AloneMoves DEF At, Overdue
  <2>3. TopIsJust'
    BY <2>2 DEF TopIsJust
  <2> QED
    BY <1>1, <2>1, <2>2, <2>3, QuietOwn
<1>8. CASE Walk
  <2>1. stack # <<>> /\ Top \in Frames /\ UNCHANGED <<setup, list, password, refused>>
        /\ Top.at = "walk" /\ Top.p \in Nodes
    BY <1>1, <1>8, TopType DEF Walk, At, Frames
  <2>2. PICK f : f = [Top EXCEPT !.p = next[Top.p]]
    OBVIOUS
  <2>3. f \in Frames /\ f.at = Top.at /\ f.flush = Top.flush /\ f.box = Top.box
    <3>1. next[Top.p] \in Nodes \union {NULL}
      BY <1>1, <2>1 DEF TypeOK
    <3> QED
      BY <2>1, <2>2, <3>1 DEF Frames
  <2>4. stack' # <<>> /\ Top' = f
    BY <1>8, <2>1, <2>2, <2>3, AloneMoves DEF Walk
  <2>5. TopIsJust'
    BY <2>1, <2>3, <2>4 DEF OwnInv, TopIsJust, UnusableFor, list, LooksEmpty
  <2>6. \A b : Overdue(b) => Overdue(b)'
    BY <2>1, <2>3, <2>4 DEF Overdue
  <2> QED
    BY <1>1, <2>1, <2>5, <2>6, QuietOwn
<1> SUFFICES ASSUME Hit \/ Disable \/ LoginRefused \/ PasswordRequired PROVE OwnInv'
  BY <1>3, <1>4, <1>5, <1>6, <1>7, <1>8 DEF Next, Lookup, Server
<1>9. stack # <<>> /\ UNCHANGED <<setup, list>>
  BY DEF Hit, Disable, LoginRefused, PasswordRequired, Refuse, At
<1>10. /\ Top \in Frames /\ Box \in Boxes /\ Box \in setup.open
       /\ Box = Top.box /\ Account = setup.accountOf[Box] /\ Account \in Accounts
  BY <1>9, Alone
<1>11. PICK mine \in Boxes : mine = Box
  BY <1>10
<1>12. ASSUME NEW b \in setup.open, b # mine PROVE ~Overdue(b)
  BY <1>10, <1>11, <1>12 DEF Overdue
<1>13. CASE Hit \/ Disable
  <2>1. PICK n \in Nodes : n = Top.p /\ binding[n] = Account
    BY <1>10, <1>13 DEF Hit, Disable, Found, Frames
  <2>2. \A m \in Nodes : binding[m] = Account => m = n
    BY <1>1, <1>10, <2>1, PasswordAssumption DEF HeapInv, OneBindingEach
  <2>3. PICK pw \in Passwords :
               /\ password' = [password EXCEPT ![mine] = pw]
               /\ LooksEmpty(stored[n]) \/ stored[n] = pw
               /\ \E flush \in BOOLEAN : Goto(Send(Box, flush, pw))
    <3>1. CASE Hit
      <4>1. FALSE \in BOOLEAN /\ stored[n] \in Passwords
        BY <1>1 DEF TypeOK
      <4> QED
        BY <1>11, <2>1, <3>1, <4>1 DEF Hit
    <3>2. CASE Disable
      <4>1. Top.flush \in BOOLEAN /\ password[mine] \in Passwords
        BY <1>1, <1>10 DEF TypeOK, Frames
      <4>2. password' = [password EXCEPT ![mine] = password[mine]]
        BY <1>1, <3>2 DEF Disable, TypeOK
      <4> QED
        BY <1>11, <2>1, <3>2, <4>1, <4>2 DEF Disable
    <3> QED
      BY <1>13, <3>1, <3>2
  <2>4. PICK flush \in BOOLEAN : Goto(Send(Box, flush, pw))
    BY <2>3
  <2>5. PICK f \in Frames : f = Send(Box, flush, pw) /\ f.at = "login" /\ f.box = mine
                            /\ f.sent = pw
    BY <1>1, <1>10, <1>11, FrameTypes
  <2>6. stack' # <<>> /\ Top' = f
    BY <1>9, <2>4, <2>5, AloneMoves
  <2>7. password'[mine] = pw /\ \A b \in Boxes : b # mine => password'[b] = password[b]
    BY <1>1, <2>3 DEF TypeOK
  <2>8. TopIsJust'
    BY <2>5, <2>6, <2>7 DEF TopIsJust
  <2>9. OwnPassword(mine)'
    BY <1>9, <1>10, <1>11, <2>2, <2>3, <2>7 DEF OwnPassword, list, LooksEmpty
  <2> QED
    BY <1>1, <1>2, <1>9, <1>12, <2>7, <2>8, <2>9, QuietOwn
<1>14. CASE LoginRefused \/ PasswordRequired
  <2>1. Top.at = "login" /\ password' = [password EXCEPT ![mine] = "empty"]
        /\ Goto(Ask(Box, TRUE))
    BY <1>11, <1>14 DEF LoginRefused, PasswordRequired, Refuse, At
  <2>2. Ask(Box, TRUE) \in Frames
    <3>1. "empty" \in Passwords
      BY DEF Passwords
    <3> QED
      BY <1>1, <1>10, <3>1, FrameTypes
  <2>3. PICK f \in Frames : f = Ask(Box, TRUE) /\ f.at = "walk" /\ f.box = mine
    BY <1>11, <2>2 DEF Ask, Frame
  <2>4. stack' # <<>> /\ Top' = f
    BY <1>9, <2>1, <2>3, AloneMoves
  <2>5. Account \in refused' \/ UnusableFor(Account)
    <3>1. SUFFICES ASSUME NEW m \in Nodes, binding[m] = Account, ~LooksEmpty(stored[m])
                   PROVE  Account \in refused'
      BY DEF UnusableFor
    <3>2. OwnPassword(Box) /\ ~Overdue(Box) /\ Top.sent = password[Box]
      BY <1>9, <1>10, <2>1 DEF OwnInv, TopIsJust, Overdue
    <3>3. stored[m] = Top.sent
      BY <1>10, <3>1, <3>2 DEF OwnPassword
    <3>4. LoginRefused
      BY <1>14, <3>1, <3>3 DEF PasswordRequired, LooksEmpty
    <3> QED
      BY <3>1, <3>3, <3>4 DEF LoginRefused, Refuse
  <2>6. TopIsJust'
    BY <1>9, <1>10, <1>11, <2>3, <2>4, <2>5 DEF TopIsJust, UnusableFor, list, LooksEmpty
  <2>7. \A b \in Boxes : b # mine => password'[b] = password[b]
    BY <1>1, <2>1 DEF TypeOK
  <2>8. OwnPassword(mine)'
    BY <1>9, <1>10, <1>11, <2>3, <2>4, <2>5
       DEF OwnPassword, Overdue, UnusableFor, list, LooksEmpty
  <2> QED
    BY <1>1, <1>2, <1>9, <1>12, <2>6, <2>7, <2>8, QuietOwn
<1> QED
  BY <1>13, <1>14

\* An IMAP login asks for the password of an account again only if the one
\* that is remembered was refused: with servers that take anything, however
\* IMAP and POP3 mailboxes share accounts and nest their logins; or with
\* servers that refuse, if no account is shared and logins do not nest.  What
\* POP3 itself asks is not bounded: it asks whenever it has no password.
THEOREM ImapQuestionAskedOnce ==
    ASSUME \A s \in Setups : TakesAnything(s) \/ EachItsOwn(s)
    PROVE  Spec => ImapAsksOnce
<1> DEFINE Inv == OnlyPop3Flushes \/ OwnInv
<1>1. Init => Inv
  <2>1. SUFFICES ASSUME Init PROVE OnlyPop3Flushes \/ OwnInv
    OBVIOUS
  <2>2. HeapInv /\ Len(stack) = 0 /\ stack = <<>>
    BY <2>1, HeapInit DEF Init
  <2>3. CASE TakesAnything(setup)
    BY <2>2, <2>3 DEF OnlyPop3Flushes
  <2>4. CASE EachItsOwn(setup)
    <3>1. \A n \in Nodes : LooksEmpty(stored[n])
      BY <2>1 DEF Init, LooksEmpty
    <3> QED
      BY <2>2, <2>4, <3>1 DEF OwnInv, OwnPassword, TopIsJust
  <2> QED
    BY <2>1, <2>3, <2>4 DEF Init
<1>2. Inv /\ [Next]_vars => Inv'
  BY OrdersStep, OwnStep
<1>3. Inv /\ [Next]_vars => [Flush => Account \in refused \/ Pop3(Box)]_vars
  BY NoFlush, FlushIsJust
<1> QED
  BY <1>1, <1>2, <1>3, PTL DEF Spec, ImapAsksOnce
=============================================================================
