--------------------------- MODULE TlsCommProofs ---------------------------
(***************************************************************************)
(* Theorems about the buffer of a connection, for any lines, however they   *)
(* are cut up, any sizes of the buffers and any nesting of calls.           *)
(***************************************************************************)
EXTENDS TlsComm, SequenceTheorems, WellFoundedInduction, TLAPS

Text == Seq(Bytes)

LEMMA SmallestOf ==
    ASSUME NEW S \in SUBSET Nat, S # {}
    PROVE  \E m \in S : \A n \in S : m <= n
<1>1. PICK m \in S : \A n \in S : ~ (<<n, m>> \in OpToRel(<, Nat))
  BY NatLessThanWellFounded, WFMin
<1>2. \A n \in S : ~ (n < m)
  BY <1>1 DEF OpToRel
<1> QED
  BY <1>2

LEMMA MinIs ==
    ASSUME NEW S \in SUBSET Nat, S # {}
    PROVE  Min(S) \in S /\ \A n \in S : Min(S) <= n
<1>1. \E m \in S : \A n \in S : m <= n
  BY SmallestOf
<1> QED
  BY <1>1 DEF Min

-----------------------------------------------------------------------------
(* What FlattenSeq makes of the lines.                                      *)

\* f holds what the first i lines come to.
Flattens(f, n, s) ==
    f = [i \in 1 .. n |-> IF i = 1 THEN s[i] ELSE f[i - 1] \o s[i]]

LEMMA FlattensExists ==
    ASSUME NEW s, NEW n \in Nat
    PROVE  \E f : Flattens(f, n, s)
<1> DEFINE Without == {m \in Nat : ~ \E f : Flattens(f, m, s)}
<1>1. SUFFICES ASSUME Without # {} PROVE FALSE
  OBVIOUS
<1>2. PICK m \in Without : \A k \in Without : m <= k
  BY <1>1, SmallestOf
<1>3. m # 0
  <2>1. Flattens([i \in 1 .. 0 |-> <<>>], 0, s)
    BY DEF Flattens
  <2> QED
    BY <1>2, <2>1
<1>4. m - 1 \in Nat /\ m - 1 \notin Without /\ m \in Nat
  BY <1>2, <1>3
<1>5. PICK f : Flattens(f, m - 1, s)
  BY <1>4
<1>6. \A i \in 1 .. m - 1 : f[i] = IF i = 1 THEN s[i] ELSE f[i - 1] \o s[i]
  BY <1>5 DEF Flattens
<1> DEFINE g == [i \in 1 .. m |-> IF i < m THEN f[i]
                                  ELSE IF i = 1 THEN s[i] ELSE f[i - 1] \o s[i]]
<1>7. \A i \in 1 .. m : g[i] = IF i = 1 THEN s[i] ELSE g[i - 1] \o s[i]
  <2>1. SUFFICES ASSUME NEW i \in 1 .. m
                 PROVE  g[i] = IF i = 1 THEN s[i] ELSE g[i - 1] \o s[i]
    OBVIOUS
  <2>2. i # 1 => i - 1 \in 1 .. m /\ i - 1 < m
    BY <1>4
  <2>3. i # 1 => g[i - 1] = f[i - 1]
    BY <2>2
  <2>4. g[i] = IF i = 1 THEN s[i] ELSE f[i - 1] \o s[i]
    BY <1>4, <1>6
  <2> QED
    BY <2>3, <2>4
<1>8. Flattens(g, m, s)
  <2>1. g = [i \in 1 .. m |-> g[i]]
    OBVIOUS
  <2> HIDE DEF g
  <2> QED
    BY <1>7, <2>1 DEF Flattens
<1> QED
  BY <1>2, <1>8

LEMMA FlattensUnique ==
    ASSUME NEW s, NEW n \in Nat, NEW f, NEW g, Flattens(f, n, s), Flattens(g, n, s)
    PROVE  f = g
<1>1. \A i \in 1 .. n : /\ f[i] = IF i = 1 THEN s[i] ELSE f[i - 1] \o s[i]
                        /\ g[i] = IF i = 1 THEN s[i] ELSE g[i - 1] \o s[i]
  BY DEF Flattens
<1>2. f = [i \in 1 .. n |-> f[i]] /\ g = [i \in 1 .. n |-> g[i]]
  BY DEF Flattens
<1> DEFINE D == {i \in 1 .. n : f[i] # g[i]}
<1>3. SUFFICES ASSUME D # {} PROVE FALSE
  BY <1>2
<1>4. PICK i \in D : \A j \in D : i <= j
  <2>1. D \in SUBSET Nat
    OBVIOUS
  <2> QED
    BY <1>3, <2>1, SmallestOf
<1>5. i # 1
  BY <1>1, <1>4
<1>6. i - 1 \in 1 .. n /\ i - 1 \notin D
  BY <1>4, <1>5
<1>7. f[i - 1] = g[i - 1]
  BY <1>6
<1> QED
  BY <1>1, <1>4, <1>5, <1>7

LEMMA FlattenIs ==
    ASSUME NEW s, Len(s) \in Nat \ {0}, NEW f, Flattens(f, Len(s), s)
    PROVE  FlattenSeq(s) = f[Len(s)]
<1> DEFINE Is(g) == g = [i \in 1 .. Len(s) |-> IF i = 1 THEN s[i] ELSE g[i - 1] \o s[i]]
<1>1. Is(f)
  BY DEF Flattens
<1>2. PICK m : m = CHOOSE g : Is(g)
  OBVIOUS
<1>3. FlattenSeq(s) = m[Len(s)]
  BY <1>2 DEF FlattenSeq
<1>4. Is(m)
  <2> HIDE DEF Is
  <2> QED
    BY <1>1, <1>2, Zenon
<1>5. m = f
  <2>1. Flattens(m, Len(s), s)
    BY <1>4 DEF Flattens
  <2> QED
    BY <2>1, FlattensUnique
<1> QED
  BY <1>3, <1>5

LEMMA FlattenNothing == FlattenSeq(<<>>) = <<>>
BY DEF FlattenSeq

LEMMA FlattenAppend ==
    ASSUME NEW s \in Seq(Text), NEW x \in Text
    PROVE  FlattenSeq(Append(s, x)) = FlattenSeq(s) \o x
<1> DEFINE t == Append(s, x)
           n == Len(s)
<1>1. /\ t \in Seq(Text) /\ Len(t) = n + 1 /\ n \in Nat
      /\ t[n + 1] = x /\ \A i \in 1 .. n : t[i] = s[i]
  BY AppendProperties
<1>2. PICK f : Flattens(f, n, s)
  BY <1>1, FlattensExists
<1>3. PICK g : Flattens(g, Len(t), t)
  <2>1. Len(t) \in Nat
    BY <1>1
  <2> HIDE DEF t
  <2> QED
    BY <2>1, FlattensExists
<1>4. FlattenSeq(t) = g[n + 1]
  <2>1. Len(t) \in Nat \ {0} /\ Len(t) = n + 1
    BY <1>1
  <2> QED
    BY <1>3, <2>1, FlattenIs
<1> HIDE DEF t
<1>5. \A i \in 1 .. n + 1 : g[i] = IF i = 1 THEN t[i] ELSE g[i - 1] \o t[i]
  BY <1>1, <1>3 DEF Flattens
<1>6. CASE n = 0
  <2>1. g[1] = x
    BY <1>1, <1>5, <1>6
  <2>2. s = <<>>
    BY <1>6, EmptySeq
  <2>3. FlattenSeq(s) \o x = x
    BY <2>2, FlattenNothing, ConcatEmptySeq DEF Text
  <2> QED
    BY <1>4, <1>6, <2>1, <2>3 DEF t
<1>7. CASE n # 0
  <2> DEFINE h == [i \in 1 .. n |-> g[i]]
  <2>1. Flattens(h, n, s)
    <3>1. \A i \in 1 .. n : h[i] = IF i = 1 THEN s[i] ELSE h[i - 1] \o s[i]
      <4>1. SUFFICES ASSUME NEW i \in 1 .. n
                     PROVE  h[i] = IF i = 1 THEN s[i] ELSE h[i - 1] \o s[i]
        OBVIOUS
      <4>2. t[i] = s[i] /\ i \in 1 .. n + 1
        BY <1>1
      <4>3. g[i] = IF i = 1 THEN s[i] ELSE g[i - 1] \o s[i]
        BY <1>5, <4>2
      <4>4. i # 1 => i - 1 \in 1 .. n
        BY <1>1
      <4> QED
        BY <4>3, <4>4
    <3>2. h = [i \in 1 .. n |-> h[i]]
      OBVIOUS
    <3> HIDE DEF h
    <3> QED
      BY <3>1, <3>2 DEF Flattens
  <2>2. FlattenSeq(s) = h[n]
    <3>1. n \in Nat \ {0}
      BY <1>1, <1>7
    <3> QED
      BY <2>1, <3>1, FlattenIs
  <2>3. h[n] = g[n]
    BY <1>1, <1>7
  <2>4. g[n + 1] = g[n] \o x
    <3>1. n + 1 \in 1 .. n + 1 /\ n + 1 # 1 /\ (n + 1) - 1 = n
      BY <1>1, <1>7
    <3>2. g[n + 1] = g[(n + 1) - 1] \o t[n + 1]
      BY <1>5, <3>1
    <3> QED
      BY <1>1, <3>1, <3>2
  <2> QED
    BY <1>4, <2>2, <2>3, <2>4 DEF t
<1> QED
  BY <1>6, <1>7

\* A set that holds m, and the next of each number below n it holds.
LEMMA Climb ==
    ASSUME NEW G, NEW m \in Nat, NEW n \in Nat, m \in G,
           \A i \in m .. n - 1 : i \in G => i + 1 \in G
    PROVE  m .. n \subseteq G
<1> DEFINE D == {i \in m .. n : i \notin G}
<1>1. SUFFICES ASSUME D # {} PROVE FALSE
  OBVIOUS
<1>2. PICK d \in D : \A i \in D : d <= i
  <2>1. D \in SUBSET Nat
    OBVIOUS
  <2> QED
    BY <1>1, <2>1, SmallestOf
<1>3. d # m
  BY <1>2
<1>4. d - 1 \in m .. n - 1 /\ d - 1 \notin D
  BY <1>2, <1>3
<1>5. d - 1 \in G
  BY <1>4
<1> QED
  BY <1>2, <1>4, <1>5

LEMMA FirstOf ==
    ASSUME NEW S, NEW s \in Seq(S), NEW n \in 0 .. Len(s)
    PROVE  SubSeq(s, 1, n) \in Seq(S) /\ Len(SubSeq(s, 1, n)) = n
<1>1. \A i \in 1 .. n : s[i] \in S
  OBVIOUS
<1> QED
  BY <1>1, SubSeqProperties

LEMMA RestOf ==
    ASSUME NEW S, NEW s \in Seq(S), NEW n \in 0 .. Len(s)
    PROVE  /\ SubSeq(s, n + 1, Len(s)) \in Seq(S)
           /\ Len(SubSeq(s, n + 1, Len(s))) = Len(s) - n
           /\ \A i \in 1 .. Len(s) - n : SubSeq(s, n + 1, Len(s))[i] = s[n + i]
<1>1. \A i \in n + 1 .. Len(s) : s[i] \in S
  OBVIOUS
<1>2. /\ SubSeq(s, n + 1, Len(s)) \in Seq(S)
      /\ Len(SubSeq(s, n + 1, Len(s))) = IF n + 1 <= Len(s) THEN Len(s) - (n + 1) + 1 ELSE 0
      /\ \A i \in 1 .. Len(s) - (n + 1) + 1 :
            SubSeq(s, n + 1, Len(s))[i] = s[n + 1 + i - 1]
  BY <1>1, SubSeqProperties
<1> QED
  BY <1>2

LEMMA CutInTwo ==
    ASSUME NEW S, NEW s \in Seq(S), NEW n \in 0 .. Len(s)
    PROVE  SubSeq(s, 1, n) \o SubSeq(s, n + 1, Len(s)) = s
<1>1. 1 \in 1 .. Len(s) + 1 /\ n \in 1 - 1 .. Len(s) /\ Len(s) \in n .. Len(s)
  OBVIOUS
<1>2. SubSeq(s, 1, n) \o SubSeq(s, n + 1, Len(s)) = SubSeq(s, 1, Len(s))
  BY <1>1, ConcatAdjacentSubSeq
<1> QED
  BY <1>2, SubSeqFull

LEMMA FirstAndNext ==
    ASSUME NEW S, NEW s \in Seq(S), NEW n \in 0 .. Len(s) - 1
    PROVE  SubSeq(s, 1, n + 1) = Append(SubSeq(s, 1, n), s[n + 1])
<1>1. /\ 1 \in 1 .. Len(s) /\ n + 1 \in 1 .. Len(s) /\ (n + 1) - 1 = n
      /\ s[n + 1] \in S /\ n \in 0 .. Len(s)
  OBVIOUS
<1>2. SubSeq(s, 1, n + 1) = SubSeq(s, 1, (n + 1) - 1) \o <<s[n + 1]>>
  BY <1>1, SubSeqRecursiveSecond
<1>3. SubSeq(s, 1, n) \in Seq(S)
  BY <1>1, FirstOf
<1> QED
  BY <1>1, <1>2, <1>3, AppendIsConcat

LEMMA FlattenOneMore ==
    ASSUME NEW s \in Seq(Text), NEW n \in 0 .. Len(s) - 1
    PROVE  FlattenSeq(SubSeq(s, 1, n + 1)) = FlattenSeq(SubSeq(s, 1, n)) \o s[n + 1]
<1>1. n \in 0 .. Len(s) /\ s[n + 1] \in Text
  OBVIOUS
<1>2. SubSeq(s, 1, n) \in Seq(Text)
  BY <1>1, FirstOf
<1> QED
  BY <1>1, <1>2, FirstAndNext, FlattenAppend

LEMMA FlattenIsText ==
    ASSUME NEW s \in Seq(Text), NEW n \in 0 .. Len(s)
    PROVE  FlattenSeq(SubSeq(s, 1, n)) \in Text
<1> DEFINE G == {i \in Nat : FlattenSeq(SubSeq(s, 1, i)) \in Text}
<1>1. 0 \in G
  <2>1. SubSeq(s, 1, 0) = <<>>
    BY SubSeqEmpty
  <2>2. FlattenSeq(SubSeq(s, 1, 0)) \in Text
    BY <2>1, FlattenNothing, EmptySeq DEF Text
  <2> QED
    BY <2>2
<1>2. \A i \in 0 .. Len(s) - 1 : i \in G => i + 1 \in G
  <2>1. SUFFICES ASSUME NEW i \in 0 .. Len(s) - 1, FlattenSeq(SubSeq(s, 1, i)) \in Text
                 PROVE  FlattenSeq(SubSeq(s, 1, i + 1)) \in Text
    OBVIOUS
  <2>2. s[i + 1] \in Text
    OBVIOUS
  <2>3. FlattenSeq(SubSeq(s, 1, i)) \o s[i + 1] \in Text
    BY <2>1, <2>2, ConcatProperties DEF Text
  <2> QED
    BY <2>1, <2>3, FlattenOneMore
<1> HIDE DEF G
<1>3. 0 .. Len(s) \subseteq G
  <2>1. 0 \in Nat /\ Len(s) \in Nat
    OBVIOUS
  <2> QED
    BY <1>1, <1>2, <2>1, Climb
<1> QED
  BY <1>3 DEF G

\* Lines that each fill at most a share M of a buffer of B bytes: how many
\* bytes the first n come to.
LEMMA FlattenFits ==
    ASSUME NEW s \in Seq(Text), NEW M \in Nat, NEW B \in Nat,
           \A i \in 1 .. Len(s) : M * Len(s[i]) <= B,
           NEW n \in 0 .. Len(s)
    PROVE  M * Len(FlattenSeq(SubSeq(s, 1, n))) <= n * B
<1> DEFINE G == {i \in Nat : M * Len(FlattenSeq(SubSeq(s, 1, i))) <= i * B}
<1>1. 0 \in G
  <2>1. SubSeq(s, 1, 0) = <<>>
    BY SubSeqEmpty
  <2>2. FlattenSeq(SubSeq(s, 1, 0)) = <<>>
    BY <2>1, FlattenNothing
  <2>3. Len(FlattenSeq(SubSeq(s, 1, 0))) = 0
    BY <2>2, EmptySeq
  <2> QED
    BY <2>3
<1>2. \A i \in 0 .. Len(s) - 1 : i \in G => i + 1 \in G
  <2>1. SUFFICES ASSUME NEW i \in 0 .. Len(s) - 1, i \in G
                 PROVE  M * Len(FlattenSeq(SubSeq(s, 1, i + 1))) <= (i + 1) * B
    OBVIOUS
  <2> DEFINE a == Len(FlattenSeq(SubSeq(s, 1, i)))
             b == Len(s[i + 1])
  <2>2. s[i + 1] \in Text /\ i \in 0 .. Len(s) /\ i + 1 \in 1 .. Len(s)
    OBVIOUS
  <2>3. FlattenSeq(SubSeq(s, 1, i)) \in Text
    BY <2>2, FlattenIsText
  <2>4. Len(FlattenSeq(SubSeq(s, 1, i + 1))) = a + b /\ a \in Nat /\ b \in Nat
    BY <2>2, <2>3, FlattenOneMore, ConcatProperties, LenProperties, ZenonT(40) DEF Text
  <2>5. M * a <= i * B /\ M * b <= B
    BY <2>1, <2>2
  <2> HIDE DEF a, b
  <2>6. M * (a + b) <= (i + 1) * B
    BY <2>4, <2>5
  <2> QED
    BY <2>4, <2>6
<1> HIDE DEF G
<1>3. 0 .. Len(s) \subseteq G
  <2>1. 0 \in Nat /\ Len(s) \in Nat
    OBVIOUS
  <2> QED
    BY <1>1, <1>2, <2>1, Climb
<1> QED
  BY <1>3 DEF G

\* What follows the first k lines begins with the next line.
LEMMA FlattenNext ==
    ASSUME NEW s \in Seq(Text), NEW k \in 0 .. Len(s) - 1
    PROVE  \E z \in Text : FlattenSeq(s) = FlattenSeq(SubSeq(s, 1, k)) \o (s[k + 1] \o z)
<1> DEFINE F == FlattenSeq(SubSeq(s, 1, k))
           G == {i \in Nat : \E z \in Text :
                                FlattenSeq(SubSeq(s, 1, i)) = F \o (s[k + 1] \o z)}
<1>1. F \in Text /\ s[k + 1] \in Text
  BY FlattenIsText
<1>2. k + 1 \in G
  <2>1. FlattenSeq(SubSeq(s, 1, k + 1)) = F \o s[k + 1]
    BY FlattenOneMore
  <2>2. s[k + 1] \o <<>> = s[k + 1] /\ <<>> \in Text
    BY <1>1, ConcatEmptySeq, EmptySeq DEF Text
  <2>3. FlattenSeq(SubSeq(s, 1, k + 1)) = F \o (s[k + 1] \o <<>>)
    BY <2>1, <2>2
  <2>4. k + 1 \in Nat
    OBVIOUS
  <2>5. \E z \in Text : FlattenSeq(SubSeq(s, 1, k + 1)) = F \o (s[k + 1] \o z)
    <3> HIDE DEF F
    <3> QED
      BY <2>2, <2>3
  <2> QED
    BY <2>4, <2>5
<1>3. \A i \in k + 1 .. Len(s) - 1 : i \in G => i + 1 \in G
  <2> SUFFICES ASSUME NEW i \in k + 1 .. Len(s) - 1, i \in G
               PROVE  i + 1 \in G
    OBVIOUS
  <2>1. \E z \in Text : FlattenSeq(SubSeq(s, 1, i)) = F \o (s[k + 1] \o z)
    OBVIOUS
  <2>2. i \in 0 .. Len(s) - 1 /\ s[i + 1] \in Text /\ i + 1 \in Nat
    OBVIOUS
  <2>3. FlattenSeq(SubSeq(s, 1, i + 1)) = FlattenSeq(SubSeq(s, 1, i)) \o s[i + 1]
    BY <2>2, FlattenOneMore
  <2> HIDE DEF F
  <2>4. \E z \in Text : FlattenSeq(SubSeq(s, 1, i)) \o s[i + 1] = F \o (s[k + 1] \o z)
    <3>1. PICK z \in Text : FlattenSeq(SubSeq(s, 1, i)) = F \o (s[k + 1] \o z)
      BY <2>1
    <3>2. PICK f \in Text : f = F
      BY <1>1
    <3>3. PICK y \in Text : y = s[k + 1]
      BY <1>1
    <3>4. PICK x \in Text : x = s[i + 1]
      BY <2>2
    <3>5. z \o x \in Text
      BY ConcatProperties DEF Text
    <3>6. (f \o (y \o z)) \o x = f \o (y \o (z \o x))
      <4>1. PICK w \in Text : w = y \o z
        BY ConcatProperties DEF Text
      <4>2. f \in Seq(Bytes) /\ w \in Seq(Bytes) /\ x \in Seq(Bytes)
        BY DEF Text
      <4>3. (f \o w) \o x = f \o (w \o x)
        BY ONLY <4>2, ConcatAssociative, SMTT(30)
      <4>5. y \in Seq(Bytes) /\ z \in Seq(Bytes) /\ x \in Seq(Bytes)
        BY DEF Text
      <4>4. (y \o z) \o x = y \o (z \o x)
        BY ONLY <4>5, ConcatAssociative, SMTT(30)
      <4> QED
        BY <4>1, <4>3, <4>4
    <3> QED
      BY <3>1, <3>2, <3>3, <3>4, <3>5, <3>6
  <2> QED
    BY <2>2, <2>3, <2>4
<1> HIDE DEF G
<1>4. k + 1 .. Len(s) \subseteq G
  <2>1. k + 1 \in Nat /\ Len(s) \in Nat
    OBVIOUS
  <2> QED
    BY <1>2, <1>3, <2>1, Climb
<1>5. Len(s) \in G
  BY <1>4
<1> QED
  BY <1>5, SubSeqFull DEF G

-----------------------------------------------------------------------------
(* The stack of calls.  All but the innermost wait and have counted         *)
(* nothing, so that what that one does to the buffer cannot make a count    *)
(* false.                                                                   *)
Places == {"loop", "wait", "fill", "lines"}
CallsOf(s) == [prefix : s.prefixes, n : Nat, at : Places]

Counted(c, b) ==
    /\ c.at = "wait" => c.n = 0
    /\ c.at \in {"loop", "fill"} => c.n \in {0, Len(b)}
    /\ c.at = "lines" => c.n = Len(b)

CountInv ==
    \A k \in 1 .. Len(calls) : /\ Counted(calls[k], buf)
                               /\ k < Len(calls) => calls[k].at = "wait"

LEMMA FrontIs ==
    ASSUME NEW S, NEW s \in Seq(S), s # <<>>
    PROVE  /\ Front(s) \in Seq(S) /\ Len(s) \in Nat \ {0}
           /\ Len(Front(s)) = Len(s) - 1
           /\ \A i \in 1 .. Len(s) - 1 : Front(s)[i] = s[i]
<1>1. Len(s) \in Nat \ {0}
  BY EmptySeq
<1> DEFINE m == Len(s) - 1
<1>2. m \in 0 .. Len(s) /\ m \in Int /\ 1 \in Int
  BY <1>1
<1>3. SubSeq(s, 1, m) \in Seq(S) /\ Len(SubSeq(s, 1, m)) = m
  BY <1>2, FirstOf
<1>4. \A i \in 1 .. m : SubSeq(s, 1, m)[i] = s[i]
  <2>1. \A i \in 1 .. m : s[i] \in S
    BY <1>1
  <2> HIDE DEF m
  <2>2. \A i \in 1 .. m - 1 + 1 : SubSeq(s, 1, m)[i] = s[1 + i - 1]
    BY <1>2, <2>1, SubSeqProperties
  <2> QED
    BY <1>2, <2>2
<1> QED
  BY <1>1, <1>3, <1>4 DEF Front

LEMMA TopIs ==
    ASSUME TypeOK, calls # <<>>
    PROVE  /\ Len(calls) \in Nat \ {0} /\ Top = calls[Len(calls)]
           /\ Top \in CallsOf(setup) /\ Top.n \in Nat /\ Top.prefix \in setup.prefixes
<1>1. calls \in Seq(CallsOf(setup))
  BY DEF TypeOK, CallsOf, Places
<1>2. Len(calls) \in Nat \ {0}
  BY <1>1, EmptySeq
<1>3. calls[Len(calls)] \in CallsOf(setup)
  BY <1>1, <1>2
<1> QED
  BY <1>2, <1>3 DEF Top, CallsOf

LEMMA GotoKeeps ==
    ASSUME TypeOK, CountInv, calls # <<>>, UNCHANGED setup,
           NEW n \in Nat, NEW w \in Places, Goto(w, n),
           Counted(Call(Top.prefix, n, w), buf')
    PROVE  calls' \in Seq(CallsOf(setup')) /\ CountInv'
<1> DEFINE f == Front(calls)
           c == Call(Top.prefix, n, w)
<1>1. /\ f \in Seq(CallsOf(setup)) /\ Len(calls) \in Nat \ {0}
      /\ Len(f) = Len(calls) - 1
      /\ \A i \in 1 .. Len(calls) - 1 : f[i] = calls[i]
  <2>1. calls \in Seq(CallsOf(setup))
    BY DEF TypeOK, CallsOf, Places
  <2> QED
    BY <2>1, FrontIs
<1>2. c \in CallsOf(setup)
  BY TopIs DEF Call, CallsOf
<1>3. calls' = Append(f, c)
  BY DEF Goto
<1> HIDE DEF f, c
<1>4. /\ calls' \in Seq(CallsOf(setup)) /\ Len(calls') = Len(calls)
      /\ calls'[Len(calls)] = c /\ \A i \in 1 .. Len(calls) - 1 : calls'[i] = calls[i]
  BY <1>1, <1>2, <1>3, AppendProperties
<1>5. Counted(c, buf')
  BY DEF c
<1>6. ASSUME NEW k \in 1 .. Len(calls')
      PROVE  Counted(calls'[k], buf') /\ (k < Len(calls') => calls'[k].at = "wait")
  <2>1. CASE k = Len(calls)
    BY <1>4, <1>5, <2>1
  <2>2. CASE k # Len(calls)
    <3>1. k \in 1 .. Len(calls) - 1 /\ k \in 1 .. Len(calls) /\ k < Len(calls)
      BY <1>1, <1>4, <2>2
    <3>2. calls'[k] = calls[k] /\ calls[k].at = "wait" /\ calls[k].n = 0
      BY <1>4, <3>1 DEF CountInv, Counted
    <3> QED
      BY <3>2 DEF Counted
  <2> QED
    BY <2>1, <2>2
<1> QED
  BY <1>4, <1>6 DEF CountInv

LEMMA ReturnKeeps ==
    ASSUME TypeOK, CountInv, calls # <<>>, UNCHANGED setup, Return
    PROVE  calls' \in Seq(CallsOf(setup')) /\ CountInv'
<1>1. /\ calls' \in Seq(CallsOf(setup)) /\ Len(calls) \in Nat \ {0}
      /\ Len(calls') = Len(calls) - 1
      /\ \A i \in 1 .. Len(calls) - 1 : calls'[i] = calls[i]
  <2>1. calls \in Seq(CallsOf(setup))
    BY DEF TypeOK, CallsOf, Places
  <2> QED
    BY <2>1, FrontIs DEF Return
<1>2. ASSUME NEW k \in 1 .. Len(calls')
      PROVE  Counted(calls'[k], buf') /\ (k < Len(calls') => calls'[k].at = "wait")
  <2>1. k \in 1 .. Len(calls) - 1 /\ k \in 1 .. Len(calls) /\ k < Len(calls)
    BY <1>1
  <2>2. calls'[k] = calls[k] /\ calls[k].at = "wait" /\ calls[k].n = 0
    BY <1>1, <2>1 DEF CountInv, Counted
  <2> QED
    BY <2>2 DEF Counted
<1> QED
  BY <1>1, <1>2 DEF CountInv

LEMMA ExpectKeeps ==
    ASSUME TypeOK, CountInv, NEW p \in setup.prefixes, Expect(p)
    PROVE  calls' \in Seq(CallsOf(setup')) /\ CountInv'
<1> DEFINE c == Call(p, 0, "loop")
<1>1. calls \in Seq(CallsOf(setup)) /\ UNCHANGED <<setup, buf>>
  BY DEF TypeOK, CallsOf, Places, Expect
<1>2. c \in CallsOf(setup)
  BY DEF Call, CallsOf, Places
<1>3. calls' = Append(calls, c)
  BY DEF Expect
<1>4. c.at = "loop" /\ c.n = 0
  BY DEF Call
<1> HIDE DEF c
<1>5. /\ calls' \in Seq(CallsOf(setup)) /\ Len(calls') = Len(calls) + 1
      /\ calls'[Len(calls) + 1] = c /\ \A i \in 1 .. Len(calls) : calls'[i] = calls[i]
      /\ Len(calls) \in Nat
  BY <1>1, <1>2, <1>3, AppendProperties
<1>6. calls # <<>> => calls[Len(calls)].at = "wait"
  BY DEF Expect, At, Top
<1>7. ASSUME NEW k \in 1 .. Len(calls')
      PROVE  Counted(calls'[k], buf') /\ (k < Len(calls') => calls'[k].at = "wait")
  <2>1. CASE k = Len(calls) + 1
    BY <1>4, <1>5, <2>1 DEF Counted
  <2>2. CASE k # Len(calls) + 1
    <3>1. k \in 1 .. Len(calls) /\ calls # <<>>
      BY <1>5, <2>2
    <3>2. calls'[k] = calls[k] /\ calls[k].at = "wait" /\ calls[k].n = 0
      BY <1>5, <1>6, <3>1 DEF CountInv, Counted
    <3> QED
      BY <3>2 DEF Counted
  <2> QED
    BY <2>1, <2>2
<1> QED
  BY <1>1, <1>5, <1>7 DEF CountInv

-----------------------------------------------------------------------------
(* How many bytes getline_from_buffer takes.                                *)
LEMMA LineLengthIs ==
    ASSUME setup \in Setups, NEW b \in Text
    PROVE  LineLength(b) \in 0 .. Len(b) /\ (LineLength(b) = 0 => b = <<>>)
<1> DEFINE S == {j - 1 : j \in {j \in 1 .. Len(b) : b[j] = NL}} \union {Len(b), setup.buflen - 1}
           i == Min(S)
<1>1. setup.buflen \in Nat \ {0, 1} /\ Len(b) \in Nat
  BY TlsCommAssumption DEF Text
<1>2. S \in SUBSET Nat /\ Len(b) \in S
  BY <1>1
<1>3. i \in S /\ \A n \in S : i <= n
  <2> HIDE DEF S
  <2> QED
    BY <1>2, MinIs
<1>4. i \in Nat /\ i <= Len(b)
  BY <1>2, <1>3
<1>5. i = 0 => Len(b) = 0 \/ (0 < Len(b) /\ b[1] = NL)
  BY <1>1, <1>3
<1>6. LineLength(b) = IF i < Len(b) /\ b[i + 1] = NL THEN i + 1 ELSE i
  BY DEF LineLength
<1> HIDE DEF i
<1>7. LineLength(b) \in 0 .. Len(b)
  BY <1>1, <1>4, <1>6
<1>8. LineLength(b) = 0 => Len(b) = 0
  BY <1>1, <1>4, <1>5, <1>6
<1> QED
  BY <1>7, <1>8, EmptySeq DEF Text

-----------------------------------------------------------------------------
(* Types, and the counts.                                                   *)
LEMMA AtIs ==
    ASSUME TypeOK, CountInv, NEW w, At(w)
    PROVE  calls # <<>> /\ Top.at = w /\ Counted(Top, buf) /\ Top.n \in Nat
<1>1. calls # <<>> /\ Top.at = w
  BY DEF At
<1>2. Len(calls) \in 1 .. Len(calls)
  BY <1>1, TopIs
<1> QED
  BY <1>1, <1>2, TopIs DEF CountInv

LEMMA InitTyped == Init => TypeOK /\ CountInv
<1>1. SUFFICES ASSUME Init PROVE TypeOK /\ CountInv
  OBVIOUS
<1>2. \A S : <<>> \in Seq(S) /\ Len(<<>>) = 0
  BY EmptySeq
<1>3. TypeOK
  <2>1. /\ wire \in Seq(Bytes) /\ socket \in Seq(Bytes) /\ buf \in Seq(Bytes)
        /\ sent \in Seq(setup.lines) /\ taken \in Seq(Seq(Bytes))
    BY <1>1, <1>2 DEF Init
  <2>2. calls \in Seq([prefix : setup.prefixes, n : Nat,
                      at : {"loop", "wait", "fill", "lines"}])
    BY <1>1, <1>2 DEF Init
  <2>3. Len(buf) < BUF_SIZE /\ setup \in Setups /\ hungUp \in BOOLEAN
    <3>1. BUF_SIZE \in Nat /\ 0 < BUF_SIZE
      BY TlsCommAssumption
    <3>2. Len(buf) = 0
      BY <1>1, EmptySeq DEF Init
    <3>3. setup \in Setups /\ hungUp \in BOOLEAN
      BY <1>1 DEF Init
    <3> QED
      BY <3>1, <3>2, <3>3
  <2> QED
    BY <2>1, <2>2, <2>3 DEF TypeOK
<1>4. CountInv
  BY <1>1, <1>2 DEF Init, CountInv
<1> QED
  BY <1>3, <1>4

\* What the steps of a call do to the buffer.
LEMMA ReadTyped ==
    ASSUME TypeOK, CountInv, Read
    PROVE  \E k \in 0 .. Len(socket) :
              /\ Len(buf) + k < BUF_SIZE
              /\ buf' = buf \o SubSeq(socket, 1, k)
              /\ socket' = SubSeq(socket, k + 1, Len(socket))
              /\ buf' \in Text /\ socket' \in Text /\ Len(buf') = Len(buf) + k
              /\ k = Len(socket) \/ Len(buf) + k = BUF_SIZE - 1
              /\ IF Top.n + k = 0 THEN Return ELSE Goto("lines", Top.n + k)
<1>1. calls # <<>> /\ Top.n = Len(buf)
  BY AtIs DEF Read
<1>2. /\ socket \in Seq(Bytes) /\ buf \in Seq(Bytes) /\ Len(socket) \in Nat
      /\ Len(buf) \in Nat /\ Len(buf) < BUF_SIZE /\ BUF_SIZE \in Nat
  BY TlsCommAssumption DEF TypeOK
<1>3. PICK room \in Nat : room = Room
  <2>1. Room = BUF_SIZE - 1 - Len(buf)
    BY <1>1 DEF Room
  <2>2. BUF_SIZE - 1 - Len(buf) \in Nat
    BY <1>2
  <2> QED
    BY <2>1, <2>2
<1>4. PICK k : k = Min({Len(socket), room})
  OBVIOUS
<1>5. k \in {Len(socket), room} /\ k <= Len(socket) /\ k <= room
  <2>1. {Len(socket), room} \in SUBSET Nat /\ {Len(socket), room} # {}
    BY <1>2
  <2>2. /\ Min({Len(socket), room}) \in {Len(socket), room}
        /\ \A n \in {Len(socket), room} : Min({Len(socket), room}) <= n
    BY <2>1, MinIs
  <2> QED
    BY <1>4, <2>2
<1>6. /\ buf' = buf \o SubSeq(socket, 1, k)
      /\ socket' = SubSeq(socket, k + 1, Len(socket))
      /\ IF Top.n + k = 0 THEN Return ELSE Goto("lines", Top.n + k)
  BY <1>3, <1>4 DEF Read
<1>7. k \in 0 .. Len(socket) /\ room = BUF_SIZE - 1 - Len(buf)
  BY <1>1, <1>2, <1>3, <1>5 DEF Room
<1>8. Len(buf) + k < BUF_SIZE /\ (k = Len(socket) \/ Len(buf) + k = BUF_SIZE - 1)
  BY <1>2, <1>5, <1>7
<1>9. SubSeq(socket, 1, k) \in Seq(Bytes) /\ Len(SubSeq(socket, 1, k)) = k
  BY <1>2, <1>7, FirstOf
<1>10. buf' \in Text /\ Len(buf') = Len(buf) + k
  BY <1>2, <1>6, <1>9, ConcatProperties DEF Text
<1>11. socket' \in Text
  BY <1>2, <1>6, <1>7, RestOf DEF Text
<1> QED
  BY <1>6, <1>7, <1>8, <1>10, <1>11

LEMMA TakeLineTyped ==
    ASSUME TypeOK, CountInv, TakeLine
    PROVE  \/ buf = <<>> /\ UNCHANGED <<buf, taken>> /\ Goto("lines", 0)
           \/ \E i \in 1 .. Len(buf) :
                 /\ i = LineLength(buf)
                 /\ buf' = SubSeq(buf, i + 1, Len(buf))
                 /\ taken' = Append(taken, SubSeq(buf, 1, i))
                 /\ SubSeq(buf, 1, i) \in Text
                 /\ buf' \in Text /\ Len(buf') = Len(buf) - i /\ Top.n = Len(buf)
                 /\ Return \/ Goto("lines", Top.n - i)
<1>1. calls # <<>> /\ Top.n = Len(buf)
  BY AtIs DEF TakeLine, Counted
<1>2. buf \in Text /\ setup \in Setups /\ Len(buf) \in Nat
  BY DEF TypeOK, Text
<1>3. PICK i : i = LineLength(buf)
  OBVIOUS
<1>4. i \in 0 .. Len(buf) /\ (i = 0 => buf = <<>>)
  BY <1>2, <1>3, LineLengthIs
<1>5. IF i = 0 THEN Goto("lines", 0) /\ UNCHANGED <<buf, taken>>
      ELSE /\ buf' = SubSeq(buf, i + 1, Len(buf))
           /\ taken' = Append(taken, SubSeq(buf, 1, i))
           /\ Return \/ Goto("lines", Top.n - i)
  BY <1>3 DEF TakeLine
<1>6. CASE i = 0
  BY <1>4, <1>5, <1>6
<1>7. CASE i # 0
  <2>1. i \in 1 .. Len(buf)
    BY <1>2, <1>4, <1>7
  <2>2. SubSeq(buf, 1, i) \in Text
    BY <1>2, <1>4, FirstOf DEF Text
  <2>3. SubSeq(buf, i + 1, Len(buf)) \in Text
        /\ Len(SubSeq(buf, i + 1, Len(buf))) = Len(buf) - i
    BY <1>2, <1>4, RestOf DEF Text
  <2> QED
    BY <1>1, <1>3, <1>5, <1>7, <2>1, <2>2, <2>3
<1> QED
  BY <1>6, <1>7

LEMMA StepTyped == TypeOK /\ CountInv /\ [Next]_vars => TypeOK' /\ CountInv'
<1> SUFFICES ASSUME TypeOK, CountInv, [Next]_vars PROVE TypeOK' /\ CountInv'
  OBVIOUS
<1>1. /\ setup \in Setups /\ wire \in Text /\ socket \in Text /\ buf \in Text
      /\ hungUp \in BOOLEAN /\ calls \in Seq(CallsOf(setup))
      /\ sent \in Seq(setup.lines) /\ taken \in Seq(Text) /\ Len(buf) < BUF_SIZE
      /\ Len(wire) \in Nat /\ Len(buf) \in Nat /\ Len(socket) \in Nat
  BY DEF TypeOK, CallsOf, Places, Text
<1>2. ASSUME calls' \in Seq(CallsOf(setup')), UNCHANGED <<setup, wire, hungUp, sent>>,
             socket' \in Text, buf' \in Text, taken' \in Seq(Text), Len(buf') < BUF_SIZE
      PROVE  TypeOK'
  BY <1>1, <1>2 DEF TypeOK, CallsOf, Places, Text
<1>3. CASE UNCHANGED vars
  <2>1. UNCHANGED <<setup, wire, socket, hungUp, buf, calls, sent, taken>>
    BY <1>3 DEF vars, server
  <2>2. TypeOK'
    BY <2>1 DEF TypeOK
  <2>3. CountInv'
    BY <2>1 DEF CountInv, Counted
  <2> QED
    BY <2>2, <2>3
<1>4. CASE \E l \in setup.lines : Send(l)
  <2>1. PICK l \in setup.lines : Send(l)
    BY <1>4
  <2>2. /\ UNCHANGED <<setup, socket, hungUp, buf, calls, taken>>
        /\ sent' = Append(sent, l) /\ wire' = wire \o l
    BY <2>1 DEF Send
  <2>3. l \in Text
    BY <1>1, TlsCommAssumption DEF Text
  <2>4. wire' \in Text
    BY <1>1, <2>2, <2>3, ConcatProperties DEF Text
  <2>5. sent' \in Seq(setup.lines)
    BY <1>1, <2>2, AppendProperties
  <2>6. TypeOK'
    BY <1>1, <2>2, <2>4, <2>5 DEF TypeOK, CallsOf, Places, Text
  <2>7. CountInv'
    BY <2>2 DEF CountInv, Counted
  <2> QED
    BY <2>6, <2>7
<1>5. CASE HangUp
  <2>1. UNCHANGED <<setup, wire, socket, buf, calls, sent, taken>> /\ hungUp' \in BOOLEAN
    BY <1>5 DEF HangUp
  <2>2. TypeOK'
    BY <2>1 DEF TypeOK
  <2>3. CountInv'
    BY <2>1 DEF CountInv, Counted
  <2> QED
    BY <2>2, <2>3
<1>6. CASE Arrive
  <2>1. PICK k \in 1 .. Len(wire) : /\ socket' = socket \o SubSeq(wire, 1, k)
                                    /\ wire' = SubSeq(wire, k + 1, Len(wire))
    BY <1>6 DEF Arrive
  <2>2. UNCHANGED <<setup, hungUp, buf, calls, sent, taken>>
    BY <1>6 DEF Arrive
  <2>3. k \in 0 .. Len(wire)
    BY <1>1
  <2>4. SubSeq(wire, 1, k) \in Seq(Bytes) /\ wire' \in Seq(Bytes)
    BY <1>1, <2>1, <2>3, FirstOf, RestOf DEF Text
  <2>5. socket' \in Seq(Bytes)
    BY <1>1, <2>1, <2>4, ConcatProperties DEF Text
  <2>6. TypeOK'
    BY <1>1, <2>2, <2>4, <2>5 DEF TypeOK
  <2>7. CountInv'
    BY <2>2 DEF CountInv, Counted
  <2> QED
    BY <2>6, <2>7
<1>7. CASE \E p \in setup.prefixes : Expect(p)
  <2>1. PICK p \in setup.prefixes : Expect(p)
    BY <1>7
  <2>2. calls' \in Seq(CallsOf(setup')) /\ CountInv'
    BY <2>1, ExpectKeeps
  <2>3. UNCHANGED <<setup, wire, hungUp, sent, socket, buf, taken>>
    BY <2>1 DEF Expect, server
  <2> QED
    BY <1>1, <1>2, <2>2, <2>3
<1>8. CASE LoopWithBytes
  <2>1. calls # <<>> /\ Top.n \in Nat /\ Counted(Top, buf) /\ Top.at = "loop"
    BY <1>8, AtIs DEF LoopWithBytes
  <2>2. UNCHANGED <<setup, wire, hungUp, sent, socket, buf, taken>> /\ Goto("fill", Top.n)
    BY <1>8 DEF LoopWithBytes, server
  <2>3. Counted(Call(Top.prefix, Top.n, "fill"), buf')
    BY <2>1, <2>2 DEF Counted, Call
  <2>4. calls' \in Seq(CallsOf(setup')) /\ CountInv'
    BY <2>1, <2>2, <2>3, GotoKeeps DEF Places
  <2> QED
    BY <1>1, <1>2, <2>2, <2>4
<1>9. CASE LoopAndWait
  <2>1. calls # <<>> /\ Top.n \in Nat /\ Counted(Top, buf) /\ Top.at = "loop"
    BY <1>9, AtIs DEF LoopAndWait
  <2>2. UNCHANGED <<setup, wire, hungUp, sent, socket, buf, taken>> /\ Goto("wait", Top.n)
    BY <1>9 DEF LoopAndWait, server
  <2>3. Len(buf) = 0
    BY <1>9 DEF LoopAndWait
  <2>4. Counted(Call(Top.prefix, Top.n, "wait"), buf')
    BY <2>1, <2>2, <2>3 DEF Counted, Call
  <2>5. calls' \in Seq(CallsOf(setup')) /\ CountInv'
    BY <2>1, <2>2, <2>4, GotoKeeps DEF Places
  <2> QED
    BY <1>1, <1>2, <2>2, <2>5
<1>10. CASE WaitEnds
  <2>1. calls # <<>> /\ Top.n \in Nat /\ Counted(Top, buf) /\ Top.at = "wait"
    BY <1>10, AtIs DEF WaitEnds
  <2>2. UNCHANGED <<setup, wire, hungUp, sent, socket, buf, taken>> /\ Goto("fill", Top.n)
    BY <1>10 DEF WaitEnds, server
  <2>3. Counted(Call(Top.prefix, Top.n, "fill"), buf')
    BY <2>1, <2>2 DEF Counted, Call
  <2>4. calls' \in Seq(CallsOf(setup')) /\ CountInv'
    BY <2>1, <2>2, <2>3, GotoKeeps DEF Places
  <2> QED
    BY <1>1, <1>2, <2>2, <2>4
<1>11. CASE WaitTimesOut \/ ReadFails
  <2>1. UNCHANGED <<setup, wire, hungUp, sent, socket, buf, taken>> /\ Return
    BY <1>11 DEF WaitTimesOut, ReadFails, server
  <2>2. calls # <<>>
    BY <1>11 DEF WaitTimesOut, ReadFails, At
  <2>3. calls' \in Seq(CallsOf(setup')) /\ CountInv'
    BY <2>1, <2>2, ReturnKeeps
  <2> QED
    BY <1>1, <1>2, <2>1, <2>3
<1>12. CASE FindBytes
  <2>1. calls # <<>>
    BY <1>12, AtIs DEF FindBytes
  <2>2. UNCHANGED <<setup, wire, hungUp, sent, socket, buf, taken>> /\ Goto("lines", Len(buf))
    BY <1>12 DEF FindBytes, server
  <2>3. Counted(Call(Top.prefix, Len(buf), "lines"), buf')
    BY <2>2 DEF Counted, Call
  <2>4. calls' \in Seq(CallsOf(setup')) /\ CountInv'
    BY <1>1, <2>1, <2>2, <2>3, GotoKeeps DEF Places
  <2> QED
    BY <1>1, <1>2, <2>2, <2>4
<1>13. CASE Read
  <2>1. PICK k \in 0 .. Len(socket) :
              /\ Len(buf) + k < BUF_SIZE
              /\ buf' \in Text /\ socket' \in Text /\ Len(buf') = Len(buf) + k
              /\ IF Top.n + k = 0 THEN Return ELSE Goto("lines", Top.n + k)
    BY <1>13, ReadTyped
  <2>2. UNCHANGED <<setup, wire, hungUp, sent, taken>> /\ calls # <<>> /\ Top.n = Len(buf)
    BY <1>13 DEF Read, server, At
  <2>3. calls' \in Seq(CallsOf(setup')) /\ CountInv'
    <3>1. CASE Return
      BY <2>2, <3>1, ReturnKeeps
    <3>2. CASE Goto("lines", Top.n + k)
      <4>1. Counted(Call(Top.prefix, Top.n + k, "lines"), buf')
        BY <2>1, <2>2 DEF Counted, Call
      <4>2. Top.n + k \in Nat
        BY <1>1, <2>2
      <4> QED
        BY <2>2, <3>2, <4>1, <4>2, GotoKeeps DEF Places
    <3> QED
      BY <2>1, <3>1, <3>2
  <2> QED
    BY <1>1, <1>2, <2>1, <2>2, <2>3
<1>14. CASE TakeLine
  <2>1. UNCHANGED <<setup, wire, hungUp, sent, socket>> /\ calls # <<>>
    BY <1>14 DEF TakeLine, server, At
  <2>2. CASE buf = <<>> /\ UNCHANGED <<buf, taken>> /\ Goto("lines", 0)
    <3>1. Counted(Call(Top.prefix, 0, "lines"), buf')
      BY <2>2 DEF Counted, Call
    <3>2. calls' \in Seq(CallsOf(setup')) /\ CountInv'
      BY <2>1, <2>2, <3>1, GotoKeeps DEF Places
    <3> QED
      BY <1>1, <1>2, <2>1, <2>2, <3>2
  <2>3. CASE \E i \in 1 .. Len(buf) :
                 /\ taken' = Append(taken, SubSeq(buf, 1, i))
                 /\ SubSeq(buf, 1, i) \in Text
                 /\ buf' \in Text /\ Len(buf') = Len(buf) - i /\ Top.n = Len(buf)
                 /\ Return \/ Goto("lines", Top.n - i)
    <3>1. PICK i \in 1 .. Len(buf) :
                 /\ taken' = Append(taken, SubSeq(buf, 1, i))
                 /\ SubSeq(buf, 1, i) \in Text
                 /\ buf' \in Text /\ Len(buf') = Len(buf) - i /\ Top.n = Len(buf)
                 /\ Return \/ Goto("lines", Top.n - i)
      BY <2>3
    <3>2. taken' \in Seq(Text) /\ Len(buf') < BUF_SIZE
      BY <1>1, <3>1, TlsCommAssumption, AppendProperties
    <3>3. calls' \in Seq(CallsOf(setup')) /\ CountInv'
      <4>1. CASE Return
        BY <2>1, <4>1, ReturnKeeps
      <4>2. CASE Goto("lines", Top.n - i)
        <5>1. Top.n - i \in Nat
          BY <1>1, <3>1
        <5>2. Counted(Call(Top.prefix, Top.n - i, "lines"), buf')
          BY <3>1 DEF Counted, Call
        <5> QED
          BY <2>1, <4>2, <5>1, <5>2, GotoKeeps DEF Places
      <4> QED
        BY <3>1, <4>1, <4>2
    <3> QED
      BY <1>1, <1>2, <2>1, <3>1, <3>2, <3>3
  <2> QED
    BY <1>14, <2>2, <2>3, TakeLineTyped
<1>15. CASE TooFewBytes
  <2>1. calls # <<>> /\ Top.n \in Nat /\ Counted(Top, buf) /\ Top.at = "lines"
    BY <1>15, AtIs DEF TooFewBytes
  <2>2. UNCHANGED <<setup, wire, hungUp, sent, socket, buf, taken>> /\ Goto("loop", Top.n)
    BY <1>15 DEF TooFewBytes, server
  <2>3. Counted(Call(Top.prefix, Top.n, "loop"), buf')
    BY <2>1, <2>2 DEF Counted, Call
  <2>4. calls' \in Seq(CallsOf(setup')) /\ CountInv'
    BY <2>1, <2>2, <2>3, GotoKeeps DEF Places
  <2> QED
    BY <1>1, <1>2, <2>2, <2>4
<1> QED
  BY <1>3, <1>4, <1>5, <1>6, <1>7, <1>8, <1>9, <1>10, <1>11, <1>12, <1>13, <1>14, <1>15
     DEF Next, Step

LEMMA Typed == Spec => [](TypeOK /\ CountInv)
BY InitTyped, StepTyped, PTL DEF Spec

\* Types: among them, that the buffer never outgrows unprocessed.
THEOREM TypeCorrect == Spec => []TypeOK
BY Typed, PTL

\* buffered_bytes is what the buffer holds whenever lines are taken from it:
\* a call that waits has counted nothing, so it finds what the calls inside
\* its wait have left.
THEOREM CountSafety == Spec => []CountIsTrue
<1>1. TypeOK /\ CountInv => CountIsTrue
  BY DEF CountInv, CountIsTrue, Counted
<1> QED
  BY <1>1, Typed, PTL

-----------------------------------------------------------------------------
(* No byte is lost, repeated or moved.                                      *)
LEMMA TextJoins ==
    ASSUME NEW a \in Text, NEW b \in Text, NEW c \in Text
    PROVE  (a \o b) \o c = a \o (b \o c) /\ a \o b \in Text
<1>1. (a \o b) \o c = a \o (b \o c)
  BY ConcatAssociative DEF Text
<1>2. a \o b \in Text
  BY ConcatProperties DEF Text
<1> QED
  BY <1>1, <1>2

\* \o, as an operator of its own: the provers take \o apart where two sides of
\* an equation should only be matched.
Join(a, b) == a \o b

\* What moves from the front of one text to the end of the other stays where
\* it is in both.
LEMMA Shift ==
    ASSUME NEW p \in Text, NEW q \in Text, NEW r \in Text, NEW s \in Text
    PROVE  Join(Join(p, Join(q, r)), s) = Join(Join(p, q), Join(r, s))
<1>1. \A a, b, c \in Text : Join(Join(a, b), c) = Join(a, Join(b, c)) /\ Join(a, b) \in Text
  BY TextJoins DEF Join
<1>2. Join(p, q) \in Text
  BY <1>1
<1>3. Join(p, Join(q, r)) = Join(Join(p, q), r)
  BY <1>1
<1> QED
  BY <1>1, <1>2, <1>3

LEMMA FlattenText ==
    ASSUME NEW s \in Seq(Text)
    PROVE  FlattenSeq(s) \in Text
<1>1. Len(s) \in 0 .. Len(s)
  OBVIOUS
<1> QED
  BY <1>1, FlattenIsText, SubSeqFull

LEMMA InitInOrder == Init => BytesInOrder
<1>1. SUFFICES ASSUME Init PROVE BytesInOrder
  OBVIOUS
<1>2. <<>> \o <<>> = <<>>
  BY EmptySeq, ConcatEmptySeq
<1> QED
  BY <1>1, <1>2, FlattenNothing DEF Init, BytesInOrder

LEMMA StepInOrder == TypeOK /\ CountInv /\ BytesInOrder /\ [Next]_vars => BytesInOrder'
<1> SUFFICES ASSUME TypeOK, CountInv, BytesInOrder, [Next]_vars PROVE BytesInOrder'
  OBVIOUS
<1>1. /\ setup \in Setups /\ wire \in Text /\ socket \in Text /\ buf \in Text
      /\ sent \in Seq(Text) /\ taken \in Seq(Text)
  <2>1. \A l \in setup.lines : l \in Text
    BY TlsCommAssumption DEF TypeOK, Text
  <2> QED
    BY <2>1 DEF TypeOK, Text
<1>2. PICK t \in Text : t = FlattenSeq(taken)
  BY <1>1, FlattenText
<1>3. ((t \o buf) \o socket) \o wire = FlattenSeq(sent)
  BY <1>2 DEF BytesInOrder
<1>4. CASE UNCHANGED <<wire, socket, buf, sent, taken>>
  BY <1>4 DEF BytesInOrder
<1>5. CASE \E l \in setup.lines : Send(l)
  <2>1. PICK l \in setup.lines : Send(l)
    BY <1>5
  <2>2. l \in Text
    BY <1>1, TlsCommAssumption DEF Text
  <2>3. UNCHANGED <<socket, buf, taken>> /\ sent' = Append(sent, l) /\ wire' = wire \o l
    BY <2>1 DEF Send
  <2>4. FlattenSeq(sent') = FlattenSeq(sent) \o l
    BY <1>1, <2>2, <2>3, FlattenAppend
  <2>5. PICK p \in Text : p = (t \o buf) \o socket
    BY <1>1, ConcatProperties DEF Text
  <2>6. p \o (wire \o l) = (p \o wire) \o l
    <3>1. p \in Text /\ wire \in Text /\ l \in Text
      BY <1>1, <2>2
    <3> QED
      BY ONLY <3>1, TextJoins
  <2> QED
    BY <1>2, <1>3, <2>3, <2>4, <2>5, <2>6 DEF BytesInOrder
<1>6. CASE Arrive
  <2>1. PICK k \in 1 .. Len(wire) : /\ socket' = socket \o SubSeq(wire, 1, k)
                                    /\ wire' = SubSeq(wire, k + 1, Len(wire))
    BY <1>6 DEF Arrive
  <2>2. UNCHANGED <<buf, sent, taken>>
    BY <1>6 DEF Arrive
  <2>3. k \in 0 .. Len(wire)
    BY <1>1 DEF Text
  <2>4. PICK a \in Text : a = SubSeq(wire, 1, k)
    BY <1>1, <2>3, FirstOf DEF Text
  <2>5. PICK b \in Text : b = wire'
    BY <1>1, <2>1, <2>3, RestOf DEF Text
  <2>6. a \o b = wire
    BY <1>1, <2>1, <2>3, <2>4, <2>5, CutInTwo DEF Text
  <2>7. PICK p \in Text : p = t \o buf
    BY <1>1, ConcatProperties DEF Text
  <2>8. (p \o (socket \o a)) \o b = (p \o socket) \o (a \o b)
    <3>1. Join(Join(p, Join(socket, a)), b) = Join(Join(p, socket), Join(a, b))
      BY <1>1, Shift
    <3> QED
      BY <3>1 DEF Join
  <2> QED
    BY <1>2, <1>3, <2>1, <2>2, <2>4, <2>5, <2>6, <2>7, <2>8 DEF BytesInOrder
<1>7. CASE Read
  <2>1. PICK k \in 0 .. Len(socket) :
              /\ buf' = buf \o SubSeq(socket, 1, k)
              /\ socket' = SubSeq(socket, k + 1, Len(socket))
    BY <1>7, ReadTyped
  <2>2. UNCHANGED <<wire, sent, taken>>
    BY <1>7 DEF Read, server
  <2>3. PICK a \in Text : a = SubSeq(socket, 1, k)
    BY <1>1, FirstOf DEF Text
  <2>4. PICK b \in Text : b = socket'
    BY <1>1, <2>1, RestOf DEF Text
  <2>5. a \o b = socket
    BY <1>1, <2>1, <2>3, <2>4, CutInTwo DEF Text
  <2>6. (t \o (buf \o a)) \o b = (t \o buf) \o (a \o b)
    <3>1. Join(Join(t, Join(buf, a)), b) = Join(Join(t, buf), Join(a, b))
      BY <1>1, Shift
    <3> QED
      BY <3>1 DEF Join
  <2> QED
    BY <1>2, <1>3, <2>1, <2>2, <2>3, <2>4, <2>5, <2>6 DEF BytesInOrder
<1>8. CASE TakeLine
  <2>1. UNCHANGED <<wire, sent, socket>>
    BY <1>8 DEF TakeLine, server
  <2>2. CASE UNCHANGED <<buf, taken>>
    BY <2>1, <2>2 DEF BytesInOrder
  <2>3. CASE \E i \in 1 .. Len(buf) : /\ buf' = SubSeq(buf, i + 1, Len(buf))
                                      /\ taken' = Append(taken, SubSeq(buf, 1, i))
                                      /\ SubSeq(buf, 1, i) \in Text /\ buf' \in Text
    <3>1. PICK i \in 1 .. Len(buf) : /\ buf' = SubSeq(buf, i + 1, Len(buf))
                                     /\ taken' = Append(taken, SubSeq(buf, 1, i))
                                     /\ SubSeq(buf, 1, i) \in Text /\ buf' \in Text
      BY <2>3
    <3>2. PICK a \in Text : a = SubSeq(buf, 1, i)
      BY <3>1
    <3>3. PICK b \in Text : b = buf'
      BY <3>1
    <3>4. i \in 0 .. Len(buf)
      BY <1>1 DEF Text
    <3>5. a \o b = buf
      BY <1>1, <3>1, <3>2, <3>3, <3>4, CutInTwo DEF Text
    <3>6. FlattenSeq(taken') = t \o a
      BY <1>1, <1>2, <3>1, <3>2, FlattenAppend
    <3>7. (t \o a) \o b = t \o (a \o b)
      <4>1. t \in Text /\ a \in Text /\ b \in Text
        OBVIOUS
      <4> QED
        BY ONLY <4>1, TextJoins, ZenonT(40)
    <3> QED
      BY <1>2, <1>3, <2>1, <3>3, <3>5, <3>6, <3>7 DEF BytesInOrder
  <2> QED
    BY <1>8, <2>2, <2>3, TakeLineTyped
<1>9. CASE HangUp \/ (\E p \in setup.prefixes : Expect(p))
  BY <1>4, <1>9 DEF HangUp, Expect, server
<1>10. CASE \/ LoopWithBytes \/ LoopAndWait \/ WaitEnds \/ WaitTimesOut
            \/ FindBytes \/ ReadFails \/ TooFewBytes
  BY <1>4, <1>10 DEF LoopWithBytes, LoopAndWait, WaitEnds, WaitTimesOut, FindBytes,
                     ReadFails, TooFewBytes, server
<1>11. CASE UNCHANGED vars
  BY <1>4, <1>11 DEF vars, server
<1> QED
  BY <1>5, <1>6, <1>7, <1>8, <1>9, <1>10, <1>11 DEF Next, Step

\* However the bytes are cut up on their way, however long the lines are and
\* however calls nest: the lines taken, the buffer, the socket and the wire
\* hold what the server sent, in its order.
THEOREM ByteSafety == Spec => []BytesInOrder
BY InitTyped, StepTyped, InitInOrder, StepInOrder, PTL DEF Spec

-----------------------------------------------------------------------------
(* Lines that arrive whole are taken whole.                                 *)
Whole(b) == b = <<>> \/ b[Len(b)] = NL

WholeInv ==
    /\ Len(sent) <= MaxLines
    /\ Clean => /\ Whole(buf) /\ Whole(socket)
                /\ Len(taken) <= Len(sent) /\ taken = SubSeq(sent, 1, Len(taken))

LEMMA LineIs ==
    ASSUME setup \in Setups, NEW y \in setup.lines
    PROVE  /\ y \in Text /\ Len(y) \in Nat \ {0}
           /\ \A j \in 1 .. Len(y) : y[j] = NL <=> j = Len(y)
<1>1. y \in Seq(Bytes) /\ y # <<>> /\ \A j \in 1 .. Len(y) : y[j] = NL <=> j = Len(y)
  BY TlsCommAssumption
<1> QED
  BY <1>1, EmptySeq DEF Text

\* A whole buffer that begins as y z does begins with all of the line y, and
\* getline_from_buffer takes that.
LEMMA FirstLine ==
    ASSUME setup \in Setups, NEW y \in setup.lines, Len(y) < setup.buflen,
           NEW b \in Text, b # <<>>, Whole(b),
           NEW r \in Text, NEW z \in Text, b \o r = y \o z
    PROVE  Len(y) \in 1 .. Len(b) /\ SubSeq(b, 1, Len(y)) = y /\ LineLength(b) = Len(y)
<1>1. /\ y \in Text /\ Len(y) \in Nat \ {0} /\ Len(b) \in Nat \ {0}
      /\ setup.buflen \in Nat \ {0, 1} /\ b[Len(b)] = NL
      /\ \A j \in 1 .. Len(y) : y[j] = NL <=> j = Len(y)
  BY LineIs, TlsCommAssumption, EmptySeq DEF Whole, Text
<1>2. \A j \in 1 .. Len(b) : (b \o r)[j] = b[j]
  BY <1>1, ConcatProperties DEF Text
<1>3. \A j \in 1 .. Len(y) : (y \o z)[j] = y[j]
  BY <1>1, ConcatProperties DEF Text
<1>4. \A j \in 1 .. Len(b) : j <= Len(y) => b[j] = y[j]
  BY <1>1, <1>2, <1>3
<1>5. Len(y) <= Len(b)
  <2>1. SUFFICES ASSUME Len(b) < Len(y) PROVE FALSE
    BY <1>1
  <2>2. Len(b) \in 1 .. Len(b) /\ Len(b) \in 1 .. Len(y)
    BY <1>1, <2>1
  <2> QED
    BY <1>1, <1>4, <2>1, <2>2
<1>6. \A j \in 1 .. Len(y) : b[j] = y[j]
  BY <1>1, <1>4, <1>5
<1>7. SubSeq(b, 1, Len(y)) = y
  <2>1. /\ SubSeq(b, 1, Len(y)) \in Seq(Bytes) /\ Len(SubSeq(b, 1, Len(y))) = Len(y)
    BY <1>1, <1>5, FirstOf DEF Text
  <2>2. \A i \in 1 .. Len(y) : SubSeq(b, 1, Len(y))[i] = b[i]
    <3>1. \A i \in 1 .. Len(y) : b[i] \in Bytes
      BY <1>1, <1>5 DEF Text
    <3>2. \A i \in 1 .. Len(y) - 1 + 1 : SubSeq(b, 1, Len(y))[i] = b[1 + i - 1]
      BY <1>1, <3>1, SubSeqProperties
    <3> QED
      BY <1>1, <3>2
  <2>3. \A i \in 1 .. Len(y) : SubSeq(b, 1, Len(y))[i] = y[i]
    BY <1>6, <2>2
  <2>4. y \in Seq(Bytes)
    BY <1>1 DEF Text
  <2> HIDE DEF Text
  <2>5. PICK v \in Seq(Bytes) : v = SubSeq(b, 1, Len(y))
    BY <2>1
  <2>6. v = y
    BY <2>1, <2>3, <2>4, <2>5, SeqEqual
  <2> QED
    BY <2>5, <2>6
<1>8. LineLength(b) = Len(y)
  <2> DEFINE S == {j - 1 : j \in {j \in 1 .. Len(b) : b[j] = NL}}
                     \union {Len(b), setup.buflen - 1}
             i == Min(S)
  <2>1. Len(y) \in 1 .. Len(b) /\ b[Len(y)] = NL
    BY <1>1, <1>5, <1>6
  <2>2. Len(y) - 1 \in S /\ S \in SUBSET Nat
    BY <1>1, <2>1
  <2>3. \A n \in S : Len(y) - 1 <= n
    <3>1. \A j \in 1 .. Len(b) : b[j] = NL => Len(y) <= j
      BY <1>1, <1>6
    <3> QED
      BY <1>1, <1>5, <3>1
  <2>4. i \in S /\ \A n \in S : i <= n
    <3> HIDE DEF S
    <3> QED
      BY <2>2, MinIs
  <2>5. i = Len(y) - 1
    <3> HIDE DEF S
    <3>1. i <= Len(y) - 1 /\ Len(y) - 1 <= i /\ i \in Nat
      BY <2>2, <2>3, <2>4
    <3> HIDE DEF i
    <3> QED
      BY <1>1, <3>1
  <2>6. LineLength(b) = IF i < Len(b) /\ b[i + 1] = NL THEN i + 1 ELSE i
    BY DEF LineLength
  <2> HIDE DEF i
  <2> QED
    BY <1>1, <2>1, <2>5, <2>6
<1>9. Len(y) \in 1 .. Len(b)
  BY <1>1, <1>5
<1> QED
  BY <1>7, <1>8, <1>9

\* All that was sent fits unprocessed.
LEMMA AllFits ==
    ASSUME TypeOK, Clean, Len(sent) <= MaxLines
    PROVE  Len(FlattenSeq(sent)) < BUF_SIZE
<1>1. /\ sent \in Seq(setup.lines) /\ setup \in Setups /\ Len(sent) \in Nat
      /\ BUF_SIZE \in Nat \ {0, 1} /\ MaxLines \in Nat
  BY TlsCommAssumption DEF TypeOK
<1>2. \A y \in setup.lines : y \in Text /\ MaxLines * Len(y) < BUF_SIZE
  BY <1>1, LineIs DEF Clean
<1>3. sent \in Seq(Text)
  BY <1>1, <1>2
<1>4. PICK B \in Nat : B = BUF_SIZE - 1
  BY <1>1
<1>5. \A i \in 1 .. Len(sent) : MaxLines * Len(sent[i]) <= B
  <2>1. SUFFICES ASSUME NEW i \in 1 .. Len(sent) PROVE MaxLines * Len(sent[i]) <= B
    OBVIOUS
  <2>2. PICK a \in Nat : a = Len(sent[i])
    BY <1>3 DEF Text
  <2>3. MaxLines * a < BUF_SIZE /\ MaxLines * a \in Nat
    BY <1>1, <1>2, <2>2
  <2> QED
    BY <1>1, <1>4, <2>2, <2>3
<1>6. Len(sent) \in 0 .. Len(sent)
  BY <1>1
<1>7. MaxLines * Len(FlattenSeq(SubSeq(sent, 1, Len(sent)))) <= Len(sent) * B
  BY <1>1, <1>3, <1>5, <1>6, FlattenFits
<1>8. PICK f \in Nat : f = Len(FlattenSeq(sent))
  BY <1>3, FlattenText DEF Text
<1>9. MaxLines * f <= Len(sent) * B
  BY <1>3, <1>7, <1>8, SubSeqFull
<1>10. CASE Len(sent) = 0
  <2>1. sent = <<>>
    BY <1>3, <1>10, EmptySeq
  <2>2. f = 0
    BY <1>8, <2>1, FlattenNothing, EmptySeq
  <2> QED
    BY <1>1, <1>8, <2>2
<1>11. CASE Len(sent) # 0
  <2>1. PICK M \in Nat \ {0} : M = MaxLines
    BY <1>1, <1>11
  <2>2. PICK n \in Nat : n = Len(sent)
    BY <1>1
  <2>3. M * f <= n * B /\ n <= M
    BY <1>9, <2>1, <2>2
  <2>4. f <= B
    <3>1. SUFFICES ASSUME B + 1 <= f PROVE FALSE
      OBVIOUS
    <3>2. n * B <= M * B
      BY <2>3
    <3>3. M * (B + 1) <= M * f
      BY <3>1
    <3>4. M * (B + 1) = M * B + M
      OBVIOUS
    <3>5. /\ n * B \in Nat /\ M * B \in Nat /\ M * f \in Nat
      OBVIOUS
    <3> QED
      BY <2>3, <3>2, <3>3, <3>4, <3>5
  <2> QED
    BY <1>1, <1>4, <1>8, <2>4
<1> QED
  BY <1>10, <1>11

LEMMA Reassociate ==
    ASSUME NEW p \in Text, NEW q \in Text, NEW r \in Text, NEW s \in Text
    PROVE  /\ Join(Join(Join(p, q), r), s) = Join(p, Join(q, Join(r, s)))
           /\ Join(r, s) \in Text /\ Join(q, Join(r, s)) \in Text
<1>1. \A a, b, c \in Text : Join(Join(a, b), c) = Join(a, Join(b, c)) /\ Join(a, b) \in Text
  BY TextJoins DEF Join
<1>2. Join(p, q) \in Text /\ Join(r, s) \in Text
  BY <1>1
<1>3. Join(Join(Join(p, q), r), s) = Join(Join(p, q), Join(r, s))
  BY <1>1, <1>2
<1>4. Join(Join(p, q), Join(r, s)) = Join(p, Join(q, Join(r, s)))
  BY <1>1, <1>2
<1>5. Join(q, Join(r, s)) \in Text
  BY <1>1, <1>2
<1> QED
  BY <1>2, <1>3, <1>4, <1>5

\* What is taken next is the next line, and all of it.
LEMMA NextLine ==
    ASSUME TypeOK, BytesInOrder, WholeInv, Clean, buf # <<>>
    PROVE  /\ Len(taken) < Len(sent)
           /\ SubSeq(buf, 1, LineLength(buf)) = sent[Len(taken) + 1]
<1>1. /\ setup \in Setups /\ wire \in Text /\ socket \in Text /\ buf \in Text
      /\ sent \in Seq(setup.lines) /\ taken \in Seq(Text) /\ Len(taken) \in Nat
      /\ Len(sent) \in Nat
  BY DEF TypeOK, Text
<1>2. sent \in Seq(Text) /\ \A y \in setup.lines : Len(y) < setup.buflen
  BY <1>1, LineIs DEF Clean
<1>3. Whole(buf) /\ Len(taken) <= Len(sent) /\ taken = SubSeq(sent, 1, Len(taken))
  BY DEF WholeInv
<1>4. PICK t \in Text : t = FlattenSeq(taken)
  BY <1>1, FlattenText
<1>5. Join(Join(Join(t, buf), socket), wire) = FlattenSeq(sent)
  BY <1>4 DEF BytesInOrder, Join
<1>6. PICK r \in Text : r = Join(socket, wire)
  BY <1>1, Reassociate
<1>7. Join(t, Join(buf, r)) = FlattenSeq(sent) /\ Join(buf, r) \in Text
  BY <1>1, <1>5, <1>6, Reassociate
<1>8. Len(taken) < Len(sent)
  <2>1. SUFFICES ASSUME Len(taken) = Len(sent) PROVE FALSE
    BY <1>1, <1>3
  <2>2. taken = sent
    BY <1>2, <1>3, <2>1, SubSeqFull
  <2>3. PICK u \in Text : u = Join(buf, r)
    BY <1>7
  <2>4. t \o u = t
    BY <1>4, <1>7, <2>2, <2>3 DEF Join
  <2>5. u = <<>>
    BY <2>4, ConcatEqualIffEmpty DEF Text
  <2>6. buf \o r = <<>>
    BY <2>3, <2>5 DEF Join
  <2> QED
    BY <1>1, <2>6, ConcatEqualIffEmpty DEF Text
<1>9. PICK k \in 0 .. Len(sent) - 1 : k = Len(taken)
  BY <1>1, <1>8
<1>10. PICK y \in setup.lines : y = sent[k + 1]
  BY <1>1
<1>11. PICK z \in Text : FlattenSeq(sent) = FlattenSeq(SubSeq(sent, 1, k)) \o (sent[k + 1] \o z)
  BY <1>2, FlattenNext
<1>12. Join(t, Join(buf, r)) = Join(t, Join(y, z))
  BY <1>3, <1>4, <1>7, <1>9, <1>10, <1>11 DEF Join
<1>13. buf \o r = y \o z
  <2>1. PICK u \in Text : u = Join(buf, r)
    BY <1>7
  <2>2. PICK v \in Text : v = Join(y, z)
    BY <1>1, <1>10, LineIs, ConcatProperties DEF Text, Join
  <2>3. t \o u = t \o v
    BY <1>12, <2>1, <2>2 DEF Join
  <2>4. u = v
    BY <2>3, ConcatSimplifications DEF Text
  <2> QED
    BY <2>1, <2>2, <2>4 DEF Join
<1>14. SubSeq(buf, 1, Len(y)) = y /\ LineLength(buf) = Len(y)
  <2>1. Len(y) < setup.buflen
    BY <1>2
  <2>2. PICK b \in Text : b = buf
    BY <1>1
  <2>3. b # <<>> /\ Whole(b) /\ b \o r = y \o z
    BY <1>3, <1>13, <2>2
  <2>4. SubSeq(b, 1, Len(y)) = y
    BY <1>1, <2>1, <2>3, FirstLine
  <2>5. LineLength(b) = Len(y)
    BY <1>1, <2>1, <2>3, FirstLine
  <2> QED
    BY <2>2, <2>4, <2>5
<1> QED
  BY <1>8, <1>9, <1>10, <1>14

LEMMA InitWhole == Init => WholeInv
<1>1. SUFFICES ASSUME Init PROVE WholeInv
  OBVIOUS
<1>2. SubSeq(<<>>, 1, 0) = <<>> /\ Len(<<>>) = 0
  BY SubSeqEmpty
<1> QED
  BY <1>1, <1>2, TlsCommAssumption DEF Init, WholeInv, Whole

LEMMA StepWhole ==
    TypeOK /\ CountInv /\ BytesInOrder /\ WholeInv /\ [Next]_vars => WholeInv'
<1> SUFFICES ASSUME TypeOK, CountInv, BytesInOrder, WholeInv, [Next]_vars PROVE WholeInv'
  OBVIOUS
<1>1. /\ setup \in Setups /\ wire \in Text /\ socket \in Text /\ buf \in Text
      /\ sent \in Seq(setup.lines) /\ taken \in Seq(Text) /\ Len(taken) \in Nat
      /\ Len(sent) \in Nat
  BY DEF TypeOK, Text
<1>2. sent \in Seq(Text)
  BY <1>1, LineIs
<1>3. CASE UNCHANGED <<setup, socket, buf, sent, taken>>
  BY <1>3 DEF WholeInv, Whole, Clean
<1>4. CASE \E l \in setup.lines : Send(l)
  <2>1. PICK l \in setup.lines : Send(l)
    BY <1>4
  <2>2. /\ UNCHANGED <<setup, socket, buf, taken>>
        /\ sent' = Append(sent, l) /\ Len(sent) < MaxLines
    BY <2>1 DEF Send
  <2>3. l \in Text
    BY <1>1, LineIs
  <2>4. /\ sent' \in Seq(Text) /\ Len(sent') = Len(sent) + 1
        /\ \A i \in 1 .. Len(sent) : sent'[i] = sent[i]
    BY <1>2, <2>2, <2>3, AppendProperties
  <2>5. Len(sent') <= MaxLines
    BY <1>1, <2>2, <2>4, TlsCommAssumption
  <2>6. ASSUME Clean, Len(taken) <= Len(sent)
        PROVE  SubSeq(sent', 1, Len(taken)) = SubSeq(sent, 1, Len(taken))
    <3>1. PICK n \in Nat : n = Len(taken)
      BY <1>1
    <3>2. PICK v \in Seq(Text) : v = sent'
      BY <2>4
    <3>3. n \in 0 .. Len(sent) /\ n \in 0 .. Len(v)
      BY <1>1, <2>4, <2>6, <3>1, <3>2
    <3>4. /\ SubSeq(sent, 1, n) \in Seq(Text) /\ Len(SubSeq(sent, 1, n)) = n
          /\ SubSeq(v, 1, n) \in Seq(Text) /\ Len(SubSeq(v, 1, n)) = n
      BY <1>2, <3>3, FirstOf
    <3>5. \A i \in 1 .. n : sent[i] \in Text /\ v[i] \in Text /\ v[i] = sent[i]
      BY <1>2, <2>4, <3>2, <3>3
    <3>6. \A i \in 1 .. n : SubSeq(sent, 1, n)[i] = sent[i] /\ SubSeq(v, 1, n)[i] = v[i]
      <4>1. \A i \in 1 .. n - 1 + 1 : SubSeq(sent, 1, n)[i] = sent[1 + i - 1]
        BY <3>5, SubSeqProperties
      <4>2. \A i \in 1 .. n - 1 + 1 : SubSeq(v, 1, n)[i] = v[1 + i - 1]
        BY <3>5, SubSeqProperties
      <4> QED
        BY <4>1, <4>2
    <3>7. PICK a \in Seq(Text), b \in Seq(Text) : a = SubSeq(sent, 1, n) /\ b = SubSeq(v, 1, n)
      BY <3>4
    <3>8. a = b
      BY <3>4, <3>5, <3>6, <3>7, SeqEqual
    <3> QED
      BY <3>1, <3>2, <3>7, <3>8
  <2>7. Clean' => Clean
    BY <2>2 DEF Clean
  <2> QED
    BY <1>1, <2>2, <2>4, <2>5, <2>6, <2>7 DEF WholeInv, Whole
<1>5. CASE Arrive
  <2>1. PICK k \in 1 .. Len(wire) : /\ setup.whole => wire[k] = NL
                                    /\ socket' = socket \o SubSeq(wire, 1, k)
    BY <1>5 DEF Arrive
  <2>2. UNCHANGED <<setup, buf, sent, taken>>
    BY <1>5 DEF Arrive
  <2>3. ASSUME Clean PROVE Whole(socket')
    <3>1. wire[k] = NL /\ k \in 0 .. Len(wire) /\ k \in Nat \ {0} /\ Len(wire) \in Nat
      BY <1>1, <2>1, <2>3 DEF Clean, Text
    <3>2. PICK a \in Text : a = SubSeq(wire, 1, k)
      BY <1>1, <3>1, FirstOf DEF Text
    <3>3. Len(a) = k
      BY <1>1, <3>1, <3>2, FirstOf DEF Text
    <3>4. a[k] = wire[k]
      <4>1. \A i \in 1 .. k : wire[i] \in Bytes
        BY <1>1, <3>1 DEF Text
      <4>2. \A i \in 1 .. k - 1 + 1 : SubSeq(wire, 1, k)[i] = wire[1 + i - 1]
        BY <3>1, <4>1, SubSeqProperties
      <4> QED
        BY <3>1, <3>2, <4>2
    <3>5. /\ Len(socket \o a) = Len(socket) + k
          /\ (socket \o a)[Len(socket) + k] = a[k]
      <4>1. PICK m \in Nat : m = Len(socket)
        BY <1>1 DEF Text
      <4>2. Len(socket \o a) = m + k
        BY <1>1, <3>3, <4>1, ConcatProperties DEF Text
      <4>3. \A i \in 1 .. m + k : (socket \o a)[i] = IF i <= m THEN socket[i] ELSE a[i - m]
        BY <1>1, <3>3, <4>1, ConcatProperties DEF Text
      <4>4. m + k \in 1 .. m + k /\ ~ (m + k <= m) /\ (m + k) - m = k
        BY <3>1
      <4> QED
        BY <4>1, <4>2, <4>3, <4>4
    <3> QED
      BY <2>1, <3>1, <3>2, <3>4, <3>5 DEF Whole
  <2>4. Clean' => Clean
    BY <2>2 DEF Clean
  <2> QED
    BY <2>2, <2>3, <2>4 DEF WholeInv, Whole
<1>6. CASE Read
  <2>1. PICK k \in 0 .. Len(socket) :
              /\ Len(buf) + k < BUF_SIZE
              /\ buf' = buf \o SubSeq(socket, 1, k)
              /\ socket' = SubSeq(socket, k + 1, Len(socket))
              /\ k = Len(socket) \/ Len(buf) + k = BUF_SIZE - 1
    BY <1>6, ReadTyped
  <2>2. UNCHANGED <<setup, sent, taken>>
    BY <1>6 DEF Read, server
  <2>3. ASSUME Clean PROVE Whole(buf') /\ Whole(socket')
    <3>1. Len(FlattenSeq(sent)) < BUF_SIZE
      BY <2>3, AllFits DEF WholeInv
    <3>2. Len(FlattenSeq(sent)) >= Len(buf) + Len(socket)
      <4>1. PICK t \in Text : t = FlattenSeq(taken)
        BY <1>1, FlattenText
      <4>2. PICK a \in Text : a = t \o buf
        BY <1>1, ConcatProperties DEF Text
      <4>3. PICK b \in Text : b = a \o socket
        BY <1>1, ConcatProperties DEF Text
      <4>4. FlattenSeq(sent) = b \o wire
        BY <4>1, <4>2, <4>3 DEF BytesInOrder
      <4>5. /\ Len(b \o wire) = Len(b) + Len(wire) /\ Len(b) = Len(a) + Len(socket)
            /\ Len(a) = Len(t) + Len(buf)
        BY <1>1, <4>2, <4>3, ConcatProperties DEF Text
      <4>6. Len(wire) \in Nat /\ Len(socket) \in Nat /\ Len(buf) \in Nat /\ Len(t) \in Nat
        BY <1>1 DEF Text
      <4> QED
        BY <4>4, <4>5, <4>6
    <3>3. k = Len(socket)
      <4>1. Len(FlattenSeq(sent)) \in Nat /\ Len(socket) \in Nat /\ Len(buf) \in Nat
            /\ BUF_SIZE \in Nat
        BY <1>1, <1>2, FlattenText, TlsCommAssumption DEF Text
      <4> QED
        BY <2>1, <3>1, <3>2, <4>1
    <3>4. buf' = buf \o socket /\ socket' = <<>>
      <4>1. Len(socket) \in Nat
        BY <1>1 DEF Text
      <4>2. SubSeq(socket, 1, Len(socket)) = socket
        BY <1>1, SubSeqFull DEF Text
      <4>3. SubSeq(socket, Len(socket) + 1, Len(socket)) = <<>>
        BY <4>1, SubSeqEmpty
      <4> QED
        BY <2>1, <3>3, <4>2, <4>3
    <3>5. Whole(buf) /\ Whole(socket)
      BY <2>3 DEF WholeInv
    <3>6. CASE socket = <<>>
      <4>1. buf \o <<>> = buf
        BY <1>1, ConcatEmptySeq DEF Text
      <4> QED
        BY <3>4, <3>5, <3>6, <4>1 DEF Whole
    <3>7. CASE socket # <<>>
      <4>1. Len(socket) \in Nat \ {0} /\ Len(buf) \in Nat
        BY <1>1, <3>7, EmptySeq DEF Text
      <4>2. /\ Len(buf \o socket) = Len(buf) + Len(socket)
            /\ (buf \o socket)[Len(buf) + Len(socket)] = socket[Len(socket)]
        BY <1>1, <4>1, ConcatProperties DEF Text
      <4> QED
        BY <3>4, <3>5, <3>7, <4>2 DEF Whole
    <3> QED
      BY <3>6, <3>7
  <2>4. Clean' => Clean
    BY <2>2 DEF Clean
  <2> QED
    BY <2>2, <2>3, <2>4 DEF WholeInv
<1>7. CASE TakeLine
  <2>1. UNCHANGED <<setup, sent, socket>>
    BY <1>7 DEF TakeLine, server
  <2>2. CASE UNCHANGED <<buf, taken>>
    BY <1>3, <2>1, <2>2
  <2>3. CASE \E i \in 1 .. Len(buf) : /\ i = LineLength(buf)
                                      /\ buf' = SubSeq(buf, i + 1, Len(buf))
                                      /\ taken' = Append(taken, SubSeq(buf, 1, i))
    <3>1. PICK i \in 1 .. Len(buf) : /\ i = LineLength(buf)
                                     /\ buf' = SubSeq(buf, i + 1, Len(buf))
                                     /\ taken' = Append(taken, SubSeq(buf, 1, i))
      BY <2>3
    <3>2. Len(buf) \in Nat /\ i \in 0 .. Len(buf) /\ buf # <<>>
      BY <1>1, EmptySeq DEF Text
    <3>3. ASSUME Clean
          PROVE  Len(taken') <= Len(sent) /\ taken' = SubSeq(sent, 1, Len(taken'))
      <4>1. Len(taken) < Len(sent) /\ SubSeq(buf, 1, i) = sent[Len(taken) + 1]
        BY <3>1, <3>2, <3>3, NextLine
      <4>2. taken = SubSeq(sent, 1, Len(taken))
        BY <3>3 DEF WholeInv
      <4>3. PICK n \in 0 .. Len(sent) - 1 : n = Len(taken)
        BY <1>1, <4>1
      <4>4. SubSeq(sent, 1, n + 1) = Append(SubSeq(sent, 1, n), sent[n + 1])
        BY <1>2, FirstAndNext
      <4>5. taken' = SubSeq(sent, 1, n + 1)
        BY <3>1, <4>1, <4>2, <4>3, <4>4
      <4>6. n + 1 \in 0 .. Len(sent)
        BY <1>1
      <4>7. Len(taken') = n + 1
        BY <1>2, <4>5, <4>6, FirstOf
      <4> QED
        BY <4>5, <4>6, <4>7
    <3>4. ASSUME Clean PROVE Whole(buf')
      <4>1. buf[Len(buf)] = NL
        BY <3>2, <3>4 DEF WholeInv, Whole
      <4>2. PICK b \in Text : b = buf'
        BY <1>1, <3>1, <3>2, RestOf DEF Text
      <4>3. /\ Len(b) = Len(buf) - i
            /\ \A j \in 1 .. Len(buf) - i : b[j] = buf[i + j]
        BY <1>1, <3>1, <3>2, <4>2, RestOf DEF Text
      <4>4. CASE b = <<>>
        BY <4>2, <4>4 DEF Whole
      <4>5. CASE b # <<>>
        <5>1. Len(b) \in Nat \ {0}
          BY <4>5, EmptySeq DEF Text
        <5>2. b[Len(b)] = buf[i + Len(b)] /\ i + Len(b) = Len(buf)
          BY <3>2, <4>3, <5>1
        <5> QED
          BY <4>1, <4>2, <5>2 DEF Whole
      <4> QED
        BY <4>4, <4>5
    <3>5. Clean' => Clean
      BY <2>1 DEF Clean
    <3> QED
      BY <2>1, <3>3, <3>4, <3>5 DEF WholeInv, Whole
  <2> QED
    BY <1>7, <2>2, <2>3, TakeLineTyped
<1>8. CASE HangUp \/ (\E p \in setup.prefixes : Expect(p))
  BY <1>3, <1>8 DEF HangUp, Expect, server
<1>9. CASE \/ LoopWithBytes \/ LoopAndWait \/ WaitEnds \/ WaitTimesOut
           \/ FindBytes \/ ReadFails \/ TooFewBytes
  BY <1>3, <1>9 DEF LoopWithBytes, LoopAndWait, WaitEnds, WaitTimesOut, FindBytes,
                    ReadFails, TooFewBytes, server
<1>10. CASE UNCHANGED vars
  BY <1>3, <1>10 DEF vars, server
<1> QED
  BY <1>4, <1>5, <1>6, <1>7, <1>8, <1>9, <1>10 DEF Next, Step

\* Lines that arrive whole, fit the callers' buffers and together fit
\* unprocessed are taken whole, one after the other, though calls inside a
\* wait take from the same buffer.
THEOREM LineSafety == Spec => []LinesAreWhole
<1>1. WholeInv => LinesAreWhole
  BY DEF WholeInv, LinesAreWhole
<1> QED
  BY <1>1, InitTyped, StepTyped, InitInOrder, StepInOrder, InitWhole, StepWhole, PTL DEF Spec
=============================================================================
