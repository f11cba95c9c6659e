------------------------ MODULE HttpConnectionProofs ------------------------
(***************************************************************************)
(* What an AsyncHttpClient hands to its owner, for any messages, however   *)
(* many, written in records of any size and cut or ended anywhere.         *)
(***************************************************************************)
EXTENDS HttpConnection, SequenceTheorems, WellFoundedInduction, TLAPS

-----------------------------------------------------------------------------
(* Naturals and sequences.                                                   *)

\* A set of naturals has a least one.
LEMMA Least ==
    ASSUME NEW S \in SUBSET Nat, S # {}
    PROVE  \E n \in S : \A m \in S : n <= m
<1>1. PICK n \in S : \A m \in S : <<m, n>> \notin OpToRel(<, Nat)
  BY NatLessThanWellFounded, WFMin
<1>2. ASSUME NEW m \in S PROVE n <= m
  <2>1. <<m, n>> \in Nat \X Nat /\ ~ (m < n)
    BY <1>1 DEF OpToRel
  <2>2. QED
    BY <2>1
<1>3. QED
  BY <1>2

\* Induction up to a bound, over a set.
LEMMA UpTo ==
    ASSUME NEW m \in Nat, NEW S, 0 \in S,
           \A n \in 0 .. m - 1 : n \in S => n + 1 \in S
    PROVE  \A n \in 0 .. m : n \in S
<1> DEFINE Bad == {n \in 0 .. m : n \notin S}
<1> SUFFICES ASSUME Bad # {} PROVE FALSE
  OBVIOUS
<1>1. Bad \in SUBSET Nat
  OBVIOUS
<1>2. PICK n \in Bad : \A k \in Bad : n <= k
  BY <1>1, Least
<1>3. n # 0 /\ n - 1 \in 0 .. m - 1 /\ n - 1 \notin Bad
  BY <1>2
<1>4. QED
  BY <1>2, <1>3

\* Two sequences with the same elements are one.
LEMMA SameElements ==
    ASSUME NEW S, NEW s \in Seq(S), NEW t \in Seq(S), Len(s) = Len(t),
           \A i \in 1 .. Len(s) : s[i] = t[i]
    PROVE  s = t
  BY SeqEqual

\* What is taken from a sequence and what it leaves, ...
LEMMA TakeDrop ==
    ASSUME NEW S, NEW s \in Seq(S), NEW n \in 0 .. Len(s)
    PROVE  /\ Take(n, s) \in Seq(S) /\ Len(Take(n, s)) = n
           /\ Drop(n, s) \in Seq(S) /\ Len(Drop(n, s)) = Len(s) - n
           /\ \A i \in 1 .. n : Take(n, s)[i] = s[i]
           /\ \A i \in 1 .. Len(s) - n : Drop(n, s)[i] = s[n + i]
<1>1. /\ Take(n, s) \in Seq(S) /\ Len(Take(n, s)) = n
      /\ \A i \in 1 .. n : Take(n, s)[i] = s[i]
  BY SubSeqProperties DEF Take
<1>2. /\ Drop(n, s) \in Seq(S) /\ Len(Drop(n, s)) = Len(s) - n
      /\ \A i \in 1 .. Len(s) - n : Drop(n, s)[i] = s[n + i]
  BY SubSeqProperties DEF Drop
<1>3. QED
  BY <1>1, <1>2

\* ... and both together.
LEMMA TakeAndDrop ==
    ASSUME NEW S, NEW s \in Seq(S), NEW n \in 0 .. Len(s)
    PROVE  Take(n, s) \o Drop(n, s) = s
<1>1. PICK a, b \in Seq(S) : /\ a = Take(n, s) /\ b = Drop(n, s)
                             /\ Len(a) = n /\ Len(b) = Len(s) - n
  BY TakeDrop
<1>2. a \o b \in Seq(S) /\ Len(a \o b) = Len(s)
  BY <1>1
<1>3. \A i \in 1 .. n : a[i] = s[i]
  BY <1>1, TakeDrop
<1>4. \A i \in 1 .. Len(s) - n : b[i] = s[n + i]
  BY <1>1, TakeDrop
<1>5. \A i \in 1 .. Len(s) : (a \o b)[i] = s[i]
  <2>1. TAKE i \in 1 .. Len(s)
  <2>0. i \in Int /\ n \in Int
    OBVIOUS
  <2>2. CASE i <= n
    <3>1. (a \o b)[i] = a[i]
      BY <1>1, <2>2
    <3>2. QED
      BY <1>3, <2>2, <3>1
  <2>3. CASE i > n
    <3>1. PICK j \in 1 .. Len(s) - n : i = n + j
      BY <2>3
    <3>2. (a \o b)[n + j] = b[j]
      BY <1>1
    <3>3. QED
      BY <1>4, <3>1, <3>2
  <2>4. i <= n \/ i > n
    BY <2>0
  <2>5. QED
    BY <2>2, <2>3, <2>4
<1>6. QED
  BY <1>1, <1>2, <1>5, SameElements

LEMMA Associative ==
    ASSUME NEW S, NEW a \in Seq(S), NEW b \in Seq(S), NEW c \in Seq(S)
    PROVE  (a \o b) \o c = a \o (b \o c)
  BY ConcatAssociative

Regroups(S) == \A a, b, c \in Seq(S) : (a \o b) \o c = a \o (b \o c)

LEMMA Regroup == \A S : Regroups(S)
  BY Associative DEF Regroups

LEMMA AppendTo ==
    ASSUME NEW S, NEW s \in Seq(S), NEW e \in S
    PROVE  /\ Append(s, e) \in Seq(S) /\ Len(Append(s, e)) = Len(s) + 1
           /\ Append(s, e)[Len(s) + 1] = e
           /\ \A i \in 1 .. Len(s) : Append(s, e)[i] = s[i]
  OBVIOUS

\* The elements of a concatenation.
LEMMA ConcatIs ==
    ASSUME NEW S, NEW s \in Seq(S), NEW t \in Seq(S)
    PROVE  /\ s \o t \in Seq(S) /\ Len(s \o t) = Len(s) + Len(t)
           /\ \A i \in 1 .. Len(s) : (s \o t)[i] = s[i]
           /\ \A i \in 1 .. Len(t) : (s \o t)[Len(s) + i] = t[i]
  OBVIOUS

LEMMA PutBefore ==
    ASSUME NEW S, NEW s \in Seq(S), NEW e \in S
    PROVE  /\ <<e>> \o s \in Seq(S) /\ Len(<<e>> \o s) = 1 + Len(s)
           /\ (<<e>> \o s)[1] = e
           /\ \A i \in 1 .. Len(s) : (<<e>> \o s)[1 + i] = s[i]
<1>1. <<e>> \in Seq(S) /\ Len(<<e>>) = 1 /\ <<e>>[1] = e
  OBVIOUS
<1>2. PICK a : a = <<e>>
  OBVIOUS
<1>3. a \in Seq(S) /\ Len(a) = 1 /\ a[1] = e /\ 1 \in 1 .. 1
  BY <1>1, <1>2
<1>4. /\ a \o s \in Seq(S) /\ Len(a \o s) = Len(a) + Len(s)
      /\ \A i \in 1 .. Len(a) : (a \o s)[i] = a[i]
      /\ \A i \in 1 .. Len(s) : (a \o s)[Len(a) + i] = s[i]
  BY <1>3, ConcatIs
<1>5. (a \o s)[1] = e
  BY <1>3, <1>4
<1>6. QED
  BY <1>2, <1>3, <1>4, <1>5

LEMMA AppendBehind ==
    ASSUME NEW S, NEW a \in Seq(S), NEW b \in Seq(S), NEW e \in S
    PROVE  a \o Append(b, e) = Append(a \o b, e)
<1>1. <<e>> \in Seq(S) /\ a \o b \in Seq(S)
  OBVIOUS
<1>2. Append(b, e) = b \o <<e>> /\ Append(a \o b, e) = (a \o b) \o <<e>>
  BY <1>1, AppendIsConcat
<1>3. (a \o b) \o <<e>> = a \o (b \o <<e>>)
  BY <1>1, Associative
<1>4. QED
  BY <1>2, <1>3

AppendsBehind(S) ==
    \A a, b \in Seq(S) : \A e \in S : a \o Append(b, e) = Append(a \o b, e)

LEMMA AppendBehindAll == \A S : AppendsBehind(S)
  BY AppendBehind DEF AppendsBehind

\* What is taken up to the seam of a concatenation, and what that leaves.
LEMMA CutAtSeam ==
    ASSUME NEW S, NEW s \in Seq(S), NEW t \in Seq(S)
    PROVE  Take(Len(s), s \o t) = s /\ Drop(Len(s), s \o t) = t
<1> DEFINE w == s \o t
<1>0. w \in Seq(S) /\ Len(w) = Len(s) + Len(t) /\ Len(s) \in Nat /\ Len(t) \in Nat
  OBVIOUS
<1>1. PICK u : u = w
  OBVIOUS
<1>2. PICK n : n = Len(s)
  OBVIOUS
<1>a. u \in Seq(S) /\ n \in 0 .. Len(u) /\ Len(u) = n + Len(t)
  BY <1>0, <1>1, <1>2
<1>b. PICK a, b : a = Take(n, u) /\ b = Drop(n, u)
  OBVIOUS
<1>3. a \in Seq(S) /\ Len(a) = n /\ \A i \in 1 .. n : a[i] = u[i]
  BY <1>a, <1>b, TakeDrop
<1>4. b \in Seq(S) /\ Len(b) = Len(u) - n /\ \A i \in 1 .. Len(u) - n : b[i] = u[n + i]
  BY <1>a, <1>b, TakeDrop
<1>5. Len(b) = Len(t)
  BY <1>0, <1>2, <1>4, <1>a
<1>6. \A i \in 1 .. Len(s) : u[i] = s[i]
  BY <1>1
<1>7. \A i \in 1 .. Len(t) : u[Len(s) + i] = t[i]
  BY <1>1
<1>8. a = s
  <2>1. \A i \in 1 .. Len(s) : a[i] = s[i]
    BY <1>2, <1>3, <1>6
  <2>2. QED
    BY <1>2, <1>3, <2>1, SameElements
<1>9. b = t
  <2>1. \A i \in 1 .. Len(t) : b[i] = u[n + i]
    BY <1>4, <1>5
  <2>2. \A i \in 1 .. Len(t) : b[i] = t[i]
    BY <1>2, <1>7, <2>1
  <2>3. b \in Seq(S)
    BY <1>4
  <2>4. QED
    BY <1>5, <2>2, <2>3, SameElements
<1>10. QED
  BY <1>1, <1>2, <1>b, <1>8, <1>9

-----------------------------------------------------------------------------
(* FlattenSeq.                                                               *)

Flat(ss) ==
    CHOOSE g : g = [i \in 1 .. Len(ss) |->
                        IF i = 1 THEN ss[i] ELSE g[i - 1] \o ss[i]]

LEMMA FlattenIs ==
    ASSUME NEW ss
    PROVE  FlattenSeq(ss) = IF Len(ss) = 0 THEN ss ELSE Flat(ss)[Len(ss)]
  BY DEF FlattenSeq, Flat

\* The recursive function in its definition exists, and is typed.
LEMMA FlatIs ==
    ASSUME NEW S, NEW ss \in Seq(Seq(S))
    PROVE  /\ Flat(ss) \in [1 .. Len(ss) -> Seq(S)]
           /\ \A i \in 1 .. Len(ss) :
                Flat(ss)[i] = IF i = 1 THEN ss[i] ELSE Flat(ss)[i - 1] \o ss[i]
<1> DEFINE Step(g, i) == IF i = 1 THEN ss[i] ELSE g[i - 1] \o ss[i]
           Good(n, g) == g \in [1 .. n -> Seq(S)]
                         /\ \A i \in 1 .. n : g[i] = Step(g, i)
           Fine == {n \in 0 .. Len(ss) : \E g : Good(n, g)}
<1>1. /\ Len(ss) \in Nat /\ 0 \in 0 .. Len(ss)
      /\ \A i \in 1 .. Len(ss) : ss[i] \in Seq(S)
  OBVIOUS
<1>2. 0 \in Fine
  <2>1. Good(0, [i \in 1 .. 0 |-> <<>>])
    OBVIOUS
  <2>2. \E g : Good(0, g)
    BY <2>1
  <2>3. QED
    BY <1>1, <2>2
<1>3. ASSUME NEW n \in 0 .. Len(ss) - 1, n \in Fine PROVE n + 1 \in Fine
  <2>0. n \in Nat
    BY <1>1
  <2>1. PICK g : Good(n, g)
    BY <1>3
  <2>2. PICK e \in Seq(S) : e = Step(g, n + 1)
    <3>0. (n + 1) - 1 = n /\ (n # 0 => n + 1 # 1)
      BY <2>0
    <3>1. ss[n + 1] \in Seq(S)
      BY <1>1
    <3>2. CASE n = 0
      BY <3>1, <3>2
    <3>3. CASE n # 0
      <4>1. g[n] \in Seq(S)
        <5>1. n \in 1 .. n
          BY <1>1, <3>3
        <5>2. QED
          BY <2>1, <5>1
      <4>2. g[n] \o ss[n + 1] \in Seq(S)
        BY <3>1, <4>1
      <4>3. QED
        BY <3>0, <3>3, <4>2
    <3>4. QED
      BY <3>2, <3>3
  <2>3. PICK h : h = [i \in 1 .. n + 1 |-> IF i = n + 1 THEN e ELSE g[i]]
    OBVIOUS
  <2>4. h \in [1 .. n + 1 -> Seq(S)]
    BY <2>1, <2>2, <2>3
  <2>5. \A i \in 1 .. n + 1 : h[i] = Step(h, i)
    <3>1. \A i \in 1 .. n : h[i] = g[i]
      BY <2>3
    <3>2. ASSUME NEW i \in 1 .. n + 1 PROVE Step(h, i) = Step(g, i)
      <4>1. i # 1 => i - 1 \in 1 .. n
        BY <2>0
      <4>2. QED
        BY <3>1, <4>1
    <3>3. \A i \in 1 .. n : h[i] = Step(g, i)
      BY <2>1, <3>1
    <3>4. h[n + 1] = Step(g, n + 1)
      BY <2>2, <2>3
    <3>5. \A i \in 1 .. n + 1 : i \in 1 .. n \/ i = n + 1
      BY <1>1
    <3>6. \A i \in 1 .. n : Step(h, i) = Step(g, i)
      BY <1>1, <3>2
    <3>7. Step(h, n + 1) = Step(g, n + 1)
      BY <1>1, <3>2
    <3> HIDE DEF Step
    <3>8. QED
      BY <3>1, <3>3, <3>4, <3>5, <3>6, <3>7
  <2>6. n + 1 \in 0 .. Len(ss)
    BY <1>1, <2>0
  <2> HIDE DEF Step
  <2>7. Good(n + 1, h)
    BY <2>4, <2>5
  <2>8. QED
    BY <2>6, <2>7
<1>4. Len(ss) \in Fine
  <2>1. \A n \in 0 .. Len(ss) : n \in Fine
    <3> HIDE DEF Fine
    <3> QED
      BY <1>1, <1>2, <1>3, UpTo
  <2> HIDE DEF Fine
  <2>2. QED
    BY <1>1, <2>1
<1>5. PICK g : Good(Len(ss), g)
  BY <1>4
<1>6. g = [i \in 1 .. Len(ss) |-> Step(g, i)]
  BY <1>5
<1>7. Flat(ss) = [i \in 1 .. Len(ss) |-> Step(Flat(ss), i)]
  BY <1>6 DEF Flat
<1>8. \A i \in 1 .. Len(ss) : Flat(ss)[i] = Step(Flat(ss), i)
  BY <1>7
<1>9. \A i \in 1 .. Len(ss) : Flat(ss)[i] = g[i]
  <2> DEFINE Same == {n \in 0 .. Len(ss) : n # 0 => Flat(ss)[n] = g[n]}
  <2>1. 0 \in Same
    BY <1>1
  <2>2. ASSUME NEW n \in 0 .. Len(ss) - 1, n \in Same PROVE n + 1 \in Same
    <3>1. n + 1 \in 1 .. Len(ss)
      BY <1>1
    <3>2. Flat(ss)[n + 1] = Step(Flat(ss), n + 1) /\ g[n + 1] = Step(g, n + 1)
      BY <1>5, <1>8, <3>1
    <3>3. n # 0 => Flat(ss)[n] = g[n]
      BY <2>2
    <3>4. Step(Flat(ss), n + 1) = Step(g, n + 1)
      BY <3>3
    <3>5. QED
      BY <1>1, <3>2, <3>4
  <2>3. \A n \in 0 .. Len(ss) : n \in Same
    <3> HIDE DEF Same
    <3> QED
      BY <1>1, <2>1, <2>2, UpTo
  <2>4. QED
    BY <1>1, <2>3
<1>10. Flat(ss) \in [1 .. Len(ss) -> Seq(S)]
  <2>1. \A i \in 1 .. Len(ss) : Flat(ss)[i] \in Seq(S)
    BY <1>5, <1>9
  <2>2. PICK f : f = Flat(ss)
    OBVIOUS
  <2>3. f = [i \in 1 .. Len(ss) |-> f[i]]
    BY <1>7, <2>2
  <2>4. QED
    BY <2>1, <2>2, <2>3
<1>11. QED
  BY <1>8, <1>10

\* The concatenation of sequences is one.
LEMMA FlattenTyped ==
    ASSUME NEW S, NEW ss \in Seq(Seq(S))
    PROVE  FlattenSeq(ss) \in Seq(S)
<1>1. CASE Len(ss) = 0
  <2>1. ss = <<>> /\ FlattenSeq(ss) = ss
    BY <1>1, FlattenIs, EmptySeq
  <2>2. <<>> \in Seq(S)
    BY EmptySeq
  <2>3. QED
    BY <2>1, <2>2
<1>2. CASE Len(ss) # 0
  <2>1. Len(ss) \in 1 .. Len(ss)
    BY <1>2
  <2>2. QED
    BY <1>2, <2>1, FlatIs, FlattenIs
<1>3. QED
  BY <1>1, <1>2

LEMMA FlattenEmpty == FlattenSeq(<<>>) = <<>>
  BY FlattenIs

\* One more sequence comes last, ...
LEMMA FlattenAppend ==
    ASSUME NEW S, NEW ss \in Seq(Seq(S)), NEW e \in Seq(S)
    PROVE  FlattenSeq(Append(ss, e)) = FlattenSeq(ss) \o e
<1>1. PICK tt : tt = Append(ss, e)
  OBVIOUS
<1>2. PICK n : n = Len(ss)
  OBVIOUS
<1>3. /\ tt \in Seq(Seq(S)) /\ n \in Nat /\ Len(tt) = n + 1
      /\ tt[n + 1] = e /\ \A i \in 1 .. n : tt[i] = ss[i]
  BY <1>1, <1>2
<1>4. FlattenSeq(tt) = Flat(tt)[n + 1]
  <2>1. n + 1 # 0
    BY <1>3
  <2>2. QED
    BY <1>3, <2>1, FlattenIs
<1>5. \A i \in 1 .. n + 1 :
        Flat(tt)[i] = IF i = 1 THEN tt[i] ELSE Flat(tt)[i - 1] \o tt[i]
  BY <1>3, FlatIs
<1>6. \A i \in 1 .. n :
        Flat(ss)[i] = IF i = 1 THEN ss[i] ELSE Flat(ss)[i - 1] \o ss[i]
  BY <1>2, FlatIs
<1>7. n + 1 \in 1 .. n + 1 /\ (n + 1 = 1 <=> n = 0) /\ (n + 1) - 1 = n
  BY <1>3
<1>8. CASE n = 0
  <2>1. ss = <<>>
    BY <1>2, <1>8, EmptySeq
  <2>2. FlattenSeq(ss) = <<>>
    BY <2>1, FlattenEmpty
  <2>3. Flat(tt)[n + 1] = e
    BY <1>3, <1>5, <1>7, <1>8
  <2>4. <<>> \o e = e
    BY ConcatEmptySeq
  <2>5. QED
    BY <1>1, <1>4, <2>2, <2>3, <2>4
<1>9. CASE n # 0
  <2> DEFINE Same == {i \in 0 .. n : i # 0 => Flat(tt)[i] = Flat(ss)[i]}
  <2>1. 0 \in Same
    BY <1>3
  <2>2. ASSUME NEW i \in 0 .. n - 1, i \in Same PROVE i + 1 \in Same
    <3>1. /\ i + 1 \in 1 .. n /\ i + 1 \in 1 .. n + 1 /\ i + 1 \in 0 .. n
          /\ (i + 1 = 1 <=> i = 0) /\ (i + 1) - 1 = i
      <4>1. n \in Nat /\ i \in Nat /\ i <= n - 1
        BY <1>3
      <4>2. QED
        BY <4>1
    <3>2. tt[i + 1] = ss[i + 1]
      BY <1>3, <3>1
    <3>3. Flat(tt)[i + 1] = IF i = 0 THEN tt[i + 1] ELSE Flat(tt)[i] \o tt[i + 1]
      BY <1>5, <3>1
    <3>4. Flat(ss)[i + 1] = IF i = 0 THEN ss[i + 1] ELSE Flat(ss)[i] \o ss[i + 1]
      BY <1>6, <3>1
    <3>5. i # 0 => Flat(tt)[i] = Flat(ss)[i]
      BY <2>2
    <3>6. Flat(tt)[i + 1] = Flat(ss)[i + 1]
      BY <3>2, <3>3, <3>4, <3>5
    <3>7. QED
      BY <3>1, <3>6
  <2>3. \A i \in 0 .. n : i \in Same
    <3> HIDE DEF Same
    <3> QED
      BY <1>3, <2>1, <2>2, UpTo
  <2>4. n \in 0 .. n
    BY <1>3
  <2>5. Flat(tt)[n] = Flat(ss)[n]
    BY <1>9, <2>3, <2>4
  <2>6. Flat(tt)[n + 1] = Flat(tt)[n] \o e
    BY <1>3, <1>5, <1>7, <1>9
  <2>7. FlattenSeq(ss) = Flat(ss)[n]
    BY <1>2, <1>9, FlattenIs
  <2>8. QED
    BY <1>1, <1>4, <2>5, <2>6, <2>7
<1>10. QED
  BY <1>8, <1>9

\* ... and two rows of sequences one after the other.
LEMMA FlattenConcat ==
    ASSUME NEW S, NEW ss \in Seq(Seq(S)), NEW tt \in Seq(Seq(S))
    PROVE  FlattenSeq(ss \o tt) = FlattenSeq(ss) \o FlattenSeq(tt)
<1>0. Len(tt) \in Nat /\ 0 \in 0 .. Len(tt) /\ Len(tt) \in 0 .. Len(tt)
  OBVIOUS
<1>1. FlattenSeq(ss) \in Seq(S)
  BY FlattenTyped
<1>a. Regroups(S)
  BY Regroup
<1>b. AppendsBehind(Seq(S))
  BY AppendBehindAll
<1> DEFINE Fine == {n \in 0 .. Len(tt) :
                       FlattenSeq(ss \o Take(n, tt))
                         = FlattenSeq(ss) \o FlattenSeq(Take(n, tt))}
<1>2. 0 \in Fine
  <2>1. Take(0, tt) \in Seq(Seq(S)) /\ Len(Take(0, tt)) = 0
    BY <1>0, TakeDrop
  <2>2. Take(0, tt) = <<>>
    BY <2>1, EmptySeq
  <2>3. ss \o <<>> = ss /\ FlattenSeq(ss) \o <<>> = FlattenSeq(ss)
    BY <1>1, ConcatEmptySeq
  <2>4. FlattenSeq(ss \o Take(0, tt)) = FlattenSeq(ss) \o FlattenSeq(Take(0, tt))
    BY <2>2, <2>3, FlattenEmpty
  <2>5. QED
    BY <1>0, <2>4
<1>3. ASSUME NEW n \in 0 .. Len(tt) - 1, n \in Fine PROVE n + 1 \in Fine
  <2>1. n \in Nat /\ n \in 0 .. Len(tt) /\ n + 1 \in 0 .. Len(tt) /\ n + 1 \in 1 .. Len(tt)
    BY <1>0
  <2>2. PICK e : e = tt[n + 1]
    OBVIOUS
  <2>3. e \in Seq(S)
    BY <2>1, <2>2
  <2>4. PICK a, b : a = Take(n, tt) /\ b = Take(n + 1, tt)
    OBVIOUS
  <2>5. /\ a \in Seq(Seq(S)) /\ Len(a) = n
        /\ b \in Seq(Seq(S)) /\ Len(b) = n + 1
    BY <2>1, <2>4, TakeDrop
  <2>6. /\ \A i \in 1 .. n : a[i] = tt[i]
        /\ \A i \in 1 .. n + 1 : b[i] = tt[i]
    BY <2>1, <2>4, TakeDrop
  <2>7. PICK c : c = Append(a, e)
    OBVIOUS
  <2>8. /\ c \in Seq(Seq(S)) /\ Len(c) = n + 1 /\ c[n + 1] = e
        /\ \A i \in 1 .. n : c[i] = a[i]
    BY <2>3, <2>5, <2>7
  <2>9. \A i \in 1 .. n + 1 : b[i] = c[i]
    <3>1. TAKE i \in 1 .. n + 1
    <3>2. i \in 1 .. n \/ i = n + 1
      BY <2>1
    <3>3. QED
      BY <2>2, <2>6, <2>8, <3>2
  <2>10. b = c
    BY <2>5, <2>8, <2>9, SameElements
  <2>11. ss \o c = Append(ss \o a, e)
    BY <1>b, <2>3, <2>5, <2>7 DEF AppendsBehind
  <2>12. ss \o a \in Seq(Seq(S)) /\ FlattenSeq(a) \in Seq(S)
    BY <2>5, FlattenTyped
  <2>13. FlattenSeq(ss \o c) = FlattenSeq(ss \o a) \o e
    BY <2>3, <2>11, <2>12, FlattenAppend
  <2>14. FlattenSeq(c) = FlattenSeq(a) \o e
    BY <2>3, <2>5, <2>7, FlattenAppend
  <2>15. FlattenSeq(ss \o a) = FlattenSeq(ss) \o FlattenSeq(a)
    BY <1>3, <2>4
  <2>16. (FlattenSeq(ss) \o FlattenSeq(a)) \o e = FlattenSeq(ss) \o (FlattenSeq(a) \o e)
    <3>1. PICK f, g : f = FlattenSeq(ss) /\ g = FlattenSeq(a)
      OBVIOUS
    <3>2. f \in Seq(S) /\ g \in Seq(S)
      BY <1>1, <2>12, <3>1
    <3>3. (f \o g) \o e = f \o (g \o e)
      BY <1>a, <2>3, <3>2 DEF Regroups
    <3>4. QED
      BY <3>1, <3>3
  <2>17. FlattenSeq(ss \o b) = FlattenSeq(ss) \o FlattenSeq(b)
    BY <2>10, <2>13, <2>14, <2>15, <2>16
  <2>18. QED
    BY <2>1, <2>4, <2>17
<1>4. \A n \in 0 .. Len(tt) : n \in Fine
  <2> HIDE DEF Fine
  <2> QED
    BY <1>0, <1>2, <1>3, UpTo
<1>5. Take(Len(tt), tt) = tt
  BY SubSeqFull DEF Take
<1>6. Len(tt) \in Fine
  <2> HIDE DEF Fine
  <2> QED
    BY <1>0, <1>4
<1>7. QED
  BY <1>5, <1>6

\* One more is taken from the front of what was left.
LEMMA TakeOneMore ==
    ASSUME NEW S, NEW ss \in Seq(S), NEW n \in 0 .. Len(ss) - 1
    PROVE  /\ Take(n + 1, ss) = Append(Take(n, ss), ss[n + 1])
           /\ Drop(n, ss) = <<ss[n + 1]>> \o Drop(n + 1, ss)
<1>0. PICK k \in Nat : k = n /\ k \in 0 .. Len(ss) /\ k + 1 \in 0 .. Len(ss)
                       /\ k + 1 \in 1 .. Len(ss) /\ Len(ss) \in Nat
  OBVIOUS
<1>1. PICK e : e = ss[k + 1]
  OBVIOUS
<1>2. e \in S
  BY <1>0, <1>1
<1>3. PICK a, b, c, d : /\ a = Take(k, ss) /\ b = Take(k + 1, ss)
                        /\ c = Drop(k, ss) /\ d = Drop(k + 1, ss)
  OBVIOUS
<1>4. /\ a \in Seq(S) /\ b \in Seq(S) /\ c \in Seq(S) /\ d \in Seq(S)
      /\ Len(a) = k /\ Len(b) = k + 1
      /\ Len(c) = Len(ss) - k /\ Len(d) = Len(ss) - (k + 1)
  <2>1. /\ a \in Seq(S) /\ Len(a) = k
        /\ c \in Seq(S) /\ Len(c) = Len(ss) - k
    BY <1>0, <1>3, TakeDrop
  <2>2. PICK l : l = k + 1
    OBVIOUS
  <2>3. l \in 0 .. Len(ss) /\ b = Take(l, ss) /\ d = Drop(l, ss)
    BY <1>0, <1>3, <2>2
  <2>4. /\ b \in Seq(S) /\ Len(b) = l
        /\ d \in Seq(S) /\ Len(d) = Len(ss) - l
    BY <2>3, TakeDrop
  <2>5. QED
    BY <2>1, <2>2, <2>4
<1>5. /\ \A i \in 1 .. k : a[i] = ss[i]
      /\ \A i \in 1 .. k + 1 : b[i] = ss[i]
  BY <1>0, <1>3, TakeDrop
<1>6. /\ \A i \in 1 .. Len(ss) - k : c[i] = ss[k + i]
      /\ \A i \in 1 .. Len(ss) - (k + 1) : d[i] = ss[(k + 1) + i]
  BY <1>0, <1>3, TakeDrop
<1>7. b = Append(a, e)
  <2>1. PICK x : x = Append(a, e)
    OBVIOUS
  <2>2. x \in Seq(S) /\ Len(x) = Len(a) + 1
    BY <1>2, <1>4, <2>1, AppendTo
  <2>3. x[Len(a) + 1] = e /\ \A i \in 1 .. Len(a) : x[i] = a[i]
    BY <1>2, <1>4, <2>1, AppendTo
  <2>4. \A i \in 1 .. k + 1 : i \in 1 .. k \/ i = k + 1
    BY <1>0
  <2>5. \A i \in 1 .. k + 1 : b[i] = x[i]
    BY <1>1, <1>4, <1>5, <2>3, <2>4
  <2>6. QED
    BY <1>4, <2>1, <2>2, <2>5, SameElements
<1>8. c = <<e>> \o d
  <2>1. PICK x : x = <<e>> \o d
    OBVIOUS
  <2>2. x \in Seq(S) /\ Len(x) = 1 + Len(d)
    BY <1>2, <1>4, <2>1, PutBefore
  <2>3. x[1] = e /\ \A i \in 1 .. Len(d) : x[1 + i] = d[i]
    BY <1>2, <1>4, <2>1, PutBefore
  <2>4. Len(x) = Len(c)
    BY <1>0, <1>4, <2>2
  <2>5. \A i \in 1 .. Len(c) : c[i] = x[i]
    <3>1. TAKE i \in 1 .. Len(c)
    <3>2. CASE i = 1
      BY <1>0, <1>1, <1>4, <1>6, <2>3, <3>2
    <3>3. CASE i # 1
      <4>1. PICK j : j = i - 1
        OBVIOUS
      <4>2. j \in 1 .. Len(d) /\ j \in 1 .. Len(ss) - (k + 1) /\ i = 1 + j
            /\ i \in 1 .. Len(ss) - k /\ k + i = (k + 1) + j
        BY <1>0, <1>4, <3>3, <4>1
      <4>3. c[i] = ss[k + i] /\ d[j] = ss[(k + 1) + j] /\ x[1 + j] = d[j]
        BY <1>6, <2>3, <4>2
      <4>4. QED
        BY <4>2, <4>3
    <3>4. QED
      BY <3>2, <3>3
  <2>6. QED
    BY <1>4, <2>1, <2>2, <2>4, <2>5, SameElements
<1>9. QED
  BY <1>0, <1>1, <1>3, <1>7, <1>8

LEMMA FlattenFirst ==
    ASSUME NEW S, NEW ss \in Seq(Seq(S)), NEW n \in 0 .. Len(ss) - 1
    PROVE  /\ FlattenSeq(Drop(n, ss)) = ss[n + 1] \o FlattenSeq(Drop(n + 1, ss))
           /\ FlattenSeq(Take(n + 1, ss)) = FlattenSeq(Take(n, ss)) \o ss[n + 1]
<1>0. PICK k \in Nat : k = n /\ k \in 0 .. Len(ss) /\ k + 1 \in 0 .. Len(ss)
                       /\ k + 1 \in 1 .. Len(ss)
  OBVIOUS
<1>1. PICK e : e = ss[k + 1]
  OBVIOUS
<1>2. e \in Seq(S)
  BY <1>0, <1>1
<1>3. PICK a, b, c, d : /\ a = Take(k, ss) /\ b = Take(k + 1, ss)
                        /\ c = Drop(k, ss) /\ d = Drop(k + 1, ss)
  OBVIOUS
<1>4. a \in Seq(Seq(S)) /\ d \in Seq(Seq(S))
  BY <1>0, <1>3, TakeDrop
<1>5. b = Append(a, e) /\ c = <<e>> \o d
  BY <1>0, <1>1, <1>3, TakeOneMore
<1>6. FlattenSeq(b) = FlattenSeq(a) \o e
  BY <1>2, <1>4, <1>5, FlattenAppend
<1>7. FlattenSeq(<<e>>) = e
  <2>1. Append(<<>>, e) = <<e>> /\ <<>> \in Seq(Seq(S))
    OBVIOUS
  <2>2. FlattenSeq(Append(<<>>, e)) = FlattenSeq(<<>>) \o e
    BY <1>2, <2>1, FlattenAppend
  <2>3. <<>> \o e = e
    BY <1>2, ConcatEmptySeq
  <2>4. QED
    BY <2>1, <2>2, <2>3, FlattenEmpty
<1>8. FlattenSeq(c) = e \o FlattenSeq(d)
  <2>1. <<e>> \in Seq(Seq(S))
    BY <1>2
  <2>2. FlattenSeq(<<e>> \o d) = FlattenSeq(<<e>>) \o FlattenSeq(d)
    BY <1>4, <2>1, FlattenConcat
  <2>3. QED
    BY <1>5, <1>7, <2>2
<1>9. QED
  BY <1>0, <1>1, <1>3, <1>6, <1>8

\* Nothing is left of a row behind its end.
LEMMA DropAll ==
    ASSUME NEW S, NEW s \in Seq(S)
    PROVE  Drop(Len(s), s) = <<>> /\ Take(Len(s), s) = s /\ Drop(0, s) = s
<1>1. Len(s) \in Nat /\ Len(s) \in 0 .. Len(s)
  OBVIOUS
<1>2. Drop(Len(s), s) = <<>>
  <2>1. Drop(Len(s), s) \in Seq(S) /\ Len(Drop(Len(s), s)) = 0
    BY <1>1, TakeDrop
  <2>2. QED
    BY <2>1, EmptySeq
<1>3. Take(Len(s), s) = s
  BY SubSeqFull DEF Take
<1>4. Drop(0, s) = s
  BY SubSeqFull DEF Drop
<1>5. QED
  BY <1>2, <1>3, <1>4

\* What was taken of a row and what is left of it.
LEMMA FlattenCut ==
    ASSUME NEW S, NEW ss \in Seq(Seq(S)), NEW n \in 0 .. Len(ss)
    PROVE  FlattenSeq(ss) = FlattenSeq(Take(n, ss)) \o FlattenSeq(Drop(n, ss))
<1>1. PICK a, b : a = Take(n, ss) /\ b = Drop(n, ss)
  OBVIOUS
<1>2. a \in Seq(Seq(S)) /\ b \in Seq(Seq(S)) /\ ss = a \o b
  BY <1>1, TakeDrop, TakeAndDrop
<1>3. QED
  BY <1>1, <1>2, FlattenConcat

-----------------------------------------------------------------------------
(* Searching and cutting.                                                    *)

\* r is a followed by b.
Joins(r, a, b) == r = a \o b

LEMMA JoinIs ==
    ASSUME NEW S, NEW a \in Seq(S), NEW b \in Seq(S), NEW r, Joins(r, a, b)
    PROVE  /\ r \in Seq(S) /\ Len(r) = Len(a) + Len(b)
           /\ \A i \in 1 .. Len(a) : r[i] = a[i]
           /\ \A i \in 1 .. Len(b) : r[Len(a) + i] = b[i]
  BY ConcatIs DEF Joins

LEMMA JoinRight ==
    ASSUME NEW S, NEW a \in Seq(S), NEW b \in Seq(S), NEW x \in Seq(S),
           NEW s, Joins(s, a, b), NEW r, Joins(r, s, x)
    PROVE  \E y \in Seq(S) : Joins(y, b, x) /\ Joins(r, a, y)
<1>1. b \o x \in Seq(S) /\ r = a \o (b \o x)
  BY Regroup DEF Regroups, Joins
<1>2. QED
  BY <1>1 DEF Joins

LEMMA JoinLeft ==
    ASSUME NEW S, NEW a \in Seq(S), NEW b \in Seq(S), NEW x \in Seq(S),
           NEW y, Joins(y, b, x), NEW r, Joins(r, a, y)
    PROVE  \E s \in Seq(S) : Joins(s, a, b) /\ Joins(r, s, x)
<1>1. a \o b \in Seq(S)
  BY ConcatIs
<1>2. r = a \o (b \o x)
  BY DEF Joins
<1>3. (a \o b) \o x = a \o (b \o x)
  BY Associative
<1>4. QED
  BY <1>1, <1>2, <1>3 DEF Joins

LEMMA JoinSame ==
    ASSUME NEW S, NEW a \in Seq(S), NEW b \in Seq(S), NEW p \in Seq(S),
           NEW q \in Seq(S), NEW r, Joins(r, a, b), Joins(r, p, q), Len(a) = Len(p)
    PROVE  a = p /\ b = q
<1>1. Take(Len(a), r) = a /\ Drop(Len(a), r) = b
  BY CutAtSeam DEF Joins
<1>2. Take(Len(p), r) = p /\ Drop(Len(p), r) = q
  BY CutAtSeam DEF Joins
<1>3. QED
  BY <1>1, <1>2

LEMMA JoinCut ==
    ASSUME NEW S, NEW s \in Seq(S), NEW n \in 0 .. Len(s)
    PROVE  Joins(s, Take(n, s), Drop(n, s))
  BY TakeAndDrop DEF Joins

LEMMA JoinSeam ==
    ASSUME NEW S, NEW a \in Seq(S), NEW b \in Seq(S), NEW r, Joins(r, a, b)
    PROVE  Take(Len(a), r) = a /\ Drop(Len(a), r) = b
  BY CutAtSeam DEF Joins

LEMMA JoinNothing ==
    ASSUME NEW S, NEW a \in Seq(S), NEW r
    PROVE  (Joins(r, a, <<>>) \/ Joins(r, <<>>, a)) <=> r = a
  BY ConcatEmptySeq DEF Joins

\* Where a delimiter stands.
LEMMA StandsThere ==
    ASSUME NEW S, NEW s \in Seq(S), NEW d \in Seq(S), d # <<>>, NEW i \in Int
    PROVE  i \in Occurrences(d, s) <=>
             /\ i \in 1 .. (Len(s) - Len(d) + 1)
             /\ \A k \in 1 .. Len(d) : s[i - 1 + k] = d[k]
<1>1. Len(s) \in Nat /\ Len(d) \in Nat
  OBVIOUS
<1>2. SUFFICES ASSUME i \in 1 .. (Len(s) - Len(d) + 1)
               PROVE  SubSeq(s, i, i + Len(d) - 1) = d
                      <=> \A k \in 1 .. Len(d) : s[i - 1 + k] = d[k]
  BY DEF Occurrences
<1>3. PICK m : m = i + Len(d) - 1
  OBVIOUS
<1>4. /\ m \in Int /\ i \in Int /\ m - i + 1 = Len(d) /\ i >= 1 /\ m <= Len(s)
  BY <1>1, <1>2, <1>3
<1>5. PICK w : w = SubSeq(s, i, m)
  OBVIOUS
<1>6. w \in Seq(S) /\ Len(w) = Len(d) /\ \A k \in 1 .. Len(d) : w[k] = s[i - 1 + k]
  <2>1. \A j \in i .. m : s[j] \in S
    BY <1>4
  <2>2. w = [k \in 1 .. Len(d) |-> s[i + k - 1]]
    BY <1>1, <1>4, <1>5
  <2>3. \A k \in 1 .. Len(d) : i + k - 1 = i - 1 + k /\ i + k - 1 \in i .. m
    BY <1>1, <1>4
  <2>4. QED
    BY <1>1, <2>1, <2>2, <2>3
<1>7. (\A k \in 1 .. Len(d) : w[k] = d[k]) <=> w = d
  <2>1. (\A k \in 1 .. Len(d) : w[k] = d[k]) => w = d
    BY <1>6, SameElements
  <2>2. QED
    BY <2>1
<1>8. QED
  BY <1>3, <1>5, <1>6, <1>7

\* The first occurrence is one, and none is before it.
LEMMA FirstIs ==
    ASSUME NEW d, NEW s, Found(d, s)
    PROVE  /\ FirstOf(d, s) \in Occurrences(d, s)
           /\ \A j \in Occurrences(d, s) : FirstOf(d, s) <= j
<1>1. Occurrences(d, s) \in SUBSET Nat /\ Occurrences(d, s) # {}
  BY DEF Found, Occurrences
<1>2. \E i \in Occurrences(d, s) : \A j \in Occurrences(d, s) : i <= j
  BY <1>1, Least
<1>3. QED
  BY <1>2 DEF FirstOf

\* d occurs in h \o d behind h only.
Ends(h, d) == \A i \in 1 .. Len(h) : i \notin Occurrences(d, h \o d)

\* An occurrence in the first half of a concatenation is one of the whole.
LEMMA OccursInFirst ==
    ASSUME NEW S, NEW s \in Seq(S), NEW t \in Seq(S), NEW d \in Seq(S), d # <<>>,
           NEW i \in 1 .. (Len(s) - Len(d) + 1)
    PROVE  i \in Occurrences(d, s) <=> i \in Occurrences(d, s \o t)
<1>0. \A u \in Seq(S), j \in Int :
        j \in Occurrences(d, u) <=>
          /\ j \in 1 .. (Len(u) - Len(d) + 1)
          /\ \A k \in 1 .. Len(d) : u[j - 1 + k] = d[k]
  BY StandsThere
<1>1. PICK w : w = s \o t
  OBVIOUS
<1>2. /\ w \in Seq(S) /\ Len(w) = Len(s) + Len(t)
      /\ \A k \in 1 .. Len(s) : w[k] = s[k]
  BY <1>1, ConcatIs
<1>3. Len(s) \in Nat /\ Len(t) \in Nat /\ Len(d) \in Nat /\ i \in Int
  OBVIOUS
<1>4. i \in 1 .. (Len(w) - Len(d) + 1)
  BY <1>2, <1>3
<1>5. \A k \in 1 .. Len(d) : i - 1 + k \in 1 .. Len(s)
  BY <1>3
<1>6. \A k \in 1 .. Len(d) : w[i - 1 + k] = s[i - 1 + k]
  BY <1>2, <1>5
<1>7. i \in Occurrences(d, s) <=> \A k \in 1 .. Len(d) : s[i - 1 + k] = d[k]
  BY <1>3, StandsThere
<1>8. i \in Occurrences(d, w) <=> \A k \in 1 .. Len(d) : w[i - 1 + k] = d[k]
  BY <1>0, <1>2, <1>3, <1>4
<1>9. QED
  BY <1>1, <1>6, <1>7, <1>8

\* A delimiter occurs where it was put.
LEMMA OccursAtSeam ==
    ASSUME NEW S, NEW h \in Seq(S), NEW d \in Seq(S), d # <<>>
    PROVE  Len(h) + 1 \in Occurrences(d, h \o d)
<1>1. PICK w : w = h \o d
  OBVIOUS
<1>2. /\ w \in Seq(S) /\ Len(w) = Len(h) + Len(d)
      /\ \A k \in 1 .. Len(d) : w[Len(h) + k] = d[k]
  BY <1>1, ConcatIs
<1>3. PICK i \in Int : i = Len(h) + 1
  OBVIOUS
<1>4. Len(h) \in Nat /\ Len(d) \in Nat
  OBVIOUS
<1>5. i \in 1 .. (Len(w) - Len(d) + 1) /\ i - 1 = Len(h)
  BY <1>2, <1>3, <1>4
<1>6. \A k \in 1 .. Len(d) : w[i - 1 + k] = d[k]
  BY <1>2, <1>5
<1>7. QED
  BY <1>1, <1>2, <1>3, <1>5, <1>6, StandsThere

\* What is searched is a first part of what will come: a delimiter that is
\* found in it is the first of all that will come.
LEMMA FirstDelimiter ==
    ASSUME NEW S, NEW h \in Seq(S), NEW d \in Seq(S), d # <<>>, Ends(h, d),
           NEW q \in Seq(S), NEW buf \in Seq(S), NEW x \in Seq(S),
           NEW w, Joins(w, h, d), NEW r, Joins(r, w, q), Joins(r, buf, x)
    PROVE  /\ Found(d, buf) <=> Len(h) + Len(d) <= Len(buf)
           /\ Found(d, buf) => FirstOf(d, buf) = Len(h) + 1
<1>1. w = h \o d /\ r = w \o q /\ r = buf \o x
  BY DEF Joins
<1>2. w \in Seq(S) /\ Len(w) = Len(h) + Len(d)
  BY JoinIs
<1>3. r \in Seq(S)
  BY JoinIs
<1>5. Len(h) \in Nat /\ Len(d) \in Nat /\ Len(d) >= 1 /\ Len(buf) \in Nat
  <2>1. Len(d) # 0
    BY EmptySeq
  <2>2. QED
    BY <2>1
<1>6. ASSUME NEW i \in Occurrences(d, buf) PROVE i >= Len(h) + 1
  <2>1. i \in 1 .. (Len(buf) - Len(d) + 1) /\ i \in Int
    BY <1>5 DEF Occurrences
  <2>2. i \in Occurrences(d, r)
    BY <1>1, <2>1, OccursInFirst
  <2>3. SUFFICES ASSUME i \in 1 .. Len(h) PROVE FALSE
    BY <1>5, <2>1
  <2>4. i \in 1 .. (Len(w) - Len(d) + 1)
    BY <1>2, <1>5, <2>3
  <2>5. i \in Occurrences(d, w)
    BY <1>1, <1>2, <2>2, <2>4, OccursInFirst
  <2>6. QED
    BY <1>1, <2>3, <2>5 DEF Ends
<1>7. ASSUME Len(h) + Len(d) <= Len(buf) PROVE Len(h) + 1 \in Occurrences(d, buf)
  <2>1. PICK i : i = Len(h) + 1
    OBVIOUS
  <2>2. i \in Occurrences(d, w)
    BY <1>1, <2>1, OccursAtSeam
  <2>3. i \in 1 .. (Len(w) - Len(d) + 1)
    BY <1>2, <1>5, <2>1
  <2>4. i \in Occurrences(d, r)
    BY <1>1, <1>2, <2>2, <2>3, OccursInFirst
  <2>5. i \in 1 .. (Len(buf) - Len(d) + 1)
    BY <1>5, <1>7, <2>1
  <2>6. QED
    BY <1>1, <2>1, <2>4, <2>5, OccursInFirst
<1>8. ASSUME Found(d, buf) PROVE Len(h) + Len(d) <= Len(buf)
  <2>1. PICK i \in Occurrences(d, buf) : TRUE
    BY <1>8 DEF Found
  <2>2. i \in 1 .. (Len(buf) - Len(d) + 1)
    BY DEF Occurrences
  <2>3. QED
    BY <1>5, <1>6, <2>2
<1>9. ASSUME Found(d, buf) PROVE FirstOf(d, buf) = Len(h) + 1
  <2>1. /\ FirstOf(d, buf) \in Occurrences(d, buf)
        /\ \A j \in Occurrences(d, buf) : FirstOf(d, buf) <= j
    BY <1>9, FirstIs
  <2>2. FirstOf(d, buf) >= Len(h) + 1 /\ FirstOf(d, buf) <= Len(h) + 1
    BY <1>6, <1>7, <1>8, <1>9, <2>1
  <2>3. FirstOf(d, buf) \in Int
    BY <1>5, <2>1 DEF Occurrences
  <2>4. QED
    BY <1>5, <2>2, <2>3
<1>10. QED
  BY <1>7, <1>8, <1>9 DEF Found

\* read_until takes the text in front of the first delimiter.
LEMMA ReadUntil ==
    ASSUME NEW S, NEW h \in Seq(S), NEW d \in Seq(S), d # <<>>, Ends(h, d),
           NEW q \in Seq(S), NEW buf \in Seq(S), NEW x \in Seq(S),
           NEW w, Joins(w, h, d), NEW r, Joins(r, w, q), Joins(r, buf, x),
           Found(d, buf)
    PROVE  /\ Before(d, buf) = h
           /\ After(d, buf) \in Seq(S) /\ Joins(q, After(d, buf), x)
<1>1. FirstOf(d, buf) = Len(h) + 1 /\ Len(h) + Len(d) <= Len(buf)
  BY FirstDelimiter
<1>2. Len(h) \in Nat /\ Len(d) \in Nat /\ Len(buf) \in Nat
  OBVIOUS
<1>3. PICK n \in 0 .. Len(buf) : n = Len(h) + Len(d)
  BY <1>1, <1>2
<1>4. PICK a, b : a = Take(n, buf) /\ b = Drop(n, buf)
  OBVIOUS
<1>5. a \in Seq(S) /\ b \in Seq(S) /\ Len(a) = n
  BY <1>4, TakeDrop
<1>6. Joins(buf, a, b)
  BY <1>4, JoinCut
<1>7. w \in Seq(S) /\ Len(w) = n
  BY <1>3, JoinIs
<1>8. PICK y \in Seq(S) : Joins(y, b, x) /\ Joins(r, a, y)
  BY <1>5, <1>6, JoinRight
<1>9. a = w /\ y = q
  BY <1>5, <1>7, <1>8, JoinSame
<1>10. Take(Len(h), buf) = h
  <2>1. PICK z \in Seq(S) : Joins(z, d, b) /\ Joins(buf, h, z)
    BY <1>5, <1>6, <1>9, JoinRight
  <2>2. QED
    BY <2>1, JoinSeam
<1>11. After(d, buf) = b
  <2>1. Len(h) + 1 + Len(d) = n + 1
    BY <1>2, <1>3
  <2>2. QED
    BY <1>1, <1>4, <2>1 DEF After, Drop
<1>12. Before(d, buf) = Take(Len(h), buf)
  <2>1. Len(h) + 1 - 1 = Len(h)
    BY <1>2
  <2>2. QED
    BY <1>1, <2>1 DEF Before, Take
<1>13. QED
  BY <1>5, <1>8, <1>9, <1>10, <1>11, <1>12

-----------------------------------------------------------------------------
(* The text of a message in front of its empty line.                         *)

Field(message) ==
    IF message.framing = "length" THEN ContentLength(message) ELSE <<"chunked", 0>>

Text(message) ==
    IF message.framing = "none" THEN StartLine(message)
    ELSE (StartLine(message) \o CRLF) \o <<Field(message)>>

Kinds == {"CR", "LF", "byte", "start", "one word", "HTTP/1.1 no number",
          "Content-Length", "chunked", "hex"}

LEMMA KindsAre ==
    /\ "CR" \in Kinds /\ "LF" \in Kinds /\ "start" \in Kinds /\ "one word" \in Kinds
    /\ "HTTP/1.1 no number" \in Kinds /\ "Content-Length" \in Kinds
    /\ "chunked" \in Kinds /\ "hex" \in Kinds
  BY DEF Kinds

Pair(k, v) == <<k, v>>

LEMMA ByteIs ==
    ASSUME NEW k \in Kinds, NEW v \in Int
    PROVE  /\ Pair(k, v) \in Byte /\ Pair(k, v)[1] = k /\ Pair(k, v)[2] = v
           /\ k # "CR" => Pair(k, v) # CR
           /\ k # "LF" => Pair(k, v) # LF
<1>1. Pair(k, v) \in Byte
  BY DEF Byte, Kinds, Pair
<1>2. Pair(k, v)[1] = k /\ Pair(k, v)[2] = v
  BY DEF Pair
<1>3. CR[1] = "CR" /\ LF[1] = "LF"
  BY DEF CR, LF
<1>4. QED
  BY <1>1, <1>2, <1>3

LEMMA LineEnds == CR \in Byte /\ LF \in Byte /\ CR # LF
<1>1. CR = Pair("CR", 0) /\ LF = Pair("LF", 0) /\ "CR" # "LF" /\ 0 \in Int
  BY DEF CR, LF, Pair
<1>2. CR \in Byte /\ CR # LF
  BY <1>1, KindsAre, ByteIs
<1>3. LF \in Byte
  BY <1>1, KindsAre, ByteIs
<1>4. QED
  BY <1>2, <1>3

LEMMA PairTyped ==
    ASSUME NEW S, NEW a \in S, NEW b \in S
    PROVE  /\ <<a, b>> \in Seq(S) /\ <<a, b>> # <<>> /\ Len(<<a, b>>) = 2
           /\ <<a, b>>[1] = a /\ <<a, b>>[2] = b
  OBVIOUS

LEMMA CRLFTyped ==
    /\ CRLF \in Seq(Byte) /\ CRLF # <<>> /\ Len(CRLF) = 2
    /\ CRLF[1] = CR /\ CRLF[2] = LF
  BY LineEnds, PairTyped DEF CRLF

LEMMA TwoAndTwo ==
    ASSUME NEW S, NEW c \in Seq(S), NEW d \in Seq(S), NEW e, Joins(e, c, d)
    PROVE  Len(c) = 2 /\ Len(d) = 2 =>
             /\ e \in Seq(S) /\ e # <<>> /\ Len(e) = 4
             /\ e[1] = c[1] /\ e[2] = c[2] /\ e[3] = d[1] /\ e[4] = d[2]
<1>1. /\ e \in Seq(S) /\ Len(e) = Len(c) + Len(d)
      /\ \A i \in 1 .. Len(c) : e[i] = c[i]
      /\ \A i \in 1 .. Len(d) : e[Len(c) + i] = d[i]
  BY JoinIs
<1>2. Len(<<>>) = 0
  OBVIOUS
<1>3. ASSUME Len(c) = 2, Len(d) = 2
      PROVE  /\ Len(e) = 4 /\ e[2 + 1] = d[1] /\ e[2 + 2] = d[2]
             /\ e[1] = c[1] /\ e[2] = c[2]
  BY <1>1, <1>3
<1>4. QED
  BY <1>1, <1>2, <1>3

EmptyLine == CRLF \o CRLF

LEMMA EmptyLineTyped ==
    /\ EmptyLine \in Seq(Byte) /\ EmptyLine # <<>> /\ Len(EmptyLine) = 4
    /\ EmptyLine[1] = CR /\ EmptyLine[3] = CR
<1>1. Joins(EmptyLine, CRLF, CRLF)
  BY DEF Joins, EmptyLine
<1>2. QED
  BY <1>1, CRLFTyped, TwoAndTwo

LEMMA BodyTyped ==
    ASSUME NEW m \in Messages
    PROVE  m.chunks \in Seq(Seq(Byte)) /\ Body(m) \in Seq(Byte) /\ Len(Body(m)) \in Nat
<1>1. m.chunks \in Seq(Seq(Byte))
  BY MessagesAssumption DEF Message
<1>2. FlattenSeq(m.chunks) \in Seq(Byte)
  BY <1>1, FlattenTyped
<1>3. QED
  BY <1>1, <1>2 DEF Body

\* A start line is a byte, or nothing; it is no line end.
Parsed == {"fine", "length", "size"}

StartByte(m, s) ==
    /\ s \in Byte /\ s # CR /\ s # LF
    /\ s[1] \notin {"Content-Length", "chunked"}
    /\ m.defect \notin Parsed => s[1] \in {"one word", "HTTP/1.1 no number"}
    /\ m.defect \in Parsed => s = <<"start", m.id>> /\ s[1] = "start"

LEMMA StartLineIs ==
    ASSUME NEW m \in Messages
    PROVE  \/ StartLine(m) = <<>> /\ m.defect = "empty"
           \/ \E s : StartLine(m) = <<s>> /\ StartByte(m, s)
<1>1. m.id \in Int /\ m.defect \in Defects
  BY MessagesAssumption DEF Message
<1>2. CASE m.defect = "empty"
  BY <1>2 DEF StartLine
<1>3. CASE m.defect = "short"
  <2>1. PICK s : s = Pair("one word", m.id)
    OBVIOUS
  <2>2. s \in Byte /\ s # CR /\ s # LF /\ s[1] = "one word"
    BY <1>1, <2>1, KindsAre, ByteIs
  <2>3. StartLine(m) = <<s>>
    BY <1>3, <2>1 DEF StartLine, Pair
  <2>4. QED
    BY <1>3, <2>2, <2>3 DEF StartByte, Parsed
<1>4. CASE m.defect = "status"
  <2>1. PICK s : s = Pair("HTTP/1.1 no number", m.id)
    OBVIOUS
  <2>2. s \in Byte /\ s # CR /\ s # LF /\ s[1] = "HTTP/1.1 no number"
    BY <1>1, <2>1, KindsAre, ByteIs
  <2>3. StartLine(m) = <<s>>
    BY <1>4, <2>1 DEF StartLine, Pair
  <2>4. QED
    BY <1>4, <2>2, <2>3 DEF StartByte, Parsed
<1>5. CASE m.defect \in Parsed
  <2>1. PICK s : s = Pair("start", m.id)
    OBVIOUS
  <2>2. s \in Byte /\ s # CR /\ s # LF /\ s[1] = "start"
    BY <1>1, <2>1, KindsAre, ByteIs
  <2>3. StartLine(m) = <<s>>
    BY <1>5, <2>1 DEF StartLine, Pair, Parsed
  <2>4. QED
    BY <1>5, <2>1, <2>2, <2>3 DEF StartByte, Pair
<1>6. QED
  BY <1>1, <1>2, <1>3, <1>4, <1>5 DEF Defects, Parsed

\* So is the header of a message that has one.
LEMMA FieldIs ==
    ASSUME NEW m \in Messages
    PROVE  /\ Field(m) \in Byte /\ Field(m) # CR /\ Field(m) # LF
           /\ m.framing = "length" => /\ Field(m)[1] = "Content-Length"
                                      /\ Field(m)[2] = IF m.defect = "length" THEN -1
                                                       ELSE Len(Body(m))
           /\ m.framing # "length" => Field(m)[1] = "chunked"
<1>1. /\ (IF m.defect = "length" THEN -1 ELSE Len(Body(m))) \in Int
      /\ 0 \in Int
  BY BodyTyped
<1>2. CASE m.framing = "length"
  <2>1. PICK n : n = IF m.defect = "length" THEN -1 ELSE Len(Body(m))
    OBVIOUS
  <2>2. Field(m) = Pair("Content-Length", n)
    BY <1>2, <2>1 DEF Field, ContentLength, Pair
  <2>3. n \in Int
    BY <1>1, <2>1
  <2>4. PICK b : b = Pair("Content-Length", n)
    OBVIOUS
  <2>5. b \in Byte /\ b[1] = "Content-Length" /\ b[2] = n /\ b # CR /\ b # LF
    BY <2>3, <2>4, KindsAre, ByteIs
  <2>6. QED
    BY <1>2, <2>1, <2>2, <2>4, <2>5
<1>3. CASE m.framing # "length"
  <2>1. PICK b : b = Pair("chunked", 0)
    OBVIOUS
  <2>2. Field(m) = b
    BY <1>3, <2>1 DEF Field, Pair
  <2>3. b \in Byte /\ b[1] = "chunked" /\ b # CR /\ b # LF
    BY <1>1, <2>1, KindsAre, ByteIs
  <2>4. QED
    BY <1>3, <2>2, <2>3
<1>4. QED
  BY <1>2, <1>3

LEMMA JoinsNothing ==
    ASSUME NEW S, NEW a \in Seq(S)
    PROVE  Joins(a, a, <<>>) /\ Joins(a, <<>>, a)
  BY ConcatEmptySeq DEF Joins

\* It takes it also when it comes to its end.
LEMMA ReadToTheEnd ==
    ASSUME NEW S, NEW h \in Seq(S), NEW d \in Seq(S), d # <<>>, Ends(h, d),
           NEW q \in Seq(S), NEW w, Joins(w, h, d), NEW buf, Joins(buf, w, q)
    PROVE  Before(d, buf) = h
<1>1. w \in Seq(S) /\ Len(w) = Len(h) + Len(d)
  BY JoinIs
<1>2. buf \in Seq(S) /\ Len(buf) = Len(w) + Len(q)
  BY <1>1, JoinIs
<1>3. PICK x : x = <<>>
  OBVIOUS
<1>4. x \in Seq(S) /\ Joins(buf, buf, x)
  BY <1>2, <1>3, JoinsNothing, EmptySeq
<1>5. Len(h) + Len(d) <= Len(buf)
  BY <1>1, <1>2
<1>6. Found(d, buf)
  BY <1>2, <1>4, <1>5, FirstDelimiter
<1>7. QED
  BY <1>2, <1>4, <1>6, ReadUntil

\* One element that differs is enough.
LEMMA NotThere ==
    ASSUME NEW S, NEW s \in Seq(S), NEW d \in Seq(S), d # <<>>, NEW i \in Int,
           NEW k \in 1 .. Len(d), s[i - 1 + k] # d[k]
    PROVE  i \notin Occurrences(d, s)
  BY StandsThere

LEMMA EndsNone == \A d : Ends(<<>>, d)
  BY DEF Ends

LEMMA EndsOne ==
    ASSUME NEW S, NEW s \in S, NEW d \in Seq(S), d # <<>>, s # d[1]
    PROVE  Ends(<<s>>, d)
<1>1. PICK w : w = <<s>> \o d
  OBVIOUS
<1>2. w \in Seq(S) /\ w[1] = s
  BY <1>1, PutBefore
<1>3. 1 \in 1 .. Len(d) /\ 1 - 1 + 1 = 1
  <2>1. Len(d) \in Nat /\ Len(d) # 0
    BY EmptySeq
  <2>2. QED
    BY <2>1
<1>4. 1 \notin Occurrences(d, w)
  BY <1>2, <1>3, NotThere
<1>5. \A i \in 1 .. Len(<<s>>) : i = 1
  OBVIOUS
<1>6. QED
  BY <1>1, <1>4, <1>5 DEF Ends

\* The first part, a line end and one more.
LEMMA LineThenField ==
    ASSUME NEW S, NEW l \in Seq(S), NEW c \in Seq(S), NEW g \in Seq(S),
           NEW a, Joins(a, l, c), NEW t, Joins(t, a, g)
    PROVE  Len(c) = 2 /\ Len(g) = 1 =>
             /\ t \in Seq(S) /\ Len(t) = Len(l) + 3
             /\ \A i \in 1 .. Len(l) : t[i] = l[i]
             /\ t[Len(l) + 1] = c[1] /\ t[Len(l) + 2] = c[2] /\ t[Len(l) + 3] = g[1]
<1>0. a \in Seq(S)
  BY JoinIs
<1>1. /\ a \in Seq(S) /\ Len(a) = Len(l) + Len(c)
      /\ \A i \in 1 .. Len(l) : a[i] = l[i]
      /\ \A i \in 1 .. Len(c) : a[Len(l) + i] = c[i]
  BY JoinIs
<1>2. /\ t \in Seq(S) /\ Len(t) = Len(a) + Len(g)
      /\ \A i \in 1 .. Len(a) : t[i] = a[i]
      /\ \A i \in 1 .. Len(g) : t[Len(a) + i] = g[i]
  BY <1>0, JoinIs
<1>3. PICK n \in Nat : n = Len(l)
  OBVIOUS
<1>4. SUFFICES ASSUME Len(c) = 2, Len(g) = 1
               PROVE  /\ Len(t) = n + 3
                      /\ \A i \in 1 .. n : t[i] = l[i]
                      /\ t[n + 1] = c[1] /\ t[n + 2] = c[2] /\ t[n + 3] = g[1]
  BY <1>2, <1>3
<1>5. Len(a) = n + 2 /\ (n + 2) + 1 = n + 3
  BY <1>1, <1>3, <1>4
<1>6. Len(t) = n + 3 /\ t[n + 3] = g[1]
  BY <1>2, <1>4, <1>5
<1>7. a[n + 1] = c[1] /\ a[n + 2] = c[2]
  BY <1>1, <1>3, <1>4
<1>8. t[n + 1] = a[n + 1] /\ t[n + 2] = a[n + 2] /\ \A i \in 1 .. n : t[i] = a[i]
  BY <1>2, <1>5
<1>9. QED
  BY <1>1, <1>3, <1>6, <1>7, <1>8

LEMMA EndsField ==
    ASSUME NEW S, NEW t \in Seq(S), NEW n \in Nat, Len(t) = n + 3,
           NEW d \in Seq(S), Len(d) = 4, NEW cr, d[1] = cr, d[3] = cr,
           \A i \in 1 .. n : t[i] # cr,
           t[n + 2] # cr, t[n + 3] # cr
    PROVE  Ends(t, d)
<1>1. PICK u : u = t \o d
  OBVIOUS
<1>2. /\ u \in Seq(S)
      /\ \A i \in 1 .. Len(t) : u[i] = t[i]
  BY <1>1, ConcatIs
<1>3. d # <<>> /\ 1 \in 1 .. Len(d) /\ 3 \in 1 .. Len(d)
  <2>1. d # <<>>
    BY EmptySeq
  <2>2. QED
    BY <2>1
<1>4. ASSUME NEW i \in 1 .. Len(t) PROVE i \notin Occurrences(d, u)
  <2>1. i \in Int /\ i - 1 + 1 = i /\ (i = n + 1 => i - 1 + 3 = n + 3)
    OBVIOUS
  <2>2. CASE i = n + 1
    <3>1. u[n + 3] = t[n + 3]
      BY <1>2
    <3>2. u[i - 1 + 3] # d[3]
      BY <2>1, <2>2, <3>1
    <3>3. QED
      BY <1>2, <1>3, <2>1, <3>2, NotThere
  <2>3. CASE i # n + 1
    <3>1. i \in 1 .. n \/ i = n + 2 \/ i = n + 3
      BY <2>3
    <3>2. t[i] # cr
      BY <3>1
    <3>3. u[i - 1 + 1] # d[1]
      BY <1>2, <2>1, <3>2
    <3>4. QED
      BY <1>2, <1>3, <2>1, <3>3, NotThere
  <2>4. QED
    BY <2>2, <2>3
<1>5. QED
  BY <1>1, <1>4 DEF Ends

LEMMA SingleTyped ==
    ASSUME NEW S, NEW e \in S
    PROVE  <<e>> \in Seq(S) /\ Len(<<e>>) = 1 /\ <<e>>[1] = e
  OBVIOUS

LEMMA StartTyped ==
    ASSUME NEW m \in Messages
    PROVE  /\ StartLine(m) \in Seq(Byte) /\ Len(StartLine(m)) \in {0, 1}
           /\ \A i \in 1 .. Len(StartLine(m)) : StartByte(m, StartLine(m)[i])
           /\ StartLine(m) = <<>> => m.defect = "empty"
           /\ Len(StartLine(m)) = 0 <=> StartLine(m) = <<>>
<1>1. CASE StartLine(m) = <<>> /\ m.defect = "empty"
  BY <1>1
<1>2. CASE \E s : StartLine(m) = <<s>> /\ StartByte(m, s)
  <2>1. PICK s : StartLine(m) = <<s>> /\ StartByte(m, s)
    BY <1>2
  <2>2. s \in Byte
    BY <2>1 DEF StartByte
  <2>3. <<s>> \in Seq(Byte) /\ Len(<<s>>) = 1 /\ <<s>>[1] = s
    BY <2>2, SingleTyped
  <2>4. QED
    BY <2>1, <2>3
<1>3. QED
  BY <1>1, <1>2, StartLineIs

\* The text of a message with a header: its start line, a line end, the header.
LEMMA TextShape ==
    ASSUME NEW m \in Messages, m.framing # "none", NEW n \in Nat, n = Len(StartLine(m))
    PROVE  /\ Text(m) \in Seq(Byte) /\ Len(Text(m)) = n + 3
           /\ \A i \in 1 .. n : Text(m)[i] = StartLine(m)[i]
           /\ Text(m)[n + 1] = CR /\ Text(m)[n + 2] = LF
           /\ Text(m)[n + 3] = Field(m)
<1>1. PICK l, g, a, t : /\ l = StartLine(m) /\ g = <<Field(m)>>
                        /\ a = l \o CRLF /\ t = a \o g
  OBVIOUS
<1>2. l \in Seq(Byte) /\ n = Len(l)
  BY <1>1, StartTyped
<1>3. g \in Seq(Byte) /\ Len(g) = 1 /\ g[1] = Field(m)
  BY <1>1, FieldIs, SingleTyped
<1>4. Joins(a, l, CRLF) /\ Joins(t, a, g)
  BY <1>1 DEF Joins
<1>5. /\ t \in Seq(Byte) /\ Len(t) = Len(l) + 3
      /\ \A i \in 1 .. Len(l) : t[i] = l[i]
      /\ t[Len(l) + 1] = CR /\ t[Len(l) + 2] = LF /\ t[Len(l) + 3] = g[1]
  <2>1. PICK d : d = CRLF
    OBVIOUS
  <2>2. d \in Seq(Byte) /\ g \in Seq(Byte) /\ l \in Seq(Byte)
    BY <1>2, <1>3, <2>1, CRLFTyped
  <2>3. Joins(a, l, d) /\ Joins(t, a, g)
    BY <1>4, <2>1
  <2>4. Len(d) = 2 /\ Len(g) = 1 =>
          /\ t \in Seq(Byte) /\ Len(t) = Len(l) + 3
          /\ \A i \in 1 .. Len(l) : t[i] = l[i]
          /\ t[Len(l) + 1] = d[1] /\ t[Len(l) + 2] = d[2] /\ t[Len(l) + 3] = g[1]
    BY <2>2, <2>3, LineThenField
  <2>5. Len(d) = 2 /\ d[1] = CR /\ d[2] = LF
    BY <2>1, CRLFTyped
  <2>6. QED
    BY <1>3, <2>4, <2>5
<1>6. Text(m) = t
  BY <1>1 DEF Text
<1>7. QED
  BY <1>1, <1>2, <1>3, <1>5, <1>6

\* The first line of the text is the start line, its end the first line end.
LEMMA StartEnds == \A m \in Messages : Ends(StartLine(m), CRLF)
<1>1. TAKE m \in Messages
<1>2. CASE StartLine(m) = <<>>
  BY <1>2, EndsNone
<1>3. CASE \E s : StartLine(m) = <<s>> /\ StartByte(m, s)
  <2>1. PICK s : StartLine(m) = <<s>> /\ StartByte(m, s)
    BY <1>3
  <2>2. s \in Byte /\ s # CRLF[1]
    BY <2>1, CRLFTyped DEF StartByte
  <2>3. QED
    BY <2>1, <2>2, CRLFTyped, EndsOne
<1>4. QED
  BY <1>2, <1>3, StartLineIs

\* The empty line ends the text.
LEMMA TextEnds ==
    ASSUME NEW m \in Messages
    PROVE  Text(m) \in Seq(Byte) /\ Ends(Text(m), EmptyLine)
<1>1. CASE m.framing = "none"
  <2>1. Text(m) = StartLine(m)
    BY <1>1 DEF Text
  <2>2. CASE StartLine(m) = <<>>
    BY <2>1, <2>2, StartTyped, EndsNone
  <2>3. CASE \E s : StartLine(m) = <<s>> /\ StartByte(m, s)
    <3>1. PICK s : StartLine(m) = <<s>> /\ StartByte(m, s)
      BY <2>3
    <3>2. s \in Byte /\ s # EmptyLine[1]
      BY <3>1, EmptyLineTyped DEF StartByte
    <3>3. Ends(<<s>>, EmptyLine)
      BY <3>2, EmptyLineTyped, EndsOne
    <3>4. QED
      BY <2>1, <3>1, <3>3, StartTyped
  <2>4. QED
    BY <2>2, <2>3, StartLineIs
<1>2. CASE m.framing # "none"
  <2>1. PICK n \in Nat : n = Len(StartLine(m))
    BY StartTyped
  <2>2. /\ Text(m) \in Seq(Byte) /\ Len(Text(m)) = n + 3
        /\ \A i \in 1 .. n : Text(m)[i] = StartLine(m)[i]
        /\ Text(m)[n + 2] = LF /\ Text(m)[n + 3] = Field(m)
    <3>1. m.framing # "none"
      BY <1>2
    <3>2. n \in Nat /\ n = Len(StartLine(m))
      BY <2>1
    <3>3. QED
      BY <3>1, <3>2, TextShape
  <2>3. \A i \in 1 .. n : Text(m)[i] # CR
    <3>1. \A i \in 1 .. n : StartLine(m)[i] # CR
      BY <2>1, StartTyped DEF StartByte
    <3>2. QED
      BY <2>2, <3>1
  <2>4. PICK t : t = Text(m)
    OBVIOUS
  <2>5. /\ t \in Seq(Byte) /\ Len(t) = n + 3 /\ \A i \in 1 .. n : t[i] # CR
        /\ t[n + 2] # CR /\ t[n + 3] # CR
    BY <2>2, <2>3, <2>4, FieldIs, LineEnds
  <2>6. Ends(t, EmptyLine)
    BY <2>5, EmptyLineTyped, EndsField
  <2>7. QED
    BY <2>4, <2>5, <2>6
<1>3. QED
  BY <1>1, <1>2

LEMMA JoinMade == \A a, b : Joins(a \o b, a, b)
  BY DEF Joins

LEMMA JoinOne ==
    ASSUME NEW a, NEW b, NEW r, NEW s, Joins(r, a, b), Joins(s, a, b)
    PROVE  r = s
  BY DEF Joins

\* A message on the wire: its text, an empty line, its payload.
LEMMA BytesAre ==
    ASSUME NEW m \in Messages
    PROVE  \E w : Joins(w, Text(m), EmptyLine) /\ Joins(Bytes[m], w, Payload(m))
<1>1. PICK l : l = StartLine(m)
  OBVIOUS
<1>2. PICK lc : lc = l \o CRLF
  OBVIOUS
<1>3. PICK u : u = lc \o Header(m)
  OBVIOUS
<1>4. PICK w : w = u \o CRLF
  OBVIOUS
<1>5. Bytes[m] = w \o Payload(m)
  BY <1>1, <1>2, <1>3, <1>4 DEF Bytes
<1>6. Joins(lc, l, CRLF) /\ Joins(u, lc, Header(m)) /\ Joins(w, u, CRLF)
      /\ Joins(Bytes[m], w, Payload(m))
  BY <1>2, <1>3, <1>4, <1>5 DEF Joins
<1>7. l \in Seq(Byte) /\ CRLF \in Seq(Byte)
  BY <1>1, StartTyped, CRLFTyped
<1>8. lc \in Seq(Byte)
  BY <1>6, <1>7, JoinIs
<1>9. ASSUME NEW t \in Seq(Byte), Joins(u, t, CRLF)
      PROVE  Joins(w, t, EmptyLine)
  <2>1. PICK y \in Seq(Byte) : Joins(y, CRLF, CRLF) /\ Joins(w, t, y)
    BY <1>6, <1>7, <1>9, JoinRight
  <2>2. y = EmptyLine
    BY <2>1 DEF Joins, EmptyLine
  <2>3. QED
    BY <2>1, <2>2
<1>10. CASE m.framing = "none"
  <2>1. Header(m) = <<>>
    BY <1>10 DEF Header
  <2>2. u = lc
    BY <1>6, <1>8, <2>1, JoinNothing
  <2>3. Joins(w, l, EmptyLine)
    BY <1>6, <1>7, <1>9, <2>2
  <2>4. Text(m) = l
    BY <1>1, <1>10 DEF Text
  <2>5. QED
    BY <1>6, <2>3, <2>4
<1>11. CASE m.framing # "none"
  <2>1. PICK g : g = <<Field(m)>>
    OBVIOUS
  <2>2. g \in Seq(Byte)
    BY <2>1, FieldIs, SingleTyped
  <2>3. Header(m) = g \o CRLF
    <3>1. m.framing \in Framings
      BY MessagesAssumption DEF Message
    <3>2. QED
      BY <1>11, <2>1, <3>1 DEF Header, Field, Framings
  <2>4. Joins(Header(m), g, CRLF)
    BY <2>3 DEF Joins
  <2>5. PICK t \in Seq(Byte) : Joins(t, lc, g) /\ Joins(u, t, CRLF)
    BY <1>6, <1>7, <1>8, <2>2, <2>4, JoinLeft
  <2>6. t = Text(m)
    BY <1>1, <1>2, <1>11, <2>1, <2>5 DEF Text, Joins
  <2>7. QED
    BY <1>6, <1>9, <2>5, <2>6
<1>12. QED
  BY <1>10, <1>11

\* What the parser finds in the text: its first line and its header.
LEMMA FirstLineIs ==
    ASSUME NEW m \in Messages
    PROVE  FirstLine(Text(m)) = StartLine(m)
<1>1. PICK l : l = StartLine(m)
  OBVIOUS
<1>2. PICK w : w = l \o CRLF
  OBVIOUS
<1>3. PICK t : t = Text(m)
  OBVIOUS
<1>4. PICK buf : buf = t \o CRLF
  OBVIOUS
<1>5. /\ l \in Seq(Byte) /\ t \in Seq(Byte) /\ Ends(l, CRLF)
      /\ CRLF \in Seq(Byte) /\ CRLF # <<>> /\ <<>> \in Seq(Byte)
  BY <1>1, <1>3, StartTyped, TextEnds, StartEnds, CRLFTyped, EmptySeq
<1>6. Joins(w, l, CRLF) /\ Joins(buf, t, CRLF)
  BY <1>2, <1>4 DEF Joins
<1>7. w \in Seq(Byte) /\ buf \in Seq(Byte)
  BY <1>5, <1>6, JoinIs
<1>8. Joins(buf, buf, <<>>)
  BY <1>7, JoinsNothing
<1>9. \E q \in Seq(Byte) : Joins(buf, w, q)
  <2>1. CASE m.framing = "none"
    <3>1. t = l
      BY <1>1, <1>3, <2>1 DEF Text
    <3>2. buf = w
      BY <1>2, <1>4, <3>1
    <3>3. QED
      BY <1>5, <1>8, <3>2
  <2>2. CASE m.framing # "none"
    <3>1. PICK g : g = <<Field(m)>>
      OBVIOUS
    <3>2. g \in Seq(Byte)
      BY <3>1, FieldIs, SingleTyped
    <3>3. Joins(t, w, g)
      BY <1>1, <1>2, <1>3, <2>2, <3>1 DEF Text, Joins
    <3>4. QED
      BY <1>5, <1>6, <1>7, <3>2, <3>3, JoinRight
  <2>3. QED
    BY <2>1, <2>2
<1>10. PICK q \in Seq(Byte) : Joins(buf, w, q)
  BY <1>9
<1>12. Before(CRLF, buf) = l
  BY <1>5, <1>6, <1>10, ReadToTheEnd
<1>13. QED
  BY <1>1, <1>3, <1>4, <1>12 DEF FirstLine

LEMMA NoHeaders ==
    ASSUME NEW m \in Messages, NEW name \in {"Content-Length", "chunked"},
           m.framing = "none"
    PROVE  Headers(Text(m), name) = {}
<1>1. PICK l : l = StartLine(m) /\ l = Text(m)
  BY DEF Text
<1>2. \A i \in DOMAIN l : StartByte(m, l[i])
  <2>1. l \in Seq(Byte) /\ \A i \in 1 .. Len(l) : StartByte(m, l[i])
    BY <1>1, StartTyped
  <2>2. DOMAIN l = 1 .. Len(l)
    BY <2>1
  <2>3. QED
    BY <2>1, <2>2
<1>3. \A b \in Range(l) : b[1] # name
  BY <1>2 DEF Range, StartByte
<1>4. QED
  BY <1>1, <1>3 DEF Headers

LEMMA OneHeader ==
    ASSUME NEW m \in Messages, m.framing # "none"
    PROVE  LET name == Field(m)[1]
           IN  /\ Headers(Text(m), name) = {Field(m)}
               /\ \A other \in {"Content-Length", "chunked"} \ {name} :
                    Headers(Text(m), other) = {}
<1>1. PICK n \in Nat : n = Len(StartLine(m))
  BY StartTyped
<1>2. PICK t : t = Text(m)
  OBVIOUS
<1>3. /\ t \in Seq(Byte) /\ Len(t) = n + 3
      /\ \A i \in 1 .. n : StartByte(m, t[i])
      /\ t[n + 1] = CR /\ t[n + 2] = LF /\ t[n + 3] = Field(m)
  BY <1>1, <1>2, TextShape, StartTyped
<1>4. DOMAIN t = 1 .. n + 3
  BY <1>3
<1>5. \A i \in 1 .. n + 3 : i \in 1 .. n \/ i = n + 1 \/ i = n + 2 \/ i = n + 3
  OBVIOUS
<1>6. /\ Field(m) \in Range(t)
      /\ \A b \in Range(t) : StartByte(m, b) \/ b = CR \/ b = LF \/ b = Field(m)
  <2>1. n + 3 \in DOMAIN t
    BY <1>4
  <2>2. QED
    BY <1>3, <1>4, <1>5, <2>1 DEF Range
<1>7. Field(m)[1] \in {"Content-Length", "chunked"}
  BY FieldIs
<1>8. CR[1] \notin {"Content-Length", "chunked"} /\ LF[1] \notin {"Content-Length", "chunked"}
  BY DEF CR, LF
<1>9. \A b \in Range(t) : b[1] \in {"Content-Length", "chunked"} => b = Field(m)
  BY <1>6, <1>8 DEF StartByte
<1>10. QED
  BY <1>2, <1>6, <1>7, <1>9 DEF Headers

-----------------------------------------------------------------------------
(* The payload of a message.                                                 *)

AllChunks(m) == Append(m.chunks, <<>>)

ChunksLeft(m, j) == FlattenSeq(Drop(j, ChunksOnWire(m)))

BodySoFar(m, j) == FlattenSeq(Take(j, m.chunks))

LEMMA SizeIs ==
    ASSUME NEW m \in Messages, NEW n \in Nat
    PROVE  /\ ChunkSize(m, n) \in Byte /\ ChunkSize(m, n) # CR
           /\ ChunkSize(m, n)[1] = "hex"
           /\ ChunkSize(m, n)[2] = IF m.defect = "size" THEN -1 ELSE n
<1>1. PICK v : v = IF m.defect = "size" THEN -1 ELSE n
  OBVIOUS
<1>2. v \in Int /\ ChunkSize(m, n) = Pair("hex", v)
  BY <1>1 DEF ChunkSize, Pair
<1>3. PICK b : b = Pair("hex", v)
  OBVIOUS
<1>4. b \in Byte /\ b[1] = "hex" /\ b[2] = v /\ b # CR
  BY <1>2, <1>3, KindsAre, ByteIs
<1>5. QED
  BY <1>1, <1>2, <1>3, <1>4

\* A chunk on the wire: its size, a line end, its bytes, a line end.
LEMMA ChunkIs ==
    ASSUME NEW m \in Messages, NEW c \in Seq(Byte)
    PROVE  /\ Chunk(m, c) \in Seq(Byte)
           /\ \E w, z \in Seq(Byte) :
                /\ Joins(w, <<ChunkSize(m, Len(c))>>, CRLF)
                /\ Joins(z, c, CRLF) /\ Joins(Chunk(m, c), w, z)
<1>1. PICK h : h = <<ChunkSize(m, Len(c))>>
  OBVIOUS
<1>2. h \in Seq(Byte) /\ CRLF \in Seq(Byte)
  BY <1>1, SizeIs, SingleTyped, CRLFTyped
<1>3. PICK w, u : w = h \o CRLF /\ u = w \o c
  OBVIOUS
<1>4. Chunk(m, c) = u \o CRLF
  BY <1>1, <1>3 DEF Chunk
<1>5. Joins(w, h, CRLF) /\ Joins(u, w, c) /\ Joins(Chunk(m, c), u, CRLF)
  BY <1>3, <1>4 DEF Joins
<1>6. w \in Seq(Byte)
  BY <1>2, <1>5, JoinIs
<1>7. PICK z \in Seq(Byte) : Joins(z, c, CRLF) /\ Joins(Chunk(m, c), w, z)
  BY <1>2, <1>5, <1>6, JoinRight
<1>8. Chunk(m, c) \in Seq(Byte)
  BY <1>6, <1>7, JoinIs
<1>9. QED
  BY <1>1, <1>5, <1>6, <1>7, <1>8

LEMMA AllChunksAre ==
    ASSUME NEW m \in Messages
    PROVE  /\ Len(m.chunks) \in Nat
           /\ AllChunks(m) \in Seq(Seq(Byte)) /\ Len(AllChunks(m)) = Len(m.chunks) + 1
           /\ AllChunks(m)[Len(m.chunks) + 1] = <<>>
           /\ \A j \in 1 .. Len(m.chunks) : AllChunks(m)[j] = m.chunks[j]
<1>1. PICK cs : cs = m.chunks
  OBVIOUS
<1>2. cs \in Seq(Seq(Byte)) /\ Len(cs) \in Nat
  BY <1>1, BodyTyped
<1>3. PICK e : e = <<>>
  OBVIOUS
<1>4. e \in Seq(Byte)
  BY <1>3, EmptySeq
<1>5. QED
  BY <1>1, <1>2, <1>3, <1>4, AppendTo DEF AllChunks

LEMMA OnWireIs ==
    ASSUME NEW m \in Messages
    PROVE  /\ ChunksOnWire(m) \in Seq(Seq(Byte))
           /\ Len(ChunksOnWire(m)) = Len(m.chunks) + 1
           /\ \A j \in 1 .. Len(m.chunks) + 1 :
                ChunksOnWire(m)[j] = Chunk(m, AllChunks(m)[j])
<1>1. PICK n \in Nat : n = Len(m.chunks)
  BY AllChunksAre
<1>2. \A j \in 1 .. n + 1 : AllChunks(m)[j] \in Seq(Byte)
  BY <1>1, AllChunksAre
<1>3. DOMAIN AllChunks(m) = 1 .. n + 1
  BY <1>1, AllChunksAre
<1>4. ChunksOnWire(m) = [j \in 1 .. n + 1 |-> Chunk(m, AllChunks(m)[j])]
  BY <1>3 DEF ChunksOnWire, AllChunks
<1>5. \A j \in 1 .. n + 1 : Chunk(m, AllChunks(m)[j]) \in Seq(Byte)
  BY <1>2, ChunkIs
<1>6. ChunksOnWire(m) \in Seq(Seq(Byte)) /\ Len(ChunksOnWire(m)) = n + 1
  BY <1>4, <1>5
<1>7. QED
  BY <1>1, <1>4, <1>6

\* The next chunk comes first of the chunks that are left.
LEMMA ChunksLeftAre ==
    ASSUME NEW m \in Messages, NEW j \in 0 .. Len(m.chunks)
    PROVE  /\ AllChunks(m)[j + 1] \in Seq(Byte)
           /\ ChunksLeft(m, j) \in Seq(Byte) /\ ChunksLeft(m, j + 1) \in Seq(Byte)
           /\ Joins(ChunksLeft(m, j), Chunk(m, AllChunks(m)[j + 1]), ChunksLeft(m, j + 1))
<1>1. PICK ss : ss = ChunksOnWire(m)
  OBVIOUS
<1>2. ss \in Seq(Seq(Byte)) /\ Len(ss) = Len(m.chunks) + 1 /\ Len(m.chunks) \in Nat
  BY <1>1, OnWireIs, AllChunksAre
<1>3. /\ j \in 0 .. Len(ss) - 1 /\ j \in 0 .. Len(ss) /\ j + 1 \in 0 .. Len(ss)
      /\ j + 1 \in 1 .. Len(m.chunks) + 1
  BY <1>2
<1>4. Drop(j, ss) \in Seq(Seq(Byte)) /\ Drop(j + 1, ss) \in Seq(Seq(Byte))
  BY <1>2, <1>3, TakeDrop
<1>5. ChunksLeft(m, j) \in Seq(Byte) /\ ChunksLeft(m, j + 1) \in Seq(Byte)
  BY <1>1, <1>4, FlattenTyped DEF ChunksLeft
<1>6. ss[j + 1] = Chunk(m, AllChunks(m)[j + 1])
  BY <1>1, <1>3, OnWireIs
<1>7. FlattenSeq(Drop(j, ss)) = ss[j + 1] \o FlattenSeq(Drop(j + 1, ss))
  BY <1>2, <1>3, FlattenFirst
<1>8. AllChunks(m)[j + 1] \in Seq(Byte)
  <2>1. j + 1 \in 1 .. Len(AllChunks(m))
    BY <1>3, AllChunksAre
  <2>2. QED
    BY <2>1, AllChunksAre
<1>9. QED
  BY <1>1, <1>5, <1>6, <1>7, <1>8 DEF ChunksLeft, Joins

LEMMA AllChunksLeft ==
    ASSUME NEW m \in Messages
    PROVE  /\ ChunksLeft(m, Len(m.chunks) + 1) = <<>>
           /\ m.framing = "chunked" => ChunksLeft(m, 0) = Payload(m)
<1>1. PICK ss : ss = ChunksOnWire(m)
  OBVIOUS
<1>2. ss \in Seq(Seq(Byte)) /\ Len(ss) = Len(m.chunks) + 1
  BY <1>1, OnWireIs
<1>3. Drop(Len(ss), ss) = <<>> /\ Drop(0, ss) = ss
  BY <1>2, DropAll
<1>4. QED
  BY <1>1, <1>2, <1>3, FlattenEmpty DEF ChunksLeft, Payload

LEMMA BodyGrows ==
    ASSUME NEW m \in Messages
    PROVE  /\ BodySoFar(m, 0) = <<>> /\ BodySoFar(m, Len(m.chunks)) = Body(m)
           /\ \A j \in 0 .. Len(m.chunks) : BodySoFar(m, j) \in Seq(Byte)
           /\ \A j \in 0 .. Len(m.chunks) - 1 :
                BodySoFar(m, j + 1) = BodySoFar(m, j) \o m.chunks[j + 1]
<1>1. PICK cs : cs = m.chunks
  OBVIOUS
<1>2. cs \in Seq(Seq(Byte)) /\ Len(cs) \in Nat /\ 0 \in 0 .. Len(cs)
  BY <1>1, BodyTyped
<1>3. Take(0, cs) = <<>>
  <2>1. Take(0, cs) \in Seq(Seq(Byte)) /\ Len(Take(0, cs)) = 0
    BY <1>2, TakeDrop
  <2>2. QED
    BY <2>1, EmptySeq
<1>4. Take(Len(cs), cs) = cs
  BY <1>2, DropAll
<1>5. \A j \in 0 .. Len(cs) : FlattenSeq(Take(j, cs)) \in Seq(Byte)
  BY <1>2, TakeDrop, FlattenTyped
<1>6. \A j \in 0 .. Len(cs) - 1 :
        FlattenSeq(Take(j + 1, cs)) = FlattenSeq(Take(j, cs)) \o cs[j + 1]
  BY <1>2, FlattenFirst
<1>7. QED
  BY <1>1, <1>3, <1>4, <1>5, <1>6, FlattenEmpty DEF BodySoFar, Body

LEMMA PayloadTyped ==
    ASSUME NEW m \in Messages
    PROVE  Payload(m) \in Seq(Byte) /\ Bytes[m] \in Seq(Byte)
<1>1. Payload(m) \in Seq(Byte)
  <2>1. m.framing \in Framings /\ <<>> \in Seq(Byte)
    BY MessagesAssumption, EmptySeq DEF Message
  <2>2. CASE m.framing = "length"
    BY <2>2, BodyTyped DEF Payload
  <2>3. CASE m.framing = "chunked"
    BY <2>3, OnWireIs, FlattenTyped DEF Payload
  <2>4. CASE m.framing = "none"
    BY <2>1, <2>4 DEF Payload
  <2>5. QED
    BY <2>1, <2>2, <2>3, <2>4 DEF Framings
<1>2. PICK w : Joins(w, Text(m), EmptyLine) /\ Joins(Bytes[m], w, Payload(m))
  BY BytesAre
<1>3. w \in Seq(Byte)
  BY <1>2, TextEnds, EmptyLineTyped, JoinIs
<1>4. QED
  BY <1>1, <1>2, <1>3, JoinIs

-----------------------------------------------------------------------------
(* The bytes of several messages.                                            *)

OnWire(messages) == [i \in DOMAIN messages |-> Bytes[messages[i]]]

LEMMA OnWireTyped ==
    ASSUME NEW s \in Seq(Messages)
    PROVE  /\ OnWire(s) \in Seq(Seq(Byte)) /\ Len(OnWire(s)) = Len(s)
           /\ \A i \in 1 .. Len(s) : OnWire(s)[i] = Bytes[s[i]]
<1>1. PICK n \in Nat : n = Len(s)
  OBVIOUS
<1>2. DOMAIN s = 1 .. n /\ \A i \in 1 .. n : s[i] \in Messages
  BY <1>1
<1>3. \A i \in 1 .. n : Bytes[s[i]] \in Seq(Byte)
  BY <1>2, PayloadTyped
<1>4. OnWire(s) = [i \in 1 .. n |-> Bytes[s[i]]]
  BY <1>2 DEF OnWire
<1>5. OnWire(s) \in Seq(Seq(Byte)) /\ Len(OnWire(s)) = n
  BY <1>3, <1>4
<1>6. QED
  BY <1>1, <1>4, <1>5

LEMMA OnWireCut ==
    ASSUME NEW s \in Seq(Messages), NEW n \in 0 .. Len(s)
    PROVE  OnWire(Take(n, s)) = Take(n, OnWire(s)) /\ OnWire(Drop(n, s)) = Drop(n, OnWire(s))
<1>1. PICK a, b, w : a = Take(n, s) /\ b = Drop(n, s) /\ w = OnWire(s)
  OBVIOUS
<1>2. /\ a \in Seq(Messages) /\ Len(a) = n /\ b \in Seq(Messages) /\ Len(b) = Len(s) - n
  BY <1>1, TakeDrop
<1>3. /\ \A i \in 1 .. n : a[i] = s[i]
      /\ \A i \in 1 .. Len(s) - n : b[i] = s[n + i]
  BY <1>1, TakeDrop
<1>4. /\ w \in Seq(Seq(Byte)) /\ Len(w) = Len(s)
      /\ \A i \in 1 .. Len(s) : w[i] = Bytes[s[i]]
  BY <1>1, OnWireTyped
<1>5. PICK wa, wb : wa = Take(n, w) /\ wb = Drop(n, w)
  OBVIOUS
<1>6. /\ wa \in Seq(Seq(Byte)) /\ Len(wa) = n
      /\ wb \in Seq(Seq(Byte)) /\ Len(wb) = Len(s) - n
  BY <1>4, <1>5, TakeDrop
<1>7. /\ \A i \in 1 .. n : wa[i] = w[i]
      /\ \A i \in 1 .. Len(s) - n : wb[i] = w[n + i]
  <2>1. w \in Seq(Seq(Byte)) /\ n \in 0 .. Len(w)
    BY <1>4
  <2>2. /\ \A i \in 1 .. n : wa[i] = w[i]
        /\ \A i \in 1 .. Len(w) - n : wb[i] = w[n + i]
    BY <1>5, <2>1, TakeDrop
  <2>3. QED
    BY <1>4, <2>2
<1>8. PICK xa, xb : xa = OnWire(a) /\ xb = OnWire(b)
  OBVIOUS
<1>9. /\ xa \in Seq(Seq(Byte)) /\ Len(xa) = n /\ xb \in Seq(Seq(Byte)) /\ Len(xb) = Len(s) - n
      /\ \A i \in 1 .. n : xa[i] = Bytes[a[i]]
      /\ \A i \in 1 .. Len(s) - n : xb[i] = Bytes[b[i]]
  BY <1>2, <1>8, OnWireTyped
<1>10. /\ \A i \in 1 .. n : i \in 1 .. Len(s)
       /\ \A i \in 1 .. Len(s) - n : n + i \in 1 .. Len(s)
  OBVIOUS
<1>11. ASSUME NEW i \in 1 .. n PROVE xa[i] = wa[i]
  <2>1. xa[i] = Bytes[a[i]] /\ a[i] = s[i] /\ wa[i] = w[i]
    BY <1>3, <1>7, <1>9
  <2>2. w[i] = Bytes[s[i]]
    BY <1>4, <1>10
  <2>3. QED
    BY <2>1, <2>2, Zenon
<1>12. ASSUME NEW i \in 1 .. Len(s) - n PROVE xb[i] = wb[i]
  <2>1. xb[i] = Bytes[b[i]] /\ b[i] = s[n + i] /\ wb[i] = w[n + i]
    BY <1>3, <1>7, <1>9
  <2>2. w[n + i] = Bytes[s[n + i]]
    BY <1>4, <1>10
  <2>3. QED
    BY <2>1, <2>2, Zenon
<1>13. xa = wa
  BY <1>6, <1>9, <1>11, SameElements
<1>14. xb = wb
  BY <1>6, <1>9, <1>12, SameElements
<1>15. QED
  BY <1>1, <1>5, <1>8, <1>13, <1>14

LEMMA AllBytesTyped ==
    ASSUME NEW s \in Seq(Messages)
    PROVE  AllBytes(s) \in Seq(Byte) /\ AllBytes(s) = FlattenSeq(OnWire(s))
<1>1. AllBytes(s) = FlattenSeq(OnWire(s))
  BY DEF AllBytes, OnWire
<1>2. QED
  BY <1>1, OnWireTyped, FlattenTyped

\* The bytes of the messages behind the first n.
Rest(n, s) == AllBytes(Drop(n, s))

LEMMA RestIs ==
    ASSUME NEW s \in Seq(Messages)
    PROVE  /\ \A n \in 0 .. Len(s) : Rest(n, s) \in Seq(Byte)
           /\ Rest(0, s) = AllBytes(s)
           /\ Rest(Len(s), s) = <<>>
           /\ \A n \in 0 .. Len(s) - 1 :
                Joins(Rest(n, s), Bytes[s[n + 1]], Rest(n + 1, s))
<1>1. PICK w : w = OnWire(s)
  OBVIOUS
<1>2. w \in Seq(Seq(Byte)) /\ Len(w) = Len(s) /\ Len(s) \in Nat
  BY <1>1, OnWireTyped
<1>3. ASSUME NEW n \in 0 .. Len(s)
      PROVE  Rest(n, s) \in Seq(Byte) /\ Rest(n, s) = FlattenSeq(Drop(n, w))
  <2>1. Drop(n, s) \in Seq(Messages)
    BY TakeDrop
  <2>2. QED
    BY <1>1, <2>1, OnWireCut, AllBytesTyped DEF Rest
<1>4. Rest(0, s) = AllBytes(s)
  BY DropAll DEF Rest
<1>5. Rest(Len(s), s) = <<>>
  <2>1. Drop(Len(w), w) = <<>> /\ Len(s) \in 0 .. Len(s)
    BY <1>2, DropAll
  <2>2. QED
    BY <1>2, <1>3, <2>1, FlattenEmpty
<1>6. ASSUME NEW n \in 0 .. Len(s) - 1
      PROVE  Joins(Rest(n, s), Bytes[s[n + 1]], Rest(n + 1, s))
  <2>1. /\ n \in 0 .. Len(s) /\ n + 1 \in 0 .. Len(s) /\ n \in 0 .. Len(w) - 1
        /\ n + 1 \in 1 .. Len(s)
    BY <1>2
  <2>2. FlattenSeq(Drop(n, w)) = w[n + 1] \o FlattenSeq(Drop(n + 1, w))
    BY <1>2, <2>1, FlattenFirst
  <2>3. w[n + 1] = Bytes[s[n + 1]]
    BY <1>1, <2>1, OnWireTyped
  <2>4. QED
    BY <1>3, <2>1, <2>2, <2>3 DEF Joins
<1>7. QED
  BY <1>3, <1>4, <1>5, <1>6

\* The first n messages and those behind them.
LEMMA BytesCut ==
    ASSUME NEW s \in Seq(Messages), NEW n \in 0 .. Len(s)
    PROVE  Len(AllBytes(s)) = Len(AllBytes(Take(n, s))) + Len(Rest(n, s))
<1>1. PICK w : w = OnWire(s)
  OBVIOUS
<1>2. w \in Seq(Seq(Byte)) /\ Len(w) = Len(s)
  BY <1>1, OnWireTyped
<1>3. Take(n, s) \in Seq(Messages) /\ Drop(n, s) \in Seq(Messages)
  BY TakeDrop
<1>4. PICK a, b : a = AllBytes(Take(n, s)) /\ b = Rest(n, s)
  OBVIOUS
<1>5. a \in Seq(Byte) /\ b \in Seq(Byte)
  BY <1>3, <1>4, AllBytesTyped DEF Rest
<1>6. a = FlattenSeq(Take(n, w)) /\ b = FlattenSeq(Drop(n, w))
  BY <1>1, <1>3, <1>4, OnWireCut, AllBytesTyped DEF Rest
<1>7. Joins(AllBytes(s), a, b)
  BY <1>1, <1>2, <1>6, FlattenCut, AllBytesTyped DEF Joins
<1>8. QED
  BY <1>4, <1>5, <1>7, JoinIs

\* What is behind more messages is not longer.
LEMMA RestShrinks ==
    ASSUME NEW s \in Seq(Messages), NEW a \in 0 .. Len(s), NEW b \in a .. Len(s)
    PROVE  Len(Rest(b, s)) <= Len(Rest(a, s))
<1> DEFINE Fine == {n \in 0 .. Len(s) : a <= n => Len(Rest(n, s)) <= Len(Rest(a, s))}
<1>0. Len(s) \in Nat /\ 0 \in 0 .. Len(s) /\ b \in 0 .. Len(s) /\ a <= b
  OBVIOUS
<1>1. \A n \in 0 .. Len(s) : Len(Rest(n, s)) \in Nat
  BY RestIs
<1>2. 0 \in Fine
  <2>1. a <= 0 => a = 0
    OBVIOUS
  <2>2. QED
    BY <1>0, <1>1, <2>1
<1>3. ASSUME NEW n \in 0 .. Len(s) - 1, n \in Fine PROVE n + 1 \in Fine
  <2>1. n \in 0 .. Len(s) /\ n + 1 \in 0 .. Len(s) /\ n + 1 \in 1 .. Len(s)
    BY <1>0
  <2>2. PICK x, y, z : x = Rest(n, s) /\ y = Bytes[s[n + 1]] /\ z = Rest(n + 1, s)
    OBVIOUS
  <2>3. Joins(x, y, z)
    BY <2>2, RestIs
  <2>4. y \in Seq(Byte) /\ z \in Seq(Byte)
    <3>1. s[n + 1] \in Messages
      BY <2>1
    <3>2. QED
      BY <2>1, <2>2, <3>1, RestIs, PayloadTyped
  <2>5. Len(x) = Len(y) + Len(z)
    BY <2>3, <2>4, JoinIs
  <2>6. Len(Rest(n + 1, s)) <= Len(Rest(n, s))
    <3>1. Len(y) \in Nat /\ Len(z) \in Nat
      BY <2>4
    <3>2. Len(z) <= Len(x)
      BY <2>5, <3>1
    <3>3. QED
      BY <2>2, <3>2
  <2>7. a <= n \/ a = n + 1 \/ ~ a <= n + 1
    BY <2>1
  <2>8. a <= n + 1 => Len(Rest(n + 1, s)) <= Len(Rest(a, s))
    BY <1>1, <1>3, <2>1, <2>6, <2>7
  <2>9. QED
    BY <2>1, <2>8
<1>4. \A n \in 0 .. Len(s) : n \in Fine
  <2> HIDE DEF Fine
  <2> QED
    BY <1>0, <1>2, <1>3, UpTo
<1>5. QED
  BY <1>0, <1>4

-----------------------------------------------------------------------------
(* What is received, what is on its way and what is not: buf, w and t.       *)

Held(buf, w, t, r) == \E x \in Seq(Byte) : Joins(x, w, t) /\ Joins(r, buf, x)

LEMMA HeldIs ==
    ASSUME NEW buf \in Seq(Byte), NEW w \in Seq(Byte), NEW t \in Seq(Byte), NEW r,
           Held(buf, w, t, r)
    PROVE  r \in Seq(Byte) /\ Len(r) = Len(buf) + Len(w) + Len(t)
<1>1. PICK x \in Seq(Byte) : Joins(x, w, t) /\ Joins(r, buf, x)
  BY DEF Held
<1>2. Len(x) = Len(w) + Len(t)
  BY <1>1, JoinIs
<1>3. r \in Seq(Byte) /\ Len(r) = Len(buf) + Len(x)
  BY <1>1, JoinIs
<1>4. Len(buf) \in Nat /\ Len(w) \in Nat /\ Len(t) \in Nat
  OBVIOUS
<1>5. QED
  BY <1>2, <1>3, <1>4

\* What is consumed is what comes first.
LEMMA HeldConsumed ==
    ASSUME NEW buf \in Seq(Byte), NEW w \in Seq(Byte), NEW t \in Seq(Byte), NEW r,
           Held(buf, w, t, r), NEW p \in Seq(Byte), NEW q \in Seq(Byte), Joins(r, p, q),
           Len(p) <= Len(buf)
    PROVE  /\ Take(Len(p), buf) = p /\ Drop(Len(p), buf) \in Seq(Byte)
           /\ Held(Drop(Len(p), buf), w, t, q)
<1>1. PICK x \in Seq(Byte) : Joins(x, w, t) /\ Joins(r, buf, x)
  BY DEF Held
<1>2. Len(p) \in 0 .. Len(buf)
  OBVIOUS
<1>3. PICK b, c : b = Take(Len(p), buf) /\ c = Drop(Len(p), buf)
  OBVIOUS
<1>4. b \in Seq(Byte) /\ Len(b) = Len(p)
  BY <1>2, <1>3, TakeDrop
<1>5. c \in Seq(Byte)
  BY <1>2, <1>3, TakeDrop
<1>6. Joins(buf, b, c)
  BY <1>2, <1>3, JoinCut
<1>7. PICK y \in Seq(Byte) : Joins(y, c, x) /\ Joins(r, b, y)
  BY <1>1, <1>4, <1>5, <1>6, JoinRight
<1>8. b = p /\ y = q
  BY <1>4, <1>7, JoinSame
<1>9. Held(c, w, t, q)
  BY <1>1, <1>7, <1>8 DEF Held
<1>10. QED
  BY <1>3, <1>5, <1>8, <1>9

LEMMA HeldReadUntil ==
    ASSUME NEW buf \in Seq(Byte), NEW w \in Seq(Byte), NEW t \in Seq(Byte), NEW r,
           Held(buf, w, t, r), NEW h \in Seq(Byte), NEW d \in Seq(Byte), d # <<>>,
           Ends(h, d), NEW q \in Seq(Byte), NEW z, Joins(z, h, d), Joins(r, z, q)
    PROVE  /\ Found(d, buf) <=> Len(h) + Len(d) <= Len(buf)
           /\ Found(d, buf) => /\ Before(d, buf) = h /\ After(d, buf) \in Seq(Byte)
                               /\ Held(After(d, buf), w, t, q)
<1>1. PICK x \in Seq(Byte) : Joins(x, w, t) /\ Joins(r, buf, x)
  BY DEF Held
<1>2. Found(d, buf) <=> Len(h) + Len(d) <= Len(buf)
  BY <1>1, FirstDelimiter
<1>3. ASSUME Found(d, buf)
      PROVE  /\ Before(d, buf) = h /\ After(d, buf) \in Seq(Byte)
             /\ Joins(q, After(d, buf), x)
  BY <1>1, <1>3, ReadUntil
<1>4. QED
  BY <1>1, <1>2, <1>3 DEF Held

\* Bytes of the network are received.
LEMMA HeldReceived ==
    ASSUME NEW buf \in Seq(Byte), NEW w \in Seq(Byte), NEW t \in Seq(Byte), NEW r,
           Held(buf, w, t, r), NEW k \in 0 .. Len(w)
    PROVE  /\ buf \o Take(k, w) \in Seq(Byte) /\ Drop(k, w) \in Seq(Byte)
           /\ Held(buf \o Take(k, w), Drop(k, w), t, r)
<1>1. PICK x \in Seq(Byte) : Joins(x, w, t) /\ Joins(r, buf, x)
  BY DEF Held
<1>2. PICK b, c : b = Take(k, w) /\ c = Drop(k, w)
  OBVIOUS
<1>3. b \in Seq(Byte) /\ c \in Seq(Byte)
  BY <1>2, TakeDrop
<1>4. Joins(w, b, c)
  BY <1>2, JoinCut
<1>5. PICK y \in Seq(Byte) : Joins(y, c, t) /\ Joins(x, b, y)
  BY <1>1, <1>3, <1>4, JoinRight
<1>6. PICK s \in Seq(Byte) : Joins(s, buf, b) /\ Joins(r, s, y)
  BY <1>1, <1>3, <1>5, JoinLeft
<1>7. s = buf \o b
  BY <1>6, JoinMade, JoinOne
<1>8. Held(s, c, t, r)
  BY <1>5, <1>6 DEF Held
<1>9. QED
  BY <1>2, <1>3, <1>6, <1>7, <1>8

\* Bytes are written.
LEMMA HeldWritten ==
    ASSUME NEW buf \in Seq(Byte), NEW w \in Seq(Byte), NEW t \in Seq(Byte), NEW r,
           Held(buf, w, t, r), NEW b \in Seq(Byte), NEW c \in Seq(Byte), Joins(t, b, c)
    PROVE  w \o b \in Seq(Byte) /\ Held(buf, w \o b, c, r)
<1>1. PICK x \in Seq(Byte) : Joins(x, w, t) /\ Joins(r, buf, x)
  BY DEF Held
<1>2. PICK s \in Seq(Byte) : Joins(s, w, b) /\ Joins(x, s, c)
  BY <1>1, JoinLeft
<1>3. s = w \o b
  BY <1>2 DEF Joins
<1>4. Held(buf, s, c, r)
  BY <1>1, <1>2 DEF Held
<1>5. QED
  BY <1>2, <1>3, <1>4

\* The last bytes of the network are lost.
LEMMA HeldLost ==
    ASSUME NEW buf \in Seq(Byte), NEW w \in Seq(Byte), NEW t \in Seq(Byte), NEW r,
           Held(buf, w, t, r), NEW k \in 0 .. Len(w)
    PROVE  /\ Take(k, w) \in Seq(Byte)
           /\ \E u \in Seq(Byte) : Len(u) = Len(t) + (Len(w) - k) /\ Held(buf, Take(k, w), u, r)
<1>1. PICK x \in Seq(Byte) : Joins(x, w, t) /\ Joins(r, buf, x)
  BY DEF Held
<1>2. PICK b, c : b = Take(k, w) /\ c = Drop(k, w)
  OBVIOUS
<1>3. b \in Seq(Byte) /\ c \in Seq(Byte) /\ Len(c) = Len(w) - k
  BY <1>2, TakeDrop
<1>4. Joins(w, b, c)
  BY <1>2, JoinCut
<1>5. PICK y \in Seq(Byte) : Joins(y, c, t) /\ Joins(x, b, y)
  BY <1>1, <1>3, <1>4, JoinRight
<1>6. Len(y) = Len(c) + Len(t)
  <2>1. c \in Seq(Byte)
    BY <1>3
  <2>2. Joins(y, c, t)
    BY <1>5
  <2>3. QED
    BY <2>1, <2>2, JoinIs
<1>7. Len(t) \in Nat /\ Len(w) - k \in Nat
  OBVIOUS
<1>8. Len(y) = Len(t) + (Len(w) - k)
  BY <1>3, <1>6, <1>7
<1>9. Held(buf, b, y, r)
  BY <1>1, <1>5 DEF Held
<1>10. QED
  BY <1>2, <1>3, <1>8, <1>9

-----------------------------------------------------------------------------
(* Where the stream stands.                                                  *)

Operation ==
    [await : {"nothing", "headers", "body", "size", "chunk"}, n : Nat, from : {0},
     done : {"no", "matched", "eof", "aborted"}]

Replies == [start : Byte \union {<<>>}, body : Seq(Byte)]

\* What the peer has not written, or what its death took away.
Missing(t) ==
    IF peer = "open" THEN lost = 0 /\ t = Unwritten
    ELSE Len(t) = lost /\ Len(Unwritten) <= lost

Stands(buf, r) == \E t \in Seq(Byte) : Missing(t) /\ Held(buf, wire, t, r)

Current == sent[Len(delivered) + 1]
Behind == Rest(Len(delivered) + 1, sent)

\* The bytes the read in progress, and the handlers after it, have before them.
Expects(r) ==
    \/ /\ op.await \in {"nothing", "headers"}
       /\ r = Rest(Len(delivered), sent)
    \/ /\ Len(delivered) < Len(sent)
       /\ reply.start = <<"start", Current.id>>
       /\ \/ /\ op.await = "body" /\ Current.framing = "length" /\ IsWellFormed(Current)
             /\ op.n = Len(Body(Current))
             /\ Joins(r, Body(Current), Behind)
          \/ /\ op.await = "size" /\ Current.framing = "chunked"
             /\ Current.defect \in {"fine", "size"}
             /\ \E j \in 0 .. Len(Current.chunks) :
                   /\ reply.body = BodySoFar(Current, j)
                   /\ Joins(r, ChunksLeft(Current, j), Behind)
          \/ /\ op.await = "chunk" /\ Current.framing = "chunked" /\ IsWellFormed(Current)
             /\ \E j \in 0 .. Len(Current.chunks) : \E w, q \in Seq(Byte) :
                   /\ reply.body = BodySoFar(Current, j)
                   /\ op.n = Len(AllChunks(Current)[j + 1])
                   /\ Joins(w, AllChunks(Current)[j + 1], CRLF)
                   /\ Joins(q, ChunksLeft(Current, j + 1), Behind)
                   /\ Joins(r, w, q)

InPlace == failure = "none" => \E r \in Seq(Byte) : Expects(r) /\ Stands(m_Streambuf, r)

\* The bytes of both ends.
Typed ==
    /\ sent \in Seq(Messages) /\ written \in 0 .. Len(sent)
    /\ unsent \in Seq(Byte) /\ wire \in Seq(Byte) /\ m_Streambuf \in Seq(Byte)
    /\ lost \in Nat /\ peer \in {"open", "closed"}
    /\ op \in Operation
    /\ reply \in Replies /\ delivered \in Seq(Replies)
    /\ Len(delivered) <= Len(sent)
    /\ failure \in {"none", "protocol", "eof", "aborted"}

\* The read in progress, and its completion.
Searched ==
    /\ op.await = "nothing" \/ failure # "none" => op = NoOp
    /\ op.await # "nothing" =>
         /\ op.done = "no" => ~ConditionHolds(op.await, op.n, m_Streambuf)
         /\ op.done = "matched" => ConditionHolds(op.await, op.n, m_Streambuf)

\* The end is seen behind the last message that arrived.
EndSeen ==
    op.done = "eof" \/ failure = "eof" =>
        peer = "closed" /\ \A n \in Arrived : n <= Len(delivered)

IInv == Typed /\ Searched /\ EndSeen /\ InPlace

-----------------------------------------------------------------------------
(* The network.                                                              *)

LEMMA UnwrittenIs ==
    ASSUME sent \in Seq(Messages), written \in 0 .. Len(sent), unsent \in Seq(Byte)
    PROVE  Unwritten \in Seq(Byte) /\ Joins(Unwritten, unsent, Rest(written, sent))
<1>1. Rest(written, sent) \in Seq(Byte)
  BY RestIs
<1>2. Joins(Unwritten, unsent, Rest(written, sent))
  BY DEF Unwritten, Rest, Drop, Joins
<1>3. QED
  BY <1>1, <1>2, JoinIs

LEMMA MinIs ==
    ASSUME NEW a \in Nat, NEW b \in Nat
    PROVE  Min({a, b}) \in 0 .. b
<1>1. \E x \in {a, b} : \A y \in {a, b} : x <= y
  <2>1. a <= b \/ b <= a
    OBVIOUS
  <2>2. QED
    BY <2>1
<1>2. Min({a, b}) \in {a, b} /\ \A y \in {a, b} : Min({a, b}) <= y
  BY <1>1 DEF Min
<1>3. QED
  BY <1>2

\* What a record takes is on its way, the rest is still to be written.
LEMMA Record ==
    ASSUME NEW rest \in Seq(Byte), NEW t \in Seq(Byte), NEW q \in Seq(Byte),
           Joins(t, rest, q), wire \in Seq(Byte), WriteRecord(rest)
    PROVE  /\ wire' \in Seq(Byte) /\ unsent' \in Seq(Byte)
           /\ \E y \in Seq(Byte) :
                /\ Joins(y, unsent', q)
                /\ \A buf \in Seq(Byte) : \A r : Held(buf, wire, t, r) => Held(buf, wire', y, r)
<1>1. PICK n : n = Min({RecordSize, Len(rest)})
  OBVIOUS
<1>2. n \in 0 .. Len(rest)
  BY <1>1, MinIs, HttpConstants
<1>3. PICK b, c : b = Take(n, rest) /\ c = Drop(n, rest)
  OBVIOUS
<1>4. wire' = wire \o b /\ unsent' = c
  BY <1>1, <1>3 DEF WriteRecord
<1>5. b \in Seq(Byte) /\ c \in Seq(Byte)
  BY <1>2, <1>3, TakeDrop
<1>6. Joins(rest, b, c)
  BY <1>2, <1>3, JoinCut
<1>7. PICK y \in Seq(Byte) : Joins(y, c, q) /\ Joins(t, b, y)
  BY <1>5, <1>6, JoinRight
<1>8. ASSUME NEW buf \in Seq(Byte), NEW r, Held(buf, wire, t, r)
      PROVE  Held(buf, wire \o b, y, r)
  BY <1>5, <1>7, <1>8, HeldWritten
<1>9. wire \o b \in Seq(Byte)
  BY <1>5, ConcatIs
<1>10. QED
  BY <1>4, <1>5, <1>7, <1>8, <1>9

\* Writing moves bytes on without losing any.
LEMMA Writing ==
    ASSUME Typed, NEW rest \in Seq(Byte), written' \in 0 .. Len(sent), sent' = sent,
           peer = "open", UNCHANGED <<peer, lost>>,
           Joins(Unwritten, rest, Rest(written', sent)), WriteRecord(rest)
    PROVE  /\ wire' \in Seq(Byte) /\ unsent' \in Seq(Byte)
           /\ \A buf \in Seq(Byte) : \A r : Stands(buf, r) => Stands(buf, r)'
<1>1. PICK t : t = Unwritten
  OBVIOUS
<1>2. t \in Seq(Byte)
  BY <1>1, UnwrittenIs DEF Typed
<1>3. PICK q : q = Rest(written', sent)
  OBVIOUS
<1>4. q \in Seq(Byte)
  BY <1>3, RestIs DEF Typed
<1>5. wire \in Seq(Byte) /\ Joins(t, rest, q)
  BY <1>1, <1>3 DEF Typed
<1>6. /\ wire' \in Seq(Byte) /\ unsent' \in Seq(Byte)
      /\ \E y \in Seq(Byte) :
           /\ Joins(y, unsent', q)
           /\ \A buf \in Seq(Byte) : \A r : Held(buf, wire, t, r) => Held(buf, wire', y, r)
  BY <1>2, <1>4, <1>5, Record
<1>7. PICK y \in Seq(Byte) :
           /\ Joins(y, unsent', q)
           /\ \A buf \in Seq(Byte) : \A r : Held(buf, wire, t, r) => Held(buf, wire', y, r)
  BY <1>6
<1>8. y = Unwritten'
  BY <1>3, <1>7 DEF Unwritten, Rest, Drop, Joins
<1>9. ASSUME NEW buf \in Seq(Byte), NEW r, Stands(buf, r)
      PROVE  Stands(buf, r)'
  <2>1. Held(buf, wire, t, r) /\ lost = 0
    BY <1>1, <1>9 DEF Stands, Missing
  <2>2. Held(buf, wire', y, r)
    BY <1>7, <2>1
  <2>3. Missing(y)'
    BY <1>8, <2>1 DEF Missing
  <2>4. QED
    BY <2>2, <2>3 DEF Stands
<1>10. QED
  BY <1>6, <1>9

-----------------------------------------------------------------------------
(* The steps of the network and of the owner.                                *)

\* A read is looked for where it began, and is complete or goes on.
LEMMA SearchIs ==
    ASSUME NEW o \in Operation, o.done = "no", NEW buf \in Seq(Byte)
    PROVE  /\ Search(o, buf) \in Operation
           /\ Search(o, buf).await = o.await /\ Search(o, buf).n = o.n
           /\ ConditionHolds(o.await, o.n, buf) => Search(o, buf).done = "matched"
           /\ ~ConditionHolds(o.await, o.n, buf) => Search(o, buf).done = "no"
<1>1. o.from = 0 /\ Drop(o.from, buf) = buf
  BY DropAll DEF Operation
<1>2. Search(o, buf) = IF ConditionHolds(o.await, o.n, buf) THEN [o EXCEPT !.done = "matched"]
                       ELSE [o EXCEPT !.from = 0]
  BY <1>1 DEF Search, ResumeAt
<1>3. CASE ConditionHolds(o.await, o.n, buf)
  BY <1>2, <1>3 DEF Operation
<1>4. CASE ~ConditionHolds(o.await, o.n, buf)
  BY <1>1, <1>2, <1>4 DEF Operation
<1>5. QED
  BY <1>3, <1>4

LEMMA NoOpTyped == NoOp \in Operation /\ NoOp.await = "nothing" /\ NoOp.done = "no"
  BY DEF NoOp, Operation

\* What is expected depends on what the reader knows, not on the network.
LEMMA SameExpected ==
    ASSUME op'.await = op.await, op'.n = op.n, sent' = sent, reply' = reply,
           delivered' = delivered, NEW r, Expects(r)
    PROVE  Expects(r)'
<1>1. Current' = Current /\ Behind' = Behind
  BY DEF Current, Behind
<1>2. QED
  BY <1>1 DEF Expects

LEMMA SameUnwritten ==
    ASSUME UNCHANGED writeVars
    PROVE  Unwritten' = Unwritten
  BY DEF writeVars, Unwritten

LEMMA SameStand ==
    ASSUME UNCHANGED netVars, NEW buf, NEW r, Stands(buf, r)
    PROVE  Stands(buf, r)'
  BY SameUnwritten DEF netVars, Stands, Missing

\* A step of the network that leaves the reader alone.
LEMMA NetworkOnly ==
    ASSUME IInv, sent' = sent,
           UNCHANGED <<m_Streambuf, op, reply, delivered, failure>>,
           written' \in 0 .. Len(sent), unsent' \in Seq(Byte), wire' \in Seq(Byte),
           lost' \in Nat, peer' \in {"open", "closed"}, peer = "open",
           \A buf \in Seq(Byte) : \A r : Stands(buf, r) => Stands(buf, r)'
    PROVE  IInv'
<1>1. Typed'
  BY DEF IInv, Typed
<1>2. Searched'
  BY DEF IInv, Searched
<1>3. EndSeen'
  BY DEF IInv, EndSeen
<1>4. InPlace'
  <2>1. SUFFICES ASSUME failure = "none"
                 PROVE  \E r \in Seq(Byte) : Expects(r)' /\ Stands(m_Streambuf, r)'
    BY DEF InPlace
  <2>2. PICK r \in Seq(Byte) : Expects(r) /\ Stands(m_Streambuf, r)
    BY <2>1 DEF IInv, InPlace
  <2>3. Expects(r)'
    BY <2>2, SameExpected
  <2>4. Stands(m_Streambuf, r)'
    BY <2>2 DEF IInv, Typed
  <2>5. QED
    BY <2>3, <2>4
<1>5. QED
  BY <1>1, <1>2, <1>3, <1>4 DEF IInv

LEMMA AsyncWriteKeeps ==
    ASSUME IInv, asyncWrite
    PROVE  IInv'
<1>1. /\ sent' = sent /\ UNCHANGED <<lost, peer, m_Streambuf, op, reply, delivered, failure>>
      /\ peer = "open" /\ written < Len(sent)
  BY DEF asyncWrite
<1>2. Typed
  BY DEF IInv
<1>3. CASE UNCHANGED <<written, unsent, wire>>
  <2>1. \A buf \in Seq(Byte) : \A r : Stands(buf, r) => Stands(buf, r)'
    BY <1>1, <1>3 DEF Stands, Missing, Unwritten
  <2>2. QED
    BY <1>1, <1>2, <1>3, <2>1, NetworkOnly DEF Typed
<1>4. CASE /\ unsent = <<>> /\ WriteRecord(Bytes[sent[written + 1]])
           /\ written' = written + 1
  <2>1. PICK rest : rest = Bytes[sent[written + 1]]
    OBVIOUS
  <2>2. written \in 0 .. Len(sent) - 1 /\ written + 1 \in 0 .. Len(sent)
    BY <1>1, <1>2 DEF Typed
  <2>3. sent[written + 1] \in Messages
    BY <1>1, <1>2 DEF Typed
  <2>4. rest \in Seq(Byte)
    BY <2>1, <2>3, PayloadTyped
  <2>5. Unwritten = Rest(written, sent)
    <3>1. Unwritten \in Seq(Byte) /\ Joins(Unwritten, <<>>, Rest(written, sent))
      BY <1>2, <1>4, UnwrittenIs DEF Typed
    <3>2. Rest(written, sent) \in Seq(Byte)
      BY <1>2, <2>2, RestIs DEF Typed
    <3>3. QED
      BY <3>1, <3>2, JoinNothing
  <2>6. Joins(Unwritten, rest, Rest(written', sent))
    BY <1>2, <1>4, <2>1, <2>2, <2>5, RestIs DEF Typed
  <2>7. /\ wire' \in Seq(Byte) /\ unsent' \in Seq(Byte)
        /\ \A buf \in Seq(Byte) : \A r : Stands(buf, r) => Stands(buf, r)'
    BY <1>1, <1>2, <1>4, <2>1, <2>2, <2>4, <2>6, Writing
  <2>8. QED
    BY <1>1, <1>2, <1>4, <2>2, <2>7, NetworkOnly DEF Typed
<1>5. QED
  BY <1>3, <1>4 DEF asyncWrite

LEMMA WriteSomeKeeps ==
    ASSUME IInv, writeSome
    PROVE  IInv'
<1>1. /\ sent' = sent /\ UNCHANGED <<lost, peer, m_Streambuf, op, reply, delivered, failure>>
      /\ peer = "open" /\ WriteRecord(unsent) /\ written' = written
  BY DEF writeSome
<1>2. Typed
  BY DEF IInv
<1>3. /\ sent \in Seq(Messages) /\ written \in 0 .. Len(sent) /\ unsent \in Seq(Byte)
      /\ written' \in 0 .. Len(sent)
  BY <1>1, <1>2 DEF Typed
<1>4. Joins(Unwritten, unsent, Rest(written', sent))
  BY <1>1, <1>3, UnwrittenIs
<1>5. /\ wire' \in Seq(Byte) /\ unsent' \in Seq(Byte)
      /\ \A buf \in Seq(Byte) : \A r : Stands(buf, r) => Stands(buf, r)'
  BY <1>1, <1>2, <1>3, <1>4, Writing
<1>6. QED
  BY <1>1, <1>2, <1>3, <1>5, NetworkOnly DEF Typed

LEMMA PeerClosesKeeps ==
    ASSUME IInv, NEW k \in 0 .. Len(wire), PeerCloses(k)
    PROVE  IInv'
<1>1. /\ UNCHANGED <<writeVars, m_Streambuf, op, reply, delivered, failure>>
      /\ peer = "open" /\ peer' = "closed" /\ lost' = Len(Unwritten) + k
      /\ wire' = Take(Len(wire) - k, wire)
  BY DEF PeerCloses
<1>2. Typed
  BY DEF IInv
<1>3. PICK n : n = Len(wire) - k
  OBVIOUS
<1>4. wire \in Seq(Byte) /\ Len(wire) \in Nat
  BY <1>2 DEF Typed
<1>5. n \in 0 .. Len(wire) /\ Len(wire) - n = k /\ k \in Nat
  BY <1>3, <1>4
<1>6. Unwritten \in Seq(Byte) /\ Unwritten' = Unwritten
  BY <1>1, <1>2, UnwrittenIs, SameUnwritten DEF Typed
<1>7. wire' \in Seq(Byte) /\ lost' \in Nat
  <2>1. Len(Unwritten) \in Nat
    BY <1>6
  <2>2. QED
    BY <1>1, <1>3, <1>4, <1>5, <2>1, TakeDrop
<1>8. ASSUME NEW buf \in Seq(Byte), NEW r, Stands(buf, r)
      PROVE  Stands(buf, r)'
  <2>1. PICK t : t = Unwritten
    OBVIOUS
  <2>2. t \in Seq(Byte) /\ Held(buf, wire, t, r)
    BY <1>1, <1>6, <1>8, <2>1 DEF Stands, Missing
  <2>3. PICK u \in Seq(Byte) : /\ Len(u) = Len(t) + (Len(wire) - n)
                               /\ Held(buf, Take(n, wire), u, r)
    BY <1>4, <1>5, <2>2, HeldLost
  <2>4. Held(buf, wire', u, r)
    BY <1>1, <1>3, <2>3
  <2>5. Len(t) \in Nat
    BY <2>2
  <2>6. Len(u) = lost' /\ Len(Unwritten') <= lost'
    <3>1. Len(u) = Len(t) + k /\ lost' = Len(t) + k /\ Len(Unwritten') = Len(t)
      BY <1>1, <1>5, <1>6, <2>1, <2>3
    <3>2. Len(t) <= Len(t) + k
      BY <1>5, <2>5
    <3>3. QED
      BY <3>1, <3>2
  <2>7. Missing(u)'
    BY <1>1, <2>6 DEF Missing
  <2>8. QED
    BY <2>4, <2>7 DEF Stands
<1>9. QED
  BY <1>1, <1>2, <1>7, <1>8, NetworkOnly DEF Typed, writeVars

-----------------------------------------------------------------------------
(* What stands before a handler.                                             *)

LEMMA CurrentTyped ==
    ASSUME Typed, Len(delivered) < Len(sent)
    PROVE  /\ Len(delivered) \in Nat /\ Len(delivered) + 1 \in 0 .. Len(sent)
           /\ Current \in Messages /\ Behind \in Seq(Byte)
           /\ Joins(Rest(Len(delivered), sent), Bytes[Current], Behind)
<1>1. PICK d \in Nat : d = Len(delivered)
  BY DEF Typed
<1>2. /\ sent \in Seq(Messages) /\ d \in 0 .. Len(sent) - 1 /\ d + 1 \in 0 .. Len(sent)
      /\ d + 1 \in 1 .. Len(sent)
  BY <1>1 DEF Typed
<1>3. sent[d + 1] \in Messages
  BY <1>2
<1>4. /\ Rest(d + 1, sent) \in Seq(Byte)
      /\ Joins(Rest(d, sent), Bytes[sent[d + 1]], Rest(d + 1, sent))
  BY <1>2, RestIs
<1>5. QED
  BY <1>1, <1>2, <1>3, <1>4 DEF Current, Behind

\* Before the headers are read: a message and those behind it.
LEMMA HeadersBefore ==
    ASSUME Typed, Len(delivered) < Len(sent), NEW m, m = Current,
           NEW b \in Seq(Byte), b = Behind
    PROVE  \E z, q \in Seq(Byte) :
              /\ Joins(z, Text(m), EmptyLine) /\ Joins(q, Payload(m), b)
              /\ Joins(Rest(Len(delivered), sent), z, q)
<1>1. m \in Messages
  BY CurrentTyped
<1>2. Joins(Rest(Len(delivered), sent), Bytes[m], b)
  BY CurrentTyped
<1>3. PICK z : Joins(z, Text(m), EmptyLine) /\ Joins(Bytes[m], z, Payload(m))
  BY <1>1, BytesAre
<1>4. Text(m) \in Seq(Byte) /\ EmptyLine \in Seq(Byte)
  BY <1>1, TextEnds, EmptyLineTyped
<1>5. z \in Seq(Byte)
  BY <1>3, <1>4, JoinIs
<1>6. Payload(m) \in Seq(Byte) /\ Bytes[m] \in Seq(Byte)
  BY <1>1, PayloadTyped
<1>7. PICK q \in Seq(Byte) : Joins(q, Payload(m), b) /\ Joins(Rest(Len(delivered), sent), z, q)
  BY <1>2, <1>3, <1>5, <1>6, JoinRight
<1>8. QED
  BY <1>3, <1>5, <1>7

\* Before a chunk size is read: its line, the chunk, and those behind it.
LEMMA SizeBefore ==
    ASSUME NEW m \in Messages, NEW j \in 0 .. Len(m.chunks), NEW b \in Seq(Byte), NEW r,
           Joins(r, ChunksLeft(m, j), b), NEW c, c = AllChunks(m)[j + 1]
    PROVE  \E z, v, s, q \in Seq(Byte) :
              /\ Joins(z, <<ChunkSize(m, Len(c))>>, CRLF)
              /\ Joins(v, c, CRLF) /\ Joins(s, ChunksLeft(m, j + 1), b)
              /\ Joins(q, v, s) /\ Joins(r, z, q)
<1>1. PICK k, e, f : k = Chunk(m, c) /\ e = ChunksLeft(m, j) /\ f = ChunksLeft(m, j + 1)
  OBVIOUS
<1>2. c \in Seq(Byte)
  BY ChunksLeftAre
<1>3. f \in Seq(Byte) /\ e \in Seq(Byte)
  BY <1>1, ChunksLeftAre
<1>4. Joins(e, k, f)
  BY <1>1, ChunksLeftAre
<1>5. k \in Seq(Byte)
  BY <1>1, <1>2, ChunkIs
<1>6. PICK z, v \in Seq(Byte) :
           /\ Joins(z, <<ChunkSize(m, Len(c))>>, CRLF)
           /\ Joins(v, c, CRLF) /\ Joins(k, z, v)
  BY <1>1, <1>2, ChunkIs
<1>7. Joins(r, e, b)
  BY <1>1
<1>8. PICK s \in Seq(Byte) : Joins(s, f, b) /\ Joins(r, k, s)
  BY <1>3, <1>4, <1>5, <1>7, JoinRight
<1>9. PICK q \in Seq(Byte) : Joins(q, v, s) /\ Joins(r, z, q)
  BY <1>6, <1>8, JoinRight
<1>10. QED
  BY <1>1, <1>6, <1>8, <1>9

LEMMA SizeEnds ==
    ASSUME NEW m \in Messages, NEW n \in Nat
    PROVE  /\ <<ChunkSize(m, n)>> \in Seq(Byte) /\ Len(<<ChunkSize(m, n)>>) = 1
           /\ Ends(<<ChunkSize(m, n)>>, CRLF)
<1>1. PICK e : e = ChunkSize(m, n)
  OBVIOUS
<1>2. e \in Byte /\ e # CR
  BY <1>1, SizeIs
<1>3. <<e>> \in Seq(Byte) /\ Len(<<e>>) = 1
  BY <1>2, SingleTyped
<1>4. CRLF \in Seq(Byte) /\ CRLF # <<>> /\ e # CRLF[1]
  BY <1>2, CRLFTyped
<1>5. Ends(<<e>>, CRLF)
  BY <1>2, <1>4, EndsOne
<1>6. QED
  BY <1>1, <1>3, <1>5

-----------------------------------------------------------------------------
(* A message of which no byte is missing completes every read.               *)

LEMMA EnoughHeaders ==
    ASSUME Typed, Len(delivered) < Len(sent), NEW r, r = Rest(Len(delivered), sent),
           NEW t \in Seq(Byte), Held(m_Streambuf, wire, t, r),
           Len(r) <= Len(m_Streambuf) + Len(Behind)
    PROVE  Found(EmptyLine, m_Streambuf)
<1>1. PICK m, b : m = Current /\ b = Behind
  OBVIOUS
<1>2. m \in Messages
  BY <1>1, CurrentTyped
<1>3. b \in Seq(Byte)
  BY <1>1, CurrentTyped
<1>4. PICK z, q \in Seq(Byte) : /\ Joins(z, Text(m), EmptyLine) /\ Joins(q, Payload(m), b)
                                /\ Joins(r, z, q)
  BY <1>1, <1>3, HeadersBefore
<1>5. Text(m) \in Seq(Byte) /\ Ends(Text(m), EmptyLine)
  BY <1>2, TextEnds
<1>6. EmptyLine \in Seq(Byte) /\ EmptyLine # <<>>
  BY EmptyLineTyped
<1>7. m_Streambuf \in Seq(Byte) /\ wire \in Seq(Byte)
  BY DEF Typed
<1>8. Found(EmptyLine, m_Streambuf) <=> Len(Text(m)) + Len(EmptyLine) <= Len(m_Streambuf)
  BY <1>4, <1>5, <1>6, <1>7, HeldReadUntil
<1>9. Len(r) = Len(z) + Len(q) /\ Len(z) = Len(Text(m)) + Len(EmptyLine)
  BY <1>4, <1>5, <1>6, JoinIs
<1>10. Len(q) = Len(Payload(m)) + Len(b) /\ Len(Payload(m)) \in Nat
  BY <1>2, <1>3, <1>4, PayloadTyped, JoinIs
<1>11. Len(m_Streambuf) \in Nat /\ Len(b) \in Nat /\ Len(z) \in Nat
  BY <1>3, <1>4, <1>7
<1>12. Len(z) <= Len(m_Streambuf)
  <2>1. Len(r) <= Len(m_Streambuf) + Len(b)
    BY <1>1
  <2>2. QED
    BY <1>9, <1>10, <1>11, <2>1
<1>13. QED
  BY <1>8, <1>9, <1>12

LEMMA EnoughSize ==
    ASSUME NEW m \in Messages, NEW j \in 0 .. Len(m.chunks), NEW b \in Seq(Byte), NEW r,
           Joins(r, ChunksLeft(m, j), b), NEW buf \in Seq(Byte), NEW w \in Seq(Byte),
           NEW t \in Seq(Byte), Held(buf, w, t, r), Len(r) <= Len(buf) + Len(b)
    PROVE  Found(CRLF, buf)
<1>1. PICK c : c = AllChunks(m)[j + 1]
  OBVIOUS
<1>2. c \in Seq(Byte) /\ Len(c) \in Nat /\ ChunksLeft(m, j + 1) \in Seq(Byte)
  BY <1>1, ChunksLeftAre
<1>3. PICK z, v, s, q \in Seq(Byte) :
              /\ Joins(z, <<ChunkSize(m, Len(c))>>, CRLF)
              /\ Joins(v, c, CRLF) /\ Joins(s, ChunksLeft(m, j + 1), b)
              /\ Joins(q, v, s) /\ Joins(r, z, q)
  BY <1>1, SizeBefore
<1>4. PICK h : h = <<ChunkSize(m, Len(c))>>
  OBVIOUS
<1>5. h \in Seq(Byte) /\ Ends(h, CRLF)
  BY <1>2, <1>4, SizeEnds
<1>6. CRLF \in Seq(Byte) /\ CRLF # <<>>
  BY CRLFTyped
<1>7. Joins(z, h, CRLF)
  BY <1>3, <1>4
<1>8. Found(CRLF, buf) <=> Len(h) + Len(CRLF) <= Len(buf)
  BY <1>3, <1>5, <1>6, <1>7, HeldReadUntil
<1>9. Len(z) = Len(h) + Len(CRLF)
  BY <1>5, <1>6, <1>7, JoinIs
<1>10. Len(r) = Len(z) + Len(q) /\ Len(q) = Len(v) + Len(s)
  BY <1>3, JoinIs
<1>11. Len(s) = Len(ChunksLeft(m, j + 1)) + Len(b)
  <2>1. PICK e : e = ChunksLeft(m, j + 1)
    OBVIOUS
  <2>2. e \in Seq(Byte)
    BY <1>2, <2>1
  <2>3. Joins(s, e, b)
    BY <1>3, <2>1
  <2>4. Len(s) = Len(e) + Len(b)
    BY <2>2, <2>3, JoinIs
  <2>5. QED
    BY <2>1, <2>4
<1>12. /\ Len(ChunksLeft(m, j + 1)) \in Nat /\ Len(b) \in Nat /\ Len(v) \in Nat
       /\ Len(z) \in Nat /\ Len(buf) \in Nat
  <2>1. ChunksLeft(m, j + 1) \in Seq(Byte)
    BY <1>2
  <2>2. Len(b) \in Nat /\ Len(v) \in Nat /\ Len(z) \in Nat /\ Len(buf) \in Nat
    OBVIOUS
  <2>3. QED
    BY <2>1, <2>2
<1>13. Len(z) <= Len(buf)
  BY <1>10, <1>11, <1>12
<1>14. QED
  BY <1>8, <1>9, <1>13

LEMMA Enough ==
    ASSUME Typed, Len(delivered) < Len(sent), op.await # "nothing", NEW r, Expects(r),
           NEW t \in Seq(Byte), Held(m_Streambuf, wire, t, r),
           Len(r) <= Len(m_Streambuf) + Len(Behind)
    PROVE  ConditionHolds(op.await, op.n, m_Streambuf)
<1>1. PICK m, b : m = Current /\ b = Behind
  OBVIOUS
<1>2. m \in Messages
  BY <1>1, CurrentTyped
<1>3. b \in Seq(Byte)
  BY <1>1, CurrentTyped
<1>4. m_Streambuf \in Seq(Byte) /\ wire \in Seq(Byte) /\ Len(m_Streambuf) \in Nat
  BY DEF Typed
<1>5. Len(r) <= Len(m_Streambuf) + Len(b) /\ Len(b) \in Nat
  BY <1>1, <1>3
<1>6. CASE op.await = "headers"
  <2>1. r = Rest(Len(delivered), sent)
    BY <1>6 DEF Expects
  <2>2. QED
    BY <1>6, <2>1, EnoughHeaders DEF ConditionHolds, EmptyLine
<1>7. CASE op.await = "body"
  <2>1. op.n = Len(Body(m)) /\ Joins(r, Body(m), b)
    BY <1>1, <1>7 DEF Expects
  <2>2. Body(m) \in Seq(Byte) /\ Len(Body(m)) \in Nat
    BY <1>2, BodyTyped
  <2>3. Len(r) = Len(Body(m)) + Len(b)
    BY <1>3, <2>1, <2>2, JoinIs
  <2>4. Len(m_Streambuf) >= op.n
    BY <1>4, <1>5, <2>1, <2>2, <2>3
  <2>5. QED
    BY <1>7, <2>4 DEF ConditionHolds
<1>8. CASE op.await = "size"
  <2>1. PICK j \in 0 .. Len(m.chunks) : Joins(r, ChunksLeft(m, j), b)
    BY <1>1, <1>8 DEF Expects
  <2>2. Found(CRLF, m_Streambuf)
    BY <1>2, <1>3, <1>4, <1>5, <2>1, EnoughSize
  <2>3. QED
    BY <1>8, <2>2 DEF ConditionHolds
<1>9. CASE op.await = "chunk"
  <2>1. PICK j \in 0 .. Len(m.chunks), w, q \in Seq(Byte) :
             /\ op.n = Len(AllChunks(m)[j + 1])
             /\ Joins(w, AllChunks(m)[j + 1], CRLF)
             /\ Joins(q, ChunksLeft(m, j + 1), b)
             /\ Joins(r, w, q)
    BY <1>1, <1>9 DEF Expects
  <2>2. PICK c, e : c = AllChunks(m)[j + 1] /\ e = ChunksLeft(m, j + 1)
    OBVIOUS
  <2>3. c \in Seq(Byte) /\ e \in Seq(Byte) /\ Len(c) \in Nat /\ Len(e) \in Nat
    BY <1>2, <2>2, ChunksLeftAre
  <2>4. Joins(w, c, CRLF) /\ CRLF \in Seq(Byte) /\ Len(CRLF) = 2
    BY <2>1, <2>2, CRLFTyped
  <2>5. Joins(q, e, b)
    BY <2>1, <2>2
  <2>6. Len(w) = Len(c) + Len(CRLF)
    <3>1. CRLF \in Seq(Byte) /\ c \in Seq(Byte)
      BY <2>3, CRLFTyped
    <3>2. Joins(w, c, CRLF)
      BY <2>4
    <3>3. QED
      BY <3>1, <3>2, JoinIs
  <2>7. Len(q) = Len(e) + Len(b)
    BY <1>3, <2>3, <2>5, JoinIs
  <2>8. Len(r) = Len(w) + Len(q)
    BY <2>1, JoinIs
  <2>9. Len(w) = op.n + 2 /\ op.n \in Nat
    BY <2>1, <2>2, <2>3, <2>4, <2>6
  <2>10. Len(w) <= Len(m_Streambuf)
    <3>1. Len(w) \in Nat
      OBVIOUS
    <3>2. Len(w) + (Len(e) + Len(b)) <= Len(m_Streambuf) + Len(b)
      BY <1>5, <2>7, <2>8
    <3>3. QED
      BY <1>4, <1>5, <2>3, <3>1, <3>2
  <2>11. QED
    BY <1>4, <1>9, <2>9, <2>10 DEF ConditionHolds
<1>10. QED
  BY <1>6, <1>7, <1>8, <1>9 DEF Typed, Operation

-----------------------------------------------------------------------------
(* The read in progress.                                                     *)

LEMMA ReadingIs ==
    ASSUME IInv, op.await # "nothing"
    PROVE  failure = "none" /\ \E r \in Seq(Byte) : Expects(r) /\ Stands(m_Streambuf, r)
<1>1. op # NoOp
  BY NoOpTyped
<1>2. failure = "none"
  BY <1>1 DEF IInv, Searched
<1>3. QED
  BY <1>2 DEF IInv, InPlace

LEMMA ReceiveKeeps ==
    ASSUME IInv, NEW k \in 1 .. Len(wire), Receive(k)
    PROVE  IInv' /\ op'.await = op.await
<1>1. /\ op.await # "nothing" /\ op.done = "no"
      /\ m_Streambuf' = m_Streambuf \o Take(k, wire) /\ wire' = Drop(k, wire)
      /\ op' = Search(op, m_Streambuf')
      /\ UNCHANGED <<writeVars, lost, peer, reply, delivered, failure>>
  BY DEF Receive, Reading
<1>2. Typed /\ op \in Operation /\ m_Streambuf \in Seq(Byte) /\ wire \in Seq(Byte)
  BY DEF IInv, Typed
<1>3. k \in 0 .. Len(wire)
  OBVIOUS
<1>4. failure = "none"
  BY <1>1, ReadingIs
<1>5. PICK r \in Seq(Byte) : Expects(r) /\ Stands(m_Streambuf, r)
  BY <1>1, ReadingIs
<1>6. PICK t \in Seq(Byte) : Missing(t) /\ Held(m_Streambuf, wire, t, r)
  BY <1>5 DEF Stands
<1>7. /\ m_Streambuf' \in Seq(Byte) /\ wire' \in Seq(Byte)
      /\ Held(m_Streambuf', wire', t, r)
  BY <1>1, <1>2, <1>3, <1>6, HeldReceived
<1>8. PICK o : o = op
  OBVIOUS
<1>9. PICK buf : buf = m_Streambuf'
  OBVIOUS
<1>10. o \in Operation /\ o.done = "no" /\ buf \in Seq(Byte) /\ op' = Search(o, buf)
  BY <1>1, <1>2, <1>7, <1>8, <1>9
<1>11. /\ op' \in Operation /\ op'.await = op.await /\ op'.n = op.n
       /\ ConditionHolds(op.await, op.n, buf) => op'.done = "matched"
       /\ ~ConditionHolds(op.await, op.n, buf) => op'.done = "no"
  BY <1>8, <1>10, SearchIs
<1>12. Typed'
  BY <1>1, <1>2, <1>7, <1>11 DEF Typed, writeVars
<1>13. Searched'
  BY <1>1, <1>4, <1>9, <1>11 DEF Searched
<1>14. EndSeen'
  BY <1>1, <1>4, <1>11 DEF EndSeen
<1>15. InPlace'
  <2>1. Expects(r)'
    BY <1>1, <1>5, <1>11, SameExpected DEF writeVars
  <2>2. Missing(t)'
    BY <1>1, <1>6, SameUnwritten DEF Missing
  <2>3. Stands(m_Streambuf, r)'
    BY <1>7, <2>2 DEF Stands
  <2>4. QED
    BY <2>1, <2>3 DEF InPlace
<1>16. QED
  BY <1>11, <1>12, <1>13, <1>14, <1>15 DEF IInv

\* When the end comes, what is missing is missing from the message being read.
LEMMA EndComesLast ==
    ASSUME IInv, op.await # "nothing", op.done = "no", peer = "closed",
           NEW n \in Arrived
    PROVE  wire = <<>> => n <= Len(delivered)
<1>1. Typed /\ sent \in Seq(Messages) /\ lost \in Nat /\ n \in 0 .. Len(sent)
  BY DEF IInv, Typed, Arrived
<1>2. PICK d \in Nat : d = Len(delivered)
  BY <1>1 DEF Typed
<1>3. SUFFICES ASSUME wire = <<>>, d < n PROVE FALSE
  BY <1>1, <1>2
<1>4. Len(delivered) < Len(sent) /\ d + 1 \in 0 .. Len(sent) /\ n \in (d + 1) .. Len(sent)
  BY <1>1, <1>2, <1>3
<1>5. PICK r \in Seq(Byte) : Expects(r) /\ Stands(m_Streambuf, r)
  BY ReadingIs
<1>6. PICK t \in Seq(Byte) : Len(t) = lost /\ Held(m_Streambuf, wire, t, r)
  BY <1>5 DEF Stands, Missing
<1>7. m_Streambuf \in Seq(Byte) /\ wire \in Seq(Byte)
  BY <1>1 DEF Typed
<1>8. Len(m_Streambuf) \in Nat /\ Len(r) = Len(m_Streambuf) + lost
  <2>1. m_Streambuf \in Seq(Byte) /\ wire \in Seq(Byte)
    BY <1>7
  <2>2. Held(m_Streambuf, wire, t, r)
    BY <1>6
  <2>3. Len(r) = Len(m_Streambuf) + Len(wire) + Len(t)
    BY <2>1, <2>2, HeldIs
  <2>4. Len(wire) = 0
    BY <1>3
  <2>5. QED
    BY <1>6, <1>7, <2>3, <2>4
<1>9. Len(AllBytes(Take(n, sent))) <= Len(AllBytes(sent)) - lost
  BY DEF Arrived, Take
<1>10. Len(AllBytes(sent)) = Len(AllBytes(Take(n, sent))) + Len(Rest(n, sent))
  BY <1>1, BytesCut
<1>11. /\ Len(AllBytes(Take(n, sent))) \in Nat /\ Len(Rest(n, sent)) \in Nat
       /\ Len(Behind) \in Nat
  <2>1. Take(n, sent) \in Seq(Messages)
    BY <1>1, TakeDrop
  <2>2. AllBytes(Take(n, sent)) \in Seq(Byte)
    BY <2>1, AllBytesTyped
  <2>3. Rest(n, sent) \in Seq(Byte)
    BY <1>1, RestIs
  <2>4. Behind \in Seq(Byte)
    BY <1>1, <1>4, CurrentTyped
  <2>5. QED
    BY <2>2, <2>3, <2>4
<1>12. lost <= Len(Rest(n, sent))
  BY <1>1, <1>9, <1>10, <1>11
<1>13. Len(Rest(n, sent)) <= Len(Behind)
  BY <1>1, <1>2, <1>4, RestShrinks DEF Behind
<1>14. Len(r) <= Len(m_Streambuf) + Len(Behind)
  BY <1>1, <1>8, <1>11, <1>12, <1>13
<1>15. ConditionHolds(op.await, op.n, m_Streambuf)
  BY <1>1, <1>4, <1>5, <1>6, <1>14, Enough
<1>16. QED
  BY <1>15 DEF IInv, Searched

\* The read ends without its condition.
LEMMA ReadEnds ==
    ASSUME IInv, op.await # "nothing", NEW done \in {"eof", "aborted"},
           op' = [op EXCEPT !.done = done],
           UNCHANGED <<netVars, m_Streambuf, reply, delivered, failure>>,
           done = "eof" => peer = "closed" /\ \A n \in Arrived : n <= Len(delivered)
    PROVE  IInv' /\ op'.await = op.await
<1>1. /\ op' \in Operation /\ op'.await = op.await /\ op'.n = op.n /\ op'.done = done
  BY DEF IInv, Typed, Operation
<1>2. failure = "none"
  BY ReadingIs
<1>3. Typed'
  BY <1>1 DEF IInv, Typed, netVars, writeVars
<1>4. Searched'
  BY <1>1, <1>2 DEF Searched
<1>5. EndSeen'
  <2>1. Arrived' = Arrived
    BY DEF Arrived, netVars, writeVars
  <2>2. QED
    BY <1>1, <1>2, <2>1 DEF EndSeen, netVars
<1>6. InPlace'
  <2>1. PICK r \in Seq(Byte) : Expects(r) /\ Stands(m_Streambuf, r)
    BY ReadingIs
  <2>2. Expects(r)'
    BY <1>1, <2>1, SameExpected DEF netVars, writeVars
  <2>3. Stands(m_Streambuf, r)'
    <3>1. PICK buf : buf = m_Streambuf
      OBVIOUS
    <3>2. Stands(buf, r)'
      BY <2>1, <3>1, SameStand
    <3>3. QED
      BY <3>1, <3>2
  <2>4. QED
    BY <2>2, <2>3 DEF InPlace
<1>7. QED
  BY <1>1, <1>3, <1>4, <1>5, <1>6 DEF IInv

LEMMA ReceiveEofKeeps ==
    ASSUME IInv, ReceiveEof
    PROVE  IInv' /\ op'.await = op.await
<1>1. /\ op.await # "nothing" /\ op.done = "no" /\ peer = "closed" /\ wire = <<>>
      /\ op' = [op EXCEPT !.done = "eof"]
      /\ UNCHANGED <<netVars, m_Streambuf, reply, delivered, failure>>
  BY DEF ReceiveEof, Reading
<1>2. \A n \in Arrived : n <= Len(delivered)
  BY <1>1, EndComesLast
<1>3. QED
  BY <1>1, <1>2, ReadEnds

LEMMA CancelKeeps ==
    ASSUME IInv, Cancel
    PROVE  IInv' /\ op'.await = op.await
<1>1. /\ op.await # "nothing" /\ op' = [op EXCEPT !.done = "aborted"]
      /\ UNCHANGED <<netVars, m_Streambuf, reply, delivered, failure>>
  BY DEF Cancel, Reading
<1>2. QED
  BY <1>1, ReadEnds

-----------------------------------------------------------------------------
(* What a handler may do: read on, hand over a message, give up.             *)

LEMMA StartsRead ==
    ASSUME NEW await \in {"headers", "body", "size", "chunk"}, NEW n \in Nat,
           NEW buf \in Seq(Byte), asyncRead(await, n, buf)
    PROVE  /\ op' \in Operation /\ op'.await = await /\ op'.n = n
           /\ ConditionHolds(await, n, buf) => op'.done = "matched"
           /\ ~ConditionHolds(await, n, buf) => op'.done = "no"
<1>1. PICK o : o = [await |-> await, n |-> n, from |-> 0, done |-> "no"]
  OBVIOUS
<1>2. o \in Operation /\ o.done = "no" /\ o.await = await /\ o.n = n
  BY <1>1 DEF Operation
<1>3. op' = Search(o, buf)
  BY <1>1 DEF asyncRead
<1>4. QED
  BY <1>2, <1>3, SearchIs

LEMMA ReadsOn ==
    ASSUME Typed, failure = "none", UNCHANGED <<netVars, delivered, failure>>,
           NEW await \in {"headers", "body", "size", "chunk"}, NEW n \in Nat,
           NEW buf \in Seq(Byte), m_Streambuf' = buf, asyncRead(await, n, buf),
           reply' \in Replies,
           NEW r \in Seq(Byte), Expects(r)', Stands(buf, r)
    PROVE  IInv'
<1>1. /\ op' \in Operation /\ op'.await = await /\ op'.n = n
      /\ ConditionHolds(await, n, buf) => op'.done = "matched"
      /\ ~ConditionHolds(await, n, buf) => op'.done = "no"
  BY StartsRead
<1>2. Typed'
  BY <1>1 DEF Typed, netVars, writeVars
<1>3. Searched'
  BY <1>1 DEF Searched
<1>4. EndSeen'
  BY <1>1 DEF EndSeen
<1>5. Stands(buf, r)'
  BY SameStand
<1>6. InPlace'
  BY <1>5 DEF InPlace
<1>7. QED
  BY <1>2, <1>3, <1>4, <1>6 DEF IInv

LEMMA GivesUp ==
    ASSUME IInv, UNCHANGED netVars, m_Streambuf' \in Seq(Byte),
           NEW why \in {"protocol", "eof", "aborted"}, Fail(why),
           why = "eof" => op.done = "eof"
    PROVE  IInv'
<1>1. failure' = why /\ op' = NoOp /\ UNCHANGED <<reply, delivered>>
  BY DEF Fail
<1>2. Typed'
  BY <1>1, NoOpTyped DEF IInv, Typed, netVars, writeVars
<1>3. Searched'
  BY <1>1, NoOpTyped DEF Searched
<1>4. EndSeen'
  <2>1. Arrived' = Arrived
    BY DEF Arrived, netVars, writeVars
  <2>2. QED
    BY <1>1, <2>1, NoOpTyped DEF IInv, EndSeen, netVars
<1>5. InPlace'
  BY <1>1 DEF InPlace
<1>6. QED
  BY <1>2, <1>3, <1>4, <1>5 DEF IInv

LEMMA HandsOver ==
    ASSUME IInv, UNCHANGED netVars, NEW buf \in Seq(Byte), m_Streambuf' = buf,
           NEW r \in Replies, processReply(r), failure = "none",
           Len(delivered) < Len(sent), Stands(buf, Behind)
    PROVE  IInv'
<1>1. delivered' = Append(delivered, r) /\ op' = NoOp /\ reply' = r /\ failure' = failure
  BY DEF processReply
<1>2. Typed
  BY DEF IInv
<1>3. PICK d \in Nat : d = Len(delivered)
  BY <1>2 DEF Typed
<1>4. delivered' \in Seq(Replies) /\ Len(delivered') = d + 1
  BY <1>1, <1>2, <1>3, AppendTo DEF Typed
<1>5. d + 1 <= Len(sent)
  BY <1>2, <1>3 DEF Typed
<1>6. Typed'
  BY <1>1, <1>2, <1>4, <1>5, NoOpTyped DEF Typed, netVars, writeVars
<1>7. Searched'
  BY <1>1, NoOpTyped DEF Searched
<1>8. EndSeen'
  BY <1>1, NoOpTyped DEF EndSeen
<1>9. InPlace'
  <2>1. PICK b : b = Behind
    OBVIOUS
  <2>2. b \in Seq(Byte) /\ Stands(buf, b)
    BY <1>2, <2>1, CurrentTyped
  <2>3. Stands(buf, b)'
    BY <2>2, SameStand
  <2>4. Expects(b)'
    BY <1>1, <1>3, <1>4, <2>1, NoOpTyped DEF Expects, Behind, netVars, writeVars
  <2>5. QED
    BY <2>2, <2>3, <2>4 DEF InPlace
<1>10. QED
  BY <1>6, <1>7, <1>8, <1>9 DEF IInv

LEMMA AsyncResponseKeeps ==
    ASSUME IInv, asyncResponse
    PROVE  IInv' /\ op'.await = "headers"
<1>1. /\ op.await = "nothing" /\ failure = "none" /\ asyncRead("headers", 0, m_Streambuf)
      /\ reply' = NoReply /\ UNCHANGED <<netVars, m_Streambuf, delivered, failure>>
  BY DEF asyncResponse
<1>2. Typed /\ m_Streambuf \in Seq(Byte) /\ NoReply \in Replies
  BY EmptySeq DEF IInv, Typed, NoReply, Replies
<1>3. PICK r \in Seq(Byte) : Expects(r) /\ Stands(m_Streambuf, r)
  BY <1>1 DEF IInv, InPlace
<1>4. r = Rest(Len(delivered), sent)
  BY <1>1, <1>3 DEF Expects
<1>5. PICK buf : buf = m_Streambuf
  OBVIOUS
<1>6. buf \in Seq(Byte) /\ asyncRead("headers", 0, buf) /\ m_Streambuf' = buf /\ Stands(buf, r)
  BY <1>1, <1>2, <1>3, <1>5
<1>7. op'.await = "headers"
  BY <1>6, StartsRead
<1>8. Expects(r)'
  BY <1>1, <1>4, <1>7 DEF Expects, netVars, writeVars
<1>9. QED
  BY <1>1, <1>2, <1>6, <1>7, <1>8, ReadsOn

LEMMA ReadErrorKeeps ==
    ASSUME IInv, ReadError
    PROVE  /\ IInv' /\ op.await # "nothing" /\ UNCHANGED netVars
           /\ \E why \in {"eof", "aborted"} : Fail(why)
<1>1. /\ op.done \in {"eof", "aborted"} /\ Fail(op.done) /\ UNCHANGED <<netVars, m_Streambuf>>
  BY DEF ReadError
<1>2. m_Streambuf' \in Seq(Byte)
  BY <1>1 DEF IInv, Typed
<1>3. op.await # "nothing"
  BY <1>1, NoOpTyped DEF IInv, Searched
<1>4. IInv'
  BY <1>1, <1>2, GivesUp
<1>5. QED
  BY <1>1, <1>3, <1>4

-----------------------------------------------------------------------------
(* The steps of the owner's stream.                                          *)

StreamStep == Stream!Next \/ UNCHANGED Stream!streamVars

LEMMA StreamSame ==
    ASSUME UNCHANGED <<sent, delivered, failure>>, op'.await # "nothing" <=> op.await # "nothing"
    PROVE  StreamStep
  BY DEF StreamStep, Stream!streamVars

LEMMA StreamAsked ==
    ASSUME op.await = "nothing", failure = "none", op'.await # "nothing",
           UNCHANGED <<sent, delivered, failure>>
    PROVE  StreamStep
  BY DEF StreamStep, Stream!Next, Stream!Ask

LEMMA MeaningsAre ==
    ASSUME NEW s \in Seq(Messages)
    PROVE  LET t == [i \in DOMAIN s |-> Meaning(s[i])]
           IN  /\ t \in Seq({Meaning(m) : m \in Messages}) /\ Len(t) = Len(s)
               /\ \A i \in 1 .. Len(s) : t[i] = Meaning(s[i])
<1>1. PICK n \in Nat : n = Len(s)
  OBVIOUS
<1>2. DOMAIN s = 1 .. n /\ \A i \in 1 .. n : s[i] \in Messages
  BY <1>1
<1>3. PICK M : M = {Meaning(m) : m \in Messages}
  OBVIOUS
<1>4. \A i \in 1 .. n : Meaning(s[i]) \in M
  BY <1>2, <1>3
<1>5. PICK t : t = [i \in 1 .. n |-> Meaning(s[i])]
  OBVIOUS
<1>6. t \in Seq(M) /\ Len(t) = n /\ \A i \in 1 .. n : t[i] = Meaning(s[i])
  BY <1>4, <1>5
<1>7. QED
  BY <1>1, <1>2, <1>3, <1>5, <1>6

LEMMA StreamFailed ==
    ASSUME Typed, op.await # "nothing", NEW why \in {"protocol", "eof", "aborted"},
           Fail(why), sent' = sent,
           why = "protocol" => Len(delivered) < Len(sent) /\ ~IsWellFormed(Current)
    PROVE  StreamStep
<1>1. failure' = why /\ op'.await = "nothing" /\ delivered' = delivered
  BY NoOpTyped DEF Fail
<1>2. PICK t : t = [i \in DOMAIN sent |-> Meaning(sent[i])]
  OBVIOUS
<1>3. Len(t) = Len(sent) /\ \A i \in 1 .. Len(sent) : t[i] = Meaning(sent[i])
  BY <1>2, MeaningsAre DEF Typed
<1>4. ASSUME why = "protocol"
      PROVE  Len(delivered) < Len(t) /\ t[Len(delivered) + 1] = NoReply
  <2>1. Len(delivered) < Len(sent) /\ Len(delivered) + 1 \in 1 .. Len(sent)
    BY <1>4, CurrentTyped
  <2>2. Meaning(Current) = NoReply
    BY <1>4 DEF Meaning
  <2>3. QED
    BY <1>3, <2>1, <2>2 DEF Current
<1>5. Stream!AnswerError(why)
  BY <1>1, <1>2, <1>4 DEF Stream!AnswerError, Stream!NextMessage
<1>6. QED
  BY <1>5 DEF StreamStep, Stream!Next, Stream!Failures

LEMMA StreamDelivered ==
    ASSUME Typed, op.await # "nothing", Len(delivered) < Len(sent),
           IsWellFormed(Current), processReply(Reply(Current)), sent' = sent
    PROVE  StreamStep
<1>1. /\ failure' = failure /\ op'.await = "nothing"
      /\ delivered' = Append(delivered, Reply(Current))
  BY NoOpTyped DEF processReply
<1>2. PICK t : t = [i \in DOMAIN sent |-> Meaning(sent[i])]
  OBVIOUS
<1>3. Len(t) = Len(sent) /\ \A i \in 1 .. Len(sent) : t[i] = Meaning(sent[i])
  BY <1>2, MeaningsAre DEF Typed
<1>4. Len(delivered) < Len(t) /\ t[Len(delivered) + 1] = Reply(Current)
  <2>1. Len(delivered) + 1 \in 1 .. Len(sent)
    BY CurrentTyped
  <2>2. Meaning(Current) = Reply(Current)
    BY DEF Meaning
  <2>3. QED
    BY <1>3, <2>1, <2>2 DEF Current
<1>5. Reply(Current) # NoReply
  <2>1. Reply(Current).start # NoReply.start
    BY DEF Reply, NoReply
  <2>2. QED
    BY <2>1
<1>6. Stream!AnswerMessage
  BY <1>1, <1>2, <1>4, <1>5 DEF Stream!AnswerMessage, Stream!NextMessage
<1>7. QED
  BY <1>6 DEF StreamStep, Stream!Next

-----------------------------------------------------------------------------
(* The handler of the headers.                                               *)

\* No message, no headers.
LEMMA HeadersOfMessage ==
    ASSUME Typed, NEW t \in Seq(Byte), Held(m_Streambuf, wire, t, Rest(Len(delivered), sent)),
           Found(EmptyLine, m_Streambuf)
    PROVE  Len(delivered) < Len(sent)
<1>1. SUFFICES ASSUME Len(delivered) = Len(sent) PROVE FALSE
  BY DEF Typed
<1>2. PICK r : r = Rest(Len(delivered), sent)
  OBVIOUS
<1>3. Len(r) = 0
  BY <1>1, <1>2, RestIs DEF Typed
<1>4. m_Streambuf \in Seq(Byte) /\ wire \in Seq(Byte)
  BY DEF Typed
<1>5. Held(m_Streambuf, wire, t, r)
  BY <1>2
<1>6. Len(r) = Len(m_Streambuf) + Len(wire) + Len(t)
  BY <1>4, <1>5, HeldIs
<1>7. Len(m_Streambuf) \in Nat /\ Len(wire) \in Nat /\ Len(t) \in Nat
  BY <1>4
<1>8. Len(m_Streambuf) = 0
  BY <1>3, <1>6, <1>7
<1>9. Occurrences(EmptyLine, m_Streambuf) = {}
  BY <1>8, EmptyLineTyped DEF Occurrences
<1>10. QED
  BY <1>9 DEF Found

\* What the handler finds: the text of the next message, and its payload behind it.
LEMMA HeadersRead ==
    ASSUME IInv, op.await = "headers", Found(EmptyLine, m_Streambuf)
    PROVE  /\ failure = "none" /\ Len(delivered) < Len(sent)
           /\ Before(EmptyLine, m_Streambuf) = Text(Current)
           /\ After(EmptyLine, m_Streambuf) \in Seq(Byte)
           /\ \E q \in Seq(Byte) : /\ Joins(q, Payload(Current), Behind)
                                   /\ Stands(After(EmptyLine, m_Streambuf), q)
<1>1. Typed /\ m_Streambuf \in Seq(Byte) /\ wire \in Seq(Byte)
  BY DEF IInv, Typed
<1>2. failure = "none" /\ \E r \in Seq(Byte) : Expects(r) /\ Stands(m_Streambuf, r)
  BY ReadingIs
<1>3. PICK r \in Seq(Byte) : r = Rest(Len(delivered), sent) /\ Stands(m_Streambuf, r)
  BY <1>2 DEF Expects
<1>4. PICK t \in Seq(Byte) : Missing(t) /\ Held(m_Streambuf, wire, t, r)
  BY <1>3 DEF Stands
<1>5. Len(delivered) < Len(sent)
  BY <1>1, <1>3, <1>4, HeadersOfMessage
<1>6. PICK m, b : m = Current /\ b = Behind
  OBVIOUS
<1>7. m \in Messages
  BY <1>1, <1>5, <1>6, CurrentTyped
<1>8. b \in Seq(Byte)
  BY <1>1, <1>5, <1>6, CurrentTyped
<1>9. PICK z, q \in Seq(Byte) : /\ Joins(z, Text(m), EmptyLine) /\ Joins(q, Payload(m), b)
                                /\ Joins(r, z, q)
  BY <1>1, <1>3, <1>5, <1>6, <1>8, HeadersBefore
<1>10. Text(m) \in Seq(Byte) /\ Ends(Text(m), EmptyLine)
  BY <1>7, TextEnds
<1>11. EmptyLine \in Seq(Byte) /\ EmptyLine # <<>>
  BY EmptyLineTyped
<1>12. /\ Before(EmptyLine, m_Streambuf) = Text(m)
       /\ After(EmptyLine, m_Streambuf) \in Seq(Byte)
       /\ Held(After(EmptyLine, m_Streambuf), wire, t, q)
  BY <1>1, <1>4, <1>9, <1>10, <1>11, HeldReadUntil
<1>13. Stands(After(EmptyLine, m_Streambuf), q)
  BY <1>4, <1>12 DEF Stands
<1>14. QED
  BY <1>2, <1>5, <1>6, <1>9, <1>12, <1>13

\* The first line of a message that the parser accepts, and of one it does not.
LEMMA StartLineRead ==
    ASSUME NEW m \in Messages
    PROVE  /\ BadStartLine(FirstLine(Text(m))) <=> m.defect \notin Parsed
           /\ m.defect \in Parsed => FirstLine(Text(m))[1] = <<"start", m.id>>
<1>1. PICK l : l = StartLine(m)
  OBVIOUS
<1>2. FirstLine(Text(m)) = l
  BY <1>1, FirstLineIs
<1>3. CASE l = <<>> /\ m.defect = "empty"
  BY <1>2, <1>3 DEF BadStartLine, Parsed
<1>4. ASSUME NEW s, l = <<s>>, StartByte(m, s)
      PROVE  /\ BadStartLine(l) <=> m.defect \notin Parsed
             /\ m.defect \in Parsed => l[1] = <<"start", m.id>>
  <2>1. l # <<>> /\ l[1] = s
    BY <1>4
  <2>2. BadStartLine(l) <=> s[1] \in {"one word", "HTTP/1.1 no number"}
    BY <2>1 DEF BadStartLine
  <2>3. QED
    BY <1>4, <2>1, <2>2 DEF StartByte
<1>5. QED
  BY <1>1, <1>2, <1>3, <1>4, StartLineIs

\* A body of a known length is read.
LEMMA ReadsBody ==
    ASSUME IInv, op.await = "headers", failure = "none", Len(delivered) < Len(sent),
           NEW m, m = Current, NEW rest \in Seq(Byte), m_Streambuf' = rest,
           NEW q \in Seq(Byte), Joins(q, Payload(m), Behind), Stands(rest, q),
           m.framing = "length", m.defect = "fine",
           asyncRead("body", Len(Body(m)), rest),
           reply' = [start |-> <<"start", m.id>>, body |-> <<>>],
           UNCHANGED <<netVars, delivered, failure>>
    PROVE  IInv' /\ StreamStep
<1>1. Typed /\ m \in Messages
  BY CurrentTyped DEF IInv
<1>2. Len(Body(m)) \in Nat
  BY <1>1, BodyTyped
<1>3. reply' \in Replies
  <2>1. m.id \in Int
    BY <1>1, MessagesAssumption DEF Message
  <2>2. <<"start", m.id>> \in Byte /\ <<>> \in Seq(Byte)
    BY <2>1, EmptySeq DEF Byte
  <2>3. QED
    BY <2>2 DEF Replies
<1>4. op'.await = "body" /\ op'.n = Len(Body(m))
  BY <1>2, StartsRead
<1>5. Payload(m) = Body(m)
  BY DEF Payload
<1>6. Current' = m /\ Behind' = Behind /\ Len(delivered') < Len(sent')
  BY DEF Current, Behind, netVars, writeVars
<1>7. Expects(q)'
  BY <1>4, <1>5, <1>6 DEF Expects, IsWellFormed
<1>8. IInv'
  BY <1>1, <1>2, <1>3, <1>7, ReadsOn
<1>9. StreamStep
  BY <1>4, StreamSame DEF netVars, writeVars
<1>10. QED
  BY <1>8, <1>9

\* The size of the first chunk is read.
LEMMA ReadsFirstSize ==
    ASSUME IInv, op.await = "headers", failure = "none", Len(delivered) < Len(sent),
           NEW m, m = Current, NEW rest \in Seq(Byte), m_Streambuf' = rest,
           NEW q \in Seq(Byte), Joins(q, Payload(m), Behind), Stands(rest, q),
           m.framing = "chunked", m.defect \in {"fine", "size"},
           asyncRead("size", 0, rest),
           reply' = [start |-> <<"start", m.id>>, body |-> <<>>],
           UNCHANGED <<netVars, delivered, failure>>
    PROVE  IInv' /\ StreamStep
<1>1. Typed /\ m \in Messages
  BY CurrentTyped DEF IInv
<1>2. reply' \in Replies
  <2>1. m.id \in Int
    BY <1>1, MessagesAssumption DEF Message
  <2>2. <<"start", m.id>> \in Byte /\ <<>> \in Seq(Byte)
    BY <2>1, EmptySeq DEF Byte
  <2>3. QED
    BY <2>2 DEF Replies
<1>3. op'.await = "size"
  BY StartsRead
<1>4. Payload(m) = ChunksLeft(m, 0) /\ reply'.body = BodySoFar(m, 0)
  BY <1>1, AllChunksLeft, BodyGrows
<1>5. 0 \in 0 .. Len(m.chunks)
  BY <1>1, AllChunksAre
<1>6. Current' = m /\ Behind' = Behind /\ Len(delivered') < Len(sent')
  BY DEF Current, Behind, netVars, writeVars
<1>7. Expects(q)'
  BY <1>3, <1>4, <1>5, <1>6 DEF Expects
<1>8. IInv'
  BY <1>1, <1>2, <1>7, ReadsOn
<1>9. StreamStep
  BY <1>3, StreamSame DEF netVars, writeVars
<1>10. QED
  BY <1>8, <1>9

\* A message without a body is complete.
LEMMA NoBody ==
    ASSUME IInv, op.await = "headers", failure = "none", Len(delivered) < Len(sent),
           NEW m, m = Current, NEW rest \in Seq(Byte), m_Streambuf' = rest,
           NEW q \in Seq(Byte), Joins(q, Payload(m), Behind), Stands(rest, q),
           m.framing = "none", m.defect = "fine",
           processReply([start |-> <<"start", m.id>>, body |-> <<>>]),
           UNCHANGED netVars
    PROVE  IInv' /\ StreamStep
<1>1. Typed /\ m \in Messages /\ Behind \in Seq(Byte)
  BY CurrentTyped DEF IInv
<1>2. PICK r : r = [start |-> <<"start", m.id>>, body |-> <<>>]
  OBVIOUS
<1>3. r \in Replies
  <2>1. m.id \in Int
    BY <1>1, MessagesAssumption DEF Message
  <2>2. <<"start", m.id>> \in Byte /\ <<>> \in Seq(Byte)
    BY <2>1, EmptySeq DEF Byte
  <2>3. QED
    BY <1>2, <2>2 DEF Replies
<1>4. q = Behind
  <2>1. Payload(m) = <<>>
    BY DEF Payload
  <2>2. Joins(q, <<>>, Behind)
    BY <2>1
  <2>3. QED
    BY <1>1, <2>2, JoinNothing
<1>5. processReply(r) /\ Stands(rest, Behind)
  BY <1>2, <1>4
<1>6. IInv'
  BY <1>1, <1>3, <1>5, HandsOver
<1>7. Reply(m) = r
  <2>1. m.chunks = <<>>
    BY <1>1, MessagesAssumption
  <2>2. Body(m) = <<>>
    BY <2>1, FlattenEmpty DEF Body
  <2>3. QED
    BY <1>2, <2>2 DEF Reply
<1>8. StreamStep
  BY <1>1, <1>5, <1>7, StreamDelivered DEF IsWellFormed, netVars, writeVars
<1>9. QED
  BY <1>6, <1>8

\* What follows the headers is what they announce.
LEMMA AfterHeadersKeeps ==
    ASSUME IInv, op.await = "headers", failure = "none", Len(delivered) < Len(sent),
           NEW m, m = Current, NEW rest \in Seq(Byte), m_Streambuf' = rest,
           NEW q \in Seq(Byte), Joins(q, Payload(m), Behind), Stands(rest, q),
           m.defect \in Parsed, UNCHANGED netVars, AfterHeaders(Text(m), rest)
    PROVE  IInv' /\ StreamStep
<1>1. Typed /\ m \in Messages
  BY CurrentTyped DEF IInv
<1>2. PICK lengths, chunked : /\ lengths = Headers(Text(m), "Content-Length")
                              /\ chunked = Headers(Text(m), "chunked")
  OBVIOUS
<1>3. PICK r : r = [start |-> <<"start", m.id>>, body |-> <<>>]
  OBVIOUS
<1>4. r = [start |-> FirstLine(Text(m))[1], body |-> <<>>]
  BY <1>1, <1>3, StartLineRead
<1>5. \/ (\E header \in lengths : header[2] < 0) /\ Fail("protocol")
      \/ /\ ~ \E header \in lengths : header[2] < 0
         /\ \E header \in lengths : asyncRead("body", header[2], rest)
         /\ reply' = r
         /\ UNCHANGED <<delivered, failure>>
      \/ /\ lengths = {} /\ chunked # {}
         /\ asyncRead("size", 0, rest)
         /\ reply' = r
         /\ UNCHANGED <<delivered, failure>>
      \/ /\ lengths = {} /\ chunked = {}
         /\ processReply(r)
  BY <1>2, <1>4 DEF AfterHeaders, LengthRejected
<1>6. /\ m.framing \in Framings
      /\ m.defect = "length" => m.framing = "length"
      /\ m.defect = "size" => m.framing = "chunked"
  BY <1>1, MessagesAssumption DEF Message
<1>7. CASE m.framing = "length"
  <2>1. PICK f : f = Field(m)
    OBVIOUS
  <2>2. /\ f[1] = "Content-Length"
        /\ f[2] = IF m.defect = "length" THEN -1 ELSE Len(Body(m))
    BY <1>1, <1>7, <2>1, FieldIs
  <2>3. m.framing # "none"
    BY <1>7
  <2>4. lengths = {f}
    BY <1>1, <1>2, <2>1, <2>2, <2>3, OneHeader
  <2>5. Len(Body(m)) \in Nat
    BY <1>1, BodyTyped
  <2>6. CASE m.defect = "length"
    <3>1. f[2] < 0
      BY <2>2, <2>6
    <3>2. Fail("protocol")
      BY <1>5, <2>4, <3>1
    <3>3. IInv'
      BY <3>2, GivesUp
    <3>4. ~IsWellFormed(Current)
      BY <2>6 DEF IsWellFormed
    <3>5. StreamStep
      BY <1>1, <3>2, <3>4, StreamFailed DEF netVars, writeVars
    <3>6. QED
      BY <3>3, <3>5
  <2>7. CASE m.defect # "length"
    <3>1. m.defect = "fine"
      BY <1>6, <1>7, <2>7 DEF Parsed
    <3>2. f[2] = Len(Body(m)) /\ ~ (f[2] < 0)
      BY <2>2, <2>5, <2>7
    <3>3. asyncRead("body", Len(Body(m)), rest) /\ reply' = r /\ UNCHANGED <<delivered, failure>>
      BY <1>5, <2>4, <3>2
    <3>4. QED
      BY <1>3, <1>7, <3>1, <3>3, ReadsBody
  <2>8. QED
    BY <2>6, <2>7
<1>8. CASE m.framing = "chunked"
  <2>1. PICK f : f = Field(m)
    OBVIOUS
  <2>2. f[1] = "chunked" /\ m.framing # "none"
    BY <1>1, <1>8, <2>1, FieldIs
  <2>3. chunked = {f} /\ lengths = {}
    BY <1>1, <1>2, <2>1, <2>2, OneHeader
  <2>4. asyncRead("size", 0, rest) /\ reply' = r /\ UNCHANGED <<delivered, failure>>
    BY <1>5, <2>3
  <2>5. m.defect \in {"fine", "size"}
    BY <1>6, <1>8 DEF Parsed
  <2>6. QED
    BY <1>3, <1>8, <2>4, <2>5, ReadsFirstSize
<1>9. CASE m.framing = "none"
  <2>1. lengths = {} /\ chunked = {}
    BY <1>1, <1>2, <1>9, NoHeaders
  <2>2. processReply(r)
    BY <1>5, <2>1
  <2>3. m.defect = "fine"
    BY <1>6, <1>9 DEF Parsed
  <2>4. QED
    BY <1>3, <1>9, <2>2, <2>3, NoBody
<1>10. QED
  BY <1>6, <1>7, <1>8, <1>9 DEF Framings

LEMMA HandleHeadersKeeps ==
    ASSUME IInv, handleHeaders
    PROVE  IInv' /\ StreamStep
<1>1. op.await = "headers" /\ op.done = "matched" /\ UNCHANGED netVars
  BY DEF handleHeaders, Completed
<1>2. Found(EmptyLine, m_Streambuf)
  BY <1>1 DEF IInv, Searched, ConditionHolds, EmptyLine
<1>3. PICK rest : rest = After(EmptyLine, m_Streambuf)
  OBVIOUS
<1>4. PICK m : m = Current
  OBVIOUS
<1>5. /\ failure = "none" /\ Len(delivered) < Len(sent)
      /\ Before(EmptyLine, m_Streambuf) = Text(m) /\ rest \in Seq(Byte)
      /\ \E q \in Seq(Byte) : Joins(q, Payload(m), Behind) /\ Stands(rest, q)
  BY <1>1, <1>2, <1>3, <1>4, HeadersRead
<1>6. /\ m_Streambuf' = rest
      /\ IF BadStartLine(FirstLine(Text(m))) THEN Fail("protocol")
         ELSE AfterHeaders(Text(m), rest)
  BY <1>2, <1>3, <1>5 DEF handleHeaders, EmptyLine
<1>7. Typed /\ m \in Messages
  BY <1>4, <1>5, CurrentTyped DEF IInv
<1>8. CASE m.defect \notin Parsed
  <2>1. Fail("protocol")
    BY <1>6, <1>7, <1>8, StartLineRead
  <2>2. IInv'
    BY <1>1, <1>5, <1>6, <2>1, GivesUp
  <2>3. ~IsWellFormed(Current)
    BY <1>4, <1>8 DEF IsWellFormed, Parsed
  <2>4. StreamStep
    BY <1>1, <1>5, <1>7, <2>1, <2>3, StreamFailed DEF netVars, writeVars
  <2>5. QED
    BY <2>2, <2>4
<1>9. CASE m.defect \in Parsed
  <2>1. AfterHeaders(Text(m), rest)
    BY <1>6, <1>7, <1>9, StartLineRead
  <2>2. PICK q \in Seq(Byte) : Joins(q, Payload(m), Behind) /\ Stands(rest, q)
    BY <1>5
  <2>3. QED
    BY <1>1, <1>4, <1>5, <1>6, <1>9, <2>1, <2>2, AfterHeadersKeeps
<1>10. QED
  BY <1>8, <1>9

-----------------------------------------------------------------------------
(* The handlers of the body and of the chunks.                               *)

LEMMA ReplyWith ==
    ASSUME NEW r \in Replies, NEW s, r.start = s, NEW p
    PROVE  [r EXCEPT !.body = p] = [start |-> s, body |-> p]
  BY DEF Replies

LEMMA HandleBodyKeeps ==
    ASSUME IInv, handleBody
    PROVE  IInv' /\ StreamStep
<1>1. op.await = "body" /\ op.done = "matched" /\ UNCHANGED netVars
  BY DEF handleBody, Completed
<1>2. Len(m_Streambuf) >= op.n
  BY <1>1 DEF IInv, Searched, ConditionHolds
<1>3. Typed /\ m_Streambuf \in Seq(Byte) /\ wire \in Seq(Byte) /\ op.n \in Nat
  BY DEF IInv, Typed, Operation
<1>4. /\ m_Streambuf' = Drop(op.n, m_Streambuf)
      /\ processReply([reply EXCEPT !.body = Take(op.n, m_Streambuf)])
  <2>1. ~ (Len(m_Streambuf) < op.n)
    BY <1>2, <1>3
  <2>2. QED
    BY <2>1 DEF handleBody, consume
<1>5. PICK r \in Seq(Byte) : Expects(r) /\ Stands(m_Streambuf, r)
  BY <1>1, ReadingIs
<1>6. PICK m, b : m = Current /\ b = Behind
  OBVIOUS
<1>7. /\ Len(delivered) < Len(sent) /\ reply.start = <<"start", m.id>>
      /\ IsWellFormed(m) /\ op.n = Len(Body(m)) /\ Joins(r, Body(m), b)
  BY <1>1, <1>5, <1>6 DEF Expects
<1>8. m \in Messages
  BY <1>3, <1>6, <1>7, CurrentTyped
<1>9. b \in Seq(Byte)
  BY <1>3, <1>6, <1>7, CurrentTyped
<1>10. PICK t \in Seq(Byte) : Missing(t) /\ Held(m_Streambuf, wire, t, r)
  BY <1>5 DEF Stands
<1>11. PICK p : p = Body(m)
  OBVIOUS
<1>12. p \in Seq(Byte)
  BY <1>8, <1>11, BodyTyped
<1>13. Joins(r, p, b) /\ Len(p) <= Len(m_Streambuf)
  BY <1>2, <1>3, <1>7, <1>11
<1>14. /\ Take(Len(p), m_Streambuf) = p /\ Drop(Len(p), m_Streambuf) \in Seq(Byte)
       /\ Held(Drop(Len(p), m_Streambuf), wire, t, b)
  BY <1>3, <1>9, <1>10, <1>12, <1>13, HeldConsumed
<1>15. m_Streambuf' \in Seq(Byte) /\ Stands(m_Streambuf', b)
  BY <1>4, <1>7, <1>10, <1>11, <1>14 DEF Stands
<1>16. [reply EXCEPT !.body = Take(op.n, m_Streambuf)] = Reply(m)
  <2>1. PICK s : s = <<"start", m.id>>
    OBVIOUS
  <2>2. Take(op.n, m_Streambuf) = p
    BY <1>7, <1>11, <1>14
  <2>3. reply \in Replies /\ reply.start = s
    BY <1>3, <1>7, <2>1 DEF Typed
  <2>4. [reply EXCEPT !.body = p] = [start |-> s, body |-> p]
    BY <2>3, ReplyWith
  <2>5. QED
    BY <1>11, <2>1, <2>2, <2>4 DEF Reply
<1>17. Reply(m) \in Replies
  <2>1. reply.start \in Byte \union {<<>>}
    BY <1>3 DEF Typed, Replies
  <2>2. QED
    BY <1>7, <1>11, <1>12, <2>1 DEF Reply, Replies
<1>18. processReply(Reply(m)) /\ failure = "none"
  BY <1>1, <1>4, <1>16, ReadingIs
<1>19. IInv'
  <2>1. PICK buf : buf = m_Streambuf'
    OBVIOUS
  <2>2. buf \in Seq(Byte) /\ m_Streambuf' = buf /\ Stands(buf, Behind)
    BY <1>6, <1>15, <2>1
  <2>3. QED
    BY <1>1, <1>7, <1>17, <1>18, <2>2, HandsOver
<1>20. StreamStep
  BY <1>1, <1>3, <1>6, <1>7, <1>18, StreamDelivered DEF netVars, writeVars
<1>21. QED
  BY <1>19, <1>20

\* What the handler of a chunk size finds: the size, and the chunk behind it.
LEMMA SizeRead ==
    ASSUME IInv, op.await = "size", Found(CRLF, m_Streambuf)
    PROVE  /\ failure = "none" /\ Len(delivered) < Len(sent)
           /\ reply.start = <<"start", Current.id>> /\ Current.framing = "chunked"
           /\ Current.defect \in {"fine", "size"}
           /\ After(CRLF, m_Streambuf) \in Seq(Byte)
           /\ \E j \in 0 .. Len(Current.chunks) : \E v, s, q \in Seq(Byte) :
                /\ reply.body = BodySoFar(Current, j)
                /\ Before(CRLF, m_Streambuf)
                     = <<ChunkSize(Current, Len(AllChunks(Current)[j + 1]))>>
                /\ Joins(v, AllChunks(Current)[j + 1], CRLF)
                /\ Joins(s, ChunksLeft(Current, j + 1), Behind)
                /\ Joins(q, v, s)
                /\ Stands(After(CRLF, m_Streambuf), q)
<1>1. Typed /\ m_Streambuf \in Seq(Byte) /\ wire \in Seq(Byte)
  BY DEF IInv, Typed
<1>2. failure = "none" /\ \E r \in Seq(Byte) : Expects(r) /\ Stands(m_Streambuf, r)
  BY ReadingIs
<1>3. PICK r \in Seq(Byte) : Expects(r) /\ Stands(m_Streambuf, r)
  BY <1>2
<1>4. PICK t \in Seq(Byte) : Missing(t) /\ Held(m_Streambuf, wire, t, r)
  BY <1>3 DEF Stands
<1>5. PICK m, b : m = Current /\ b = Behind
  OBVIOUS
<1>6. /\ Len(delivered) < Len(sent) /\ reply.start = <<"start", m.id>>
      /\ m.framing = "chunked" /\ m.defect \in {"fine", "size"}
      /\ \E j \in 0 .. Len(m.chunks) :
           reply.body = BodySoFar(m, j) /\ Joins(r, ChunksLeft(m, j), b)
  BY <1>3, <1>5 DEF Expects
<1>7. m \in Messages
  BY <1>1, <1>5, <1>6, CurrentTyped
<1>8. b \in Seq(Byte)
  BY <1>1, <1>5, <1>6, CurrentTyped
<1>9. PICK j \in 0 .. Len(m.chunks) :
           reply.body = BodySoFar(m, j) /\ Joins(r, ChunksLeft(m, j), b)
  BY <1>6
<1>10. PICK c : c = AllChunks(m)[j + 1]
  OBVIOUS
<1>11. c \in Seq(Byte) /\ Len(c) \in Nat
  BY <1>7, <1>10, ChunksLeftAre
<1>12. PICK z, v, s, q \in Seq(Byte) :
              /\ Joins(z, <<ChunkSize(m, Len(c))>>, CRLF)
              /\ Joins(v, c, CRLF) /\ Joins(s, ChunksLeft(m, j + 1), b)
              /\ Joins(q, v, s) /\ Joins(r, z, q)
  BY <1>7, <1>8, <1>9, <1>10, SizeBefore
<1>13. PICK h : h = <<ChunkSize(m, Len(c))>>
  OBVIOUS
<1>14. h \in Seq(Byte) /\ Ends(h, CRLF)
  BY <1>7, <1>11, <1>13, SizeEnds
<1>15. CRLF \in Seq(Byte) /\ CRLF # <<>>
  BY CRLFTyped
<1>16. Joins(z, h, CRLF) /\ Joins(r, z, q)
  BY <1>12, <1>13
<1>17. /\ Before(CRLF, m_Streambuf) = h /\ After(CRLF, m_Streambuf) \in Seq(Byte)
       /\ Held(After(CRLF, m_Streambuf), wire, t, q)
  BY <1>1, <1>4, <1>14, <1>15, <1>16, HeldReadUntil
<1>18. Stands(After(CRLF, m_Streambuf), q)
  BY <1>4, <1>17 DEF Stands
<1>19. /\ reply.body = BodySoFar(m, j)
       /\ Before(CRLF, m_Streambuf) = <<ChunkSize(m, Len(AllChunks(m)[j + 1]))>>
       /\ Joins(v, AllChunks(m)[j + 1], CRLF) /\ Joins(s, ChunksLeft(m, j + 1), b)
       /\ Joins(q, v, s)
  BY <1>9, <1>10, <1>12, <1>13, <1>17
<1>20. QED
  BY <1>2, <1>5, <1>6, <1>17, <1>18, <1>19

LEMMA StartProcessChunkKeeps ==
    ASSUME IInv, startProcessChunk
    PROVE  IInv' /\ StreamStep
<1>1. op.await = "size" /\ op.done = "matched" /\ UNCHANGED netVars
  BY DEF startProcessChunk, Completed
<1>2. Found(CRLF, m_Streambuf)
  BY <1>1 DEF IInv, Searched, ConditionHolds
<1>3. PICK m, b : m = Current /\ b = Behind
  OBVIOUS
<1>4. PICK rest, line : rest = After(CRLF, m_Streambuf) /\ line = Before(CRLF, m_Streambuf)
  OBVIOUS
<1>5. /\ failure = "none" /\ Len(delivered) < Len(sent)
      /\ reply.start = <<"start", m.id>> /\ m.framing = "chunked"
      /\ m.defect \in {"fine", "size"} /\ rest \in Seq(Byte)
      /\ \E j \in 0 .. Len(m.chunks) : \E v, s, q \in Seq(Byte) :
           /\ reply.body = BodySoFar(m, j)
           /\ line = <<ChunkSize(m, Len(AllChunks(m)[j + 1]))>>
           /\ Joins(v, AllChunks(m)[j + 1], CRLF)
           /\ Joins(s, ChunksLeft(m, j + 1), b) /\ Joins(q, v, s)
           /\ Stands(rest, q)
  BY <1>1, <1>2, <1>3, <1>4, SizeRead
<1>6. PICK j \in 0 .. Len(m.chunks), v, s, q \in Seq(Byte) :
           /\ reply.body = BodySoFar(m, j)
           /\ line = <<ChunkSize(m, Len(AllChunks(m)[j + 1]))>>
           /\ Joins(v, AllChunks(m)[j + 1], CRLF)
           /\ Joins(s, ChunksLeft(m, j + 1), b) /\ Joins(q, v, s)
           /\ Stands(rest, q)
  BY <1>5
<1>7. Typed /\ m \in Messages /\ reply \in Replies
  BY <1>3, <1>5, CurrentTyped DEF IInv, Typed
<1>8. PICK n : n = Len(AllChunks(m)[j + 1])
  OBVIOUS
<1>9. n \in Nat
  BY <1>7, <1>8, ChunksLeftAre
<1>10. PICK e : e = ChunkSize(m, n)
  OBVIOUS
<1>11. e[1] = "hex" /\ e[2] = IF m.defect = "size" THEN -1 ELSE n
  BY <1>7, <1>9, <1>10, SizeIs
<1>12. Len(line) = 1 /\ line[1] = e
  BY <1>6, <1>8, <1>10
<1>13. /\ m_Streambuf' = rest
       /\ \/ ~ (Len(line) = 1 /\ line[1][1] = "hex" /\ line[1][2] >= 0) /\ Fail("protocol")
          \/ /\ Len(line) = 1 /\ line[1][1] = "hex" /\ line[1][2] >= 0
             /\ asyncRead("chunk", line[1][2], rest)
             /\ UNCHANGED <<reply, delivered, failure>>
  BY <1>2, <1>4 DEF startProcessChunk
<1>14. CASE m.defect = "size"
  <2>1. ~ (line[1][2] >= 0)
    BY <1>11, <1>12, <1>14
  <2>2. Fail("protocol")
    BY <1>13, <2>1
  <2>3. IInv'
    BY <1>1, <1>5, <1>13, <2>2, GivesUp
  <2>4. ~IsWellFormed(Current) /\ op.await # "nothing"
    BY <1>1, <1>3, <1>14 DEF IsWellFormed
  <2>5. StreamStep
    BY <1>1, <1>5, <1>7, <2>2, <2>4, StreamFailed DEF netVars, writeVars
  <2>6. QED
    BY <2>3, <2>5
<1>15. CASE m.defect = "fine"
  <2>1. line[1][1] = "hex" /\ line[1][2] = n /\ n >= 0
    BY <1>9, <1>11, <1>12, <1>15
  <2>2. asyncRead("chunk", n, rest) /\ UNCHANGED <<reply, delivered, failure>>
    BY <1>12, <1>13, <2>1
  <2>3. op'.await = "chunk" /\ op'.n = n
    BY <1>5, <1>9, <2>2, StartsRead
  <2>4. Current' = m /\ Behind' = b /\ Len(delivered') < Len(sent')
    BY <1>1, <1>3, <1>5, <2>2 DEF Current, Behind, netVars, writeVars
  <2>5. Expects(q)'
    BY <1>5, <1>6, <1>8, <1>15, <2>2, <2>3, <2>4 DEF Expects, IsWellFormed
  <2>6. IInv'
    BY <1>1, <1>5, <1>6, <1>7, <1>9, <1>13, <2>2, <2>5, ReadsOn
  <2>7. StreamStep
    BY <1>1, <2>2, <2>3, StreamSame DEF netVars, writeVars
  <2>8. QED
    BY <2>6, <2>7
<1>16. QED
  BY <1>5, <1>14, <1>15

\* What the handler of a chunk finds: the chunk, its line end, and what is behind.
LEMMA ChunkRead ==
    ASSUME IInv, op.await = "chunk", Len(m_Streambuf) >= op.n + 2
    PROVE  /\ failure = "none" /\ Len(delivered) < Len(sent)
           /\ reply.start = <<"start", Current.id>> /\ Current.framing = "chunked"
           /\ IsWellFormed(Current)
           /\ Drop(op.n + 2, m_Streambuf) \in Seq(Byte)
           /\ \E j \in 0 .. Len(Current.chunks) : \E q \in Seq(Byte) :
                /\ reply.body = BodySoFar(Current, j)
                /\ op.n = Len(AllChunks(Current)[j + 1])
                /\ Take(op.n, m_Streambuf) = AllChunks(Current)[j + 1]
                /\ Joins(q, ChunksLeft(Current, j + 1), Behind)
                /\ Stands(Drop(op.n + 2, m_Streambuf), q)
<1>1. Typed /\ m_Streambuf \in Seq(Byte) /\ wire \in Seq(Byte)
  BY DEF IInv, Typed
<1>2. failure = "none" /\ \E r \in Seq(Byte) : Expects(r) /\ Stands(m_Streambuf, r)
  BY ReadingIs
<1>3. PICK r \in Seq(Byte) : Expects(r) /\ Stands(m_Streambuf, r)
  BY <1>2
<1>4. PICK t \in Seq(Byte) : Missing(t) /\ Held(m_Streambuf, wire, t, r)
  BY <1>3 DEF Stands
<1>5. PICK m, b : m = Current /\ b = Behind
  OBVIOUS
<1>6. /\ Len(delivered) < Len(sent) /\ reply.start = <<"start", m.id>>
      /\ m.framing = "chunked" /\ IsWellFormed(m)
      /\ \E j \in 0 .. Len(m.chunks) : \E w, q \in Seq(Byte) :
           /\ reply.body = BodySoFar(m, j)
           /\ op.n = Len(AllChunks(m)[j + 1])
           /\ Joins(w, AllChunks(m)[j + 1], CRLF)
           /\ Joins(q, ChunksLeft(m, j + 1), b)
           /\ Joins(r, w, q)
  BY <1>3, <1>5 DEF Expects
<1>7. m \in Messages
  BY <1>1, <1>5, <1>6, CurrentTyped
<1>8. PICK j \in 0 .. Len(m.chunks), w, q \in Seq(Byte) :
           /\ reply.body = BodySoFar(m, j)
           /\ op.n = Len(AllChunks(m)[j + 1])
           /\ Joins(w, AllChunks(m)[j + 1], CRLF)
           /\ Joins(q, ChunksLeft(m, j + 1), b)
           /\ Joins(r, w, q)
  BY <1>6
<1>9. PICK c : c = AllChunks(m)[j + 1]
  OBVIOUS
<1>10. c \in Seq(Byte) /\ op.n = Len(c) /\ op.n \in Nat
  BY <1>7, <1>8, <1>9, ChunksLeftAre
<1>11. CRLF \in Seq(Byte) /\ c \in Seq(Byte)
  BY <1>10, CRLFTyped
<1>12. Joins(w, c, CRLF) /\ Joins(r, w, q)
  BY <1>8, <1>9
<1>13. Len(w) = Len(c) + Len(CRLF)
  BY <1>11, <1>12, JoinIs
<1>14. Len(w) = op.n + 2
  BY <1>10, <1>13, CRLFTyped
<1>15. Len(w) <= Len(m_Streambuf) /\ Len(c) <= Len(m_Streambuf)
  <2>1. Len(m_Streambuf) \in Nat
    BY <1>1
  <2>2. QED
    BY <1>10, <1>14, <2>1
<1>16. PICK y \in Seq(Byte) : Joins(r, c, y)
  BY <1>11, <1>12, JoinRight
<1>17. Take(Len(c), m_Streambuf) = c
  BY <1>1, <1>4, <1>11, <1>15, <1>16, HeldConsumed
<1>18. /\ Drop(Len(w), m_Streambuf) \in Seq(Byte)
       /\ Held(Drop(Len(w), m_Streambuf), wire, t, q)
  BY <1>1, <1>4, <1>12, <1>15, HeldConsumed
<1>19. Stands(Drop(op.n + 2, m_Streambuf), q)
  BY <1>4, <1>14, <1>18 DEF Stands
<1>20. /\ reply.body = BodySoFar(m, j) /\ op.n = Len(AllChunks(m)[j + 1])
       /\ Take(op.n, m_Streambuf) = AllChunks(m)[j + 1]
       /\ Joins(q, ChunksLeft(m, j + 1), b)
       /\ Drop(op.n + 2, m_Streambuf) \in Seq(Byte)
  BY <1>8, <1>9, <1>10, <1>14, <1>17, <1>18
<1>21. QED
  BY <1>2, <1>5, <1>6, <1>19, <1>20

\* A message is whole with its empty chunk, and not before.
LEMMA LastChunk ==
    ASSUME NEW m \in Messages, m.framing = "chunked", NEW j \in 0 .. Len(m.chunks),
           NEW c, c = AllChunks(m)[j + 1]
    PROVE  /\ Len(c) = 0 => /\ BodySoFar(m, j) \o c = Body(m)
                            /\ ChunksLeft(m, j + 1) = <<>>
           /\ Len(c) # 0 => /\ j + 1 \in 0 .. Len(m.chunks)
                            /\ BodySoFar(m, j + 1) = BodySoFar(m, j) \o c
<1>1. PICK n \in Nat : n = Len(m.chunks)
  BY AllChunksAre
<1>2. CASE j = n
  <2>1. c = <<>> /\ Len(c) = 0
    BY <1>1, <1>2, AllChunksAre
  <2>2. BodySoFar(m, j) = Body(m) /\ ChunksLeft(m, j + 1) = <<>>
    BY <1>1, <1>2, BodyGrows, AllChunksLeft
  <2>3. Body(m) \o <<>> = Body(m)
    BY BodyTyped, ConcatEmptySeq
  <2>4. QED
    BY <2>1, <2>2, <2>3
<1>3. CASE j # n
  <2>1. j \in 0 .. n - 1 /\ j + 1 \in 0 .. n /\ j + 1 \in 1 .. n
    BY <1>1, <1>3
  <2>2. c = m.chunks[j + 1]
    BY <1>1, <2>1, AllChunksAre
  <2>3. m.chunks \in Seq(Seq(Byte)) /\ j + 1 \in DOMAIN m.chunks
    BY <1>1, <2>1, BodyTyped
  <2>4. c # <<>> /\ c \in Seq(Byte)
    BY <1>1, <2>1, <2>2, <2>3, MessagesAssumption
  <2>5. Len(c) # 0
    BY <2>4, EmptySeq
  <2>6. BodySoFar(m, j + 1) = BodySoFar(m, j) \o c
    BY <1>1, <2>1, <2>2, BodyGrows
  <2>7. QED
    BY <1>1, <2>1, <2>5, <2>6
<1>4. QED
  BY <1>2, <1>3

LEMMA ProcessChunkKeeps ==
    ASSUME IInv, processChunk
    PROVE  IInv' /\ StreamStep
<1>1. op.await = "chunk" /\ op.done = "matched" /\ UNCHANGED netVars
  BY DEF processChunk, Completed
<1>2. Len(m_Streambuf) >= op.n + 2
  BY <1>1 DEF IInv, Searched, ConditionHolds
<1>3. PICK m, b : m = Current /\ b = Behind
  OBVIOUS
<1>4. PICK rest : rest = Drop(op.n + 2, m_Streambuf)
  OBVIOUS
<1>5. /\ failure = "none" /\ Len(delivered) < Len(sent)
      /\ reply.start = <<"start", m.id>> /\ m.framing = "chunked"
      /\ IsWellFormed(m) /\ rest \in Seq(Byte)
      /\ \E j \in 0 .. Len(m.chunks) : \E q \in Seq(Byte) :
           /\ reply.body = BodySoFar(m, j)
           /\ op.n = Len(AllChunks(m)[j + 1])
           /\ Take(op.n, m_Streambuf) = AllChunks(m)[j + 1]
           /\ Joins(q, ChunksLeft(m, j + 1), b)
           /\ Stands(rest, q)
  BY <1>1, <1>2, <1>3, <1>4, ChunkRead
<1>6. PICK j \in 0 .. Len(m.chunks), q \in Seq(Byte) :
           /\ reply.body = BodySoFar(m, j)
           /\ op.n = Len(AllChunks(m)[j + 1])
           /\ Take(op.n, m_Streambuf) = AllChunks(m)[j + 1]
           /\ Joins(q, ChunksLeft(m, j + 1), b)
           /\ Stands(rest, q)
  BY <1>5
<1>7. Typed /\ m \in Messages /\ reply \in Replies
  BY <1>3, <1>5, CurrentTyped DEF IInv, Typed
<1>8. b \in Seq(Byte)
  BY <1>3, <1>5, <1>7, CurrentTyped
<1>9. PICK c : c = AllChunks(m)[j + 1]
  OBVIOUS
<1>10. c \in Seq(Byte) /\ BodySoFar(m, j) \in Seq(Byte) /\ op.n = Len(c)
  BY <1>6, <1>7, <1>9, ChunksLeftAre, BodyGrows
<1>11. PICK r : r = [start |-> <<"start", m.id>>, body |-> BodySoFar(m, j) \o c]
  OBVIOUS
<1>12. r \in Replies
  <2>1. reply.start \in Byte \union {<<>>}
    BY <1>7 DEF Replies
  <2>2. BodySoFar(m, j) \o c \in Seq(Byte)
    BY <1>10, ConcatIs
  <2>3. QED
    BY <1>5, <1>11, <2>1, <2>2 DEF Replies
<1>13. [reply EXCEPT !.body = @ \o ChunkBody(op.n, m_Streambuf)] = r
  <2>1. PICK s, p : s = <<"start", m.id>> /\ p = reply.body \o ChunkBody(op.n, m_Streambuf)
    OBVIOUS
  <2>2. p = BodySoFar(m, j) \o c
    BY <1>6, <1>9, <2>1 DEF ChunkBody
  <2>3. reply.start = s
    BY <1>5, <2>1
  <2>4. [reply EXCEPT !.body = p] = [start |-> s, body |-> p]
    BY <1>7, <2>3, ReplyWith
  <2>5. QED
    BY <1>11, <2>1, <2>2, <2>4
<1>14. /\ m_Streambuf' = rest
       /\ \/ op.n = 0 /\ processReply(r)
          \/ /\ op.n # 0 /\ asyncRead("size", 0, rest) /\ reply' = r
             /\ UNCHANGED <<delivered, failure>>
  <2>1. ~ (Len(m_Streambuf) < op.n + 2)
    BY <1>2, <1>7, <1>10 DEF Typed
  <2>2. QED
    BY <1>4, <1>13, <2>1 DEF processChunk, consume
<1>15. CASE op.n = 0 /\ processReply(r)
  <2>1. BodySoFar(m, j) \o c = Body(m) /\ ChunksLeft(m, j + 1) = <<>>
    <3>1. m.framing = "chunked" /\ m \in Messages
      BY <1>5, <1>7
    <3>2. Len(c) = 0 => BodySoFar(m, j) \o c = Body(m) /\ ChunksLeft(m, j + 1) = <<>>
      BY <1>9, <3>1, LastChunk
    <3>3. QED
      BY <1>10, <1>15, <3>2
  <2>2. r = Reply(m)
    BY <1>11, <2>1 DEF Reply
  <2>3. q = b
    <3>1. Joins(q, <<>>, b)
      BY <1>6, <2>1
    <3>2. QED
      BY <1>8, <3>1, JoinNothing
  <2>4. Stands(rest, Behind)
    BY <1>3, <1>6, <2>3
  <2>5. IInv'
    BY <1>1, <1>5, <1>12, <1>14, <1>15, <2>4, HandsOver
  <2>6. op.await # "nothing" /\ IsWellFormed(Current) /\ processReply(Reply(Current))
    BY <1>1, <1>3, <1>5, <1>15, <2>2
  <2>7. StreamStep
    BY <1>1, <1>5, <1>7, <2>6, StreamDelivered DEF netVars, writeVars
  <2>8. QED
    BY <2>5, <2>7
<1>16. CASE /\ op.n # 0 /\ asyncRead("size", 0, rest) /\ reply' = r
            /\ UNCHANGED <<delivered, failure>>
  <2>1. j + 1 \in 0 .. Len(m.chunks) /\ BodySoFar(m, j + 1) = BodySoFar(m, j) \o c
    BY <1>5, <1>7, <1>9, <1>10, <1>16, LastChunk
  <2>2. op'.await = "size"
    BY <1>5, <1>16, StartsRead
  <2>3. Current' = m /\ Behind' = b /\ Len(delivered') < Len(sent')
    BY <1>1, <1>3, <1>5, <1>16 DEF Current, Behind, netVars, writeVars
  <2>4. reply'.start = <<"start", m.id>> /\ reply'.body = BodySoFar(m, j + 1)
    BY <1>11, <1>16, <2>1
  <2>5. m.defect \in {"fine", "size"} /\ m.framing = "chunked"
    BY <1>5 DEF IsWellFormed
  <2>6. Expects(q)'
    BY <1>6, <2>1, <2>2, <2>3, <2>4, <2>5 DEF Expects
  <2>7. reply' \in Replies /\ Stands(rest, q) /\ m_Streambuf' = rest
    BY <1>6, <1>12, <1>14, <1>16
  <2>8. IInv'
    BY <1>1, <1>5, <1>7, <1>16, <2>6, <2>7, ReadsOn
  <2>9. StreamStep
    BY <1>1, <1>16, <2>2, StreamSame DEF netVars, writeVars
  <2>10. QED
    BY <2>8, <2>9
<1>17. QED
  BY <1>14, <1>15, <1>16

-----------------------------------------------------------------------------
(* The connection.                                                           *)

LEMMA InitHolds ==
    ASSUME Init
    PROVE  IInv
<1>1. sent \in Seq(Messages)
  <2>1. PICK k \in 1 .. MaxMessages : sent \in [1 .. k -> Messages]
    BY DEF Init
  <2>2. k \in Nat
    BY <2>1, HttpConstants
  <2>3. QED
    BY <2>1, <2>2
<1>2. <<>> \in Seq(Byte) /\ <<>> \in Seq(Replies) /\ Len(<<>>) = 0
  BY EmptySeq
<1>3. Typed
  <2>1. NoReply \in Replies
    BY <1>2 DEF NoReply, Replies
  <2>2. Len(sent) \in Nat /\ 0 \in 0 .. Len(sent) /\ 0 <= Len(sent)
    BY <1>1
  <2>3. QED
    BY <1>1, <1>2, <2>1, <2>2, NoOpTyped DEF Init, Typed
<1>4. Searched /\ EndSeen
  BY NoOpTyped DEF Init, Searched, EndSeen
<1>5. InPlace
  <2>1. PICK r : r = Rest(0, sent)
    OBVIOUS
  <2>2. r \in Seq(Byte)
    <3>1. 0 \in 0 .. Len(sent)
      BY <1>3 DEF Init, Typed
    <3>2. QED
      BY <1>1, <2>1, <3>1, RestIs
  <2>3. Expects(r)
    BY <1>2, <2>1, NoOpTyped DEF Init, Expects
  <2>4. Unwritten \in Seq(Byte) /\ Joins(Unwritten, <<>>, r)
    BY <1>1, <1>3, <2>1, UnwrittenIs DEF Init, Typed
  <2>5. Unwritten = r
    BY <2>2, <2>4, JoinNothing
  <2>6. Missing(r)
    BY <2>5 DEF Init, Missing
  <2>7. Joins(r, <<>>, r)
    BY <2>2, JoinsNothing
  <2>8. Held(<<>>, <<>>, r, r)
    BY <2>2, <2>7 DEF Held
  <2>9. Stands(m_Streambuf, r)
    BY <2>2, <2>6, <2>8 DEF Init, Stands
  <2>10. QED
    BY <2>2, <2>3, <2>9 DEF InPlace
<1>6. QED
  BY <1>3, <1>4, <1>5 DEF IInv

LEMMA StepHolds ==
    ASSUME IInv, [Next]_httpVars
    PROVE  IInv' /\ StreamStep
<1>1. CASE asyncWrite
  <2>1. UNCHANGED <<sent, delivered, failure>> /\ op' = op
    BY <1>1 DEF asyncWrite
  <2>2. QED
    BY <1>1, <2>1, AsyncWriteKeeps, StreamSame
<1>2. CASE writeSome
  <2>1. UNCHANGED <<sent, delivered, failure>> /\ op' = op
    BY <1>2 DEF writeSome
  <2>2. QED
    BY <1>2, <2>1, WriteSomeKeeps, StreamSame
<1>3. CASE asyncResponse
  <2>1. /\ UNCHANGED <<sent, delivered, failure>> /\ op.await = "nothing"
        /\ failure = "none"
    BY <1>3 DEF asyncResponse, netVars, writeVars
  <2>2. IInv' /\ op'.await = "headers"
    BY <1>3, AsyncResponseKeeps
  <2>3. QED
    BY <2>1, <2>2, StreamAsked
<1>4. ASSUME NEW k \in 1 .. Len(wire), Receive(k)
      PROVE  IInv' /\ StreamStep
  <2>1. UNCHANGED <<sent, delivered, failure>>
    BY <1>4 DEF Receive, writeVars
  <2>2. IInv' /\ op'.await = op.await
    BY <1>4, ReceiveKeeps
  <2>3. QED
    BY <2>1, <2>2, StreamSame
<1>5. CASE ReceiveEof
  <2>1. UNCHANGED <<sent, delivered, failure>>
    BY <1>5 DEF ReceiveEof, netVars, writeVars
  <2>2. QED
    BY <1>5, <2>1, ReceiveEofKeeps, StreamSame
<1>6. ASSUME NEW k \in 0 .. Len(wire), PeerCloses(k)
      PROVE  IInv' /\ StreamStep
  <2>1. UNCHANGED <<sent, delivered, failure>> /\ op' = op
    BY <1>6 DEF PeerCloses, writeVars
  <2>2. QED
    BY <1>6, <2>1, PeerClosesKeeps, StreamSame
<1>7. CASE Cancel
  <2>1. UNCHANGED <<sent, delivered, failure>>
    BY <1>7 DEF Cancel, netVars, writeVars
  <2>2. QED
    BY <1>7, <2>1, CancelKeeps, StreamSame
<1>8. CASE ReadError
  <2>1. /\ IInv' /\ op.await # "nothing" /\ UNCHANGED netVars
        /\ \E why \in {"eof", "aborted"} : Fail(why)
    BY <1>8, ReadErrorKeeps
  <2>2. Typed /\ sent' = sent
    BY <2>1 DEF IInv, netVars, writeVars
  <2>3. QED
    BY <2>1, <2>2, StreamFailed
<1>9. CASE UNCHANGED httpVars
  <2>1. UNCHANGED <<netVars, m_Streambuf, op, reply, delivered, failure>>
    BY <1>9 DEF httpVars
  <2>2. Typed' /\ Searched'
    BY <2>1 DEF IInv, Typed, Searched, netVars, writeVars
  <2>3. EndSeen'
    <3>1. Arrived' = Arrived
      BY <2>1 DEF Arrived, netVars, writeVars
    <3>2. QED
      BY <2>1, <3>1 DEF IInv, EndSeen, netVars
  <2>4. InPlace'
    <3>1. SUFFICES ASSUME failure = "none" PROVE InPlace'
      BY <2>1 DEF InPlace
    <3>2. PICK r \in Seq(Byte) : \E buf : buf = m_Streambuf /\ Expects(r) /\ Stands(buf, r)
      BY <3>1 DEF IInv, InPlace
    <3>3. Stands(m_Streambuf, r)'
      BY <2>1, <3>2, SameStand
    <3>4. Expects(r)'
      BY <2>1, <3>2, SameExpected DEF netVars, writeVars
    <3>5. QED
      BY <2>1, <3>2, <3>3, <3>4 DEF InPlace
  <2>5. StreamStep
    BY <2>1, StreamSame DEF netVars, writeVars
  <2>6. QED
    BY <2>2, <2>3, <2>4, <2>5 DEF IInv
<1>10. QED
  BY <1>1, <1>2, <1>3, <1>4, <1>5, <1>6, <1>7, <1>8, <1>9, HandleHeadersKeeps,
     HandleBodyKeeps, StartProcessChunkKeeps, ProcessChunkKeeps DEF Next, Handlers

LEMMA Inductive == Spec => []IInv
<1>1. IInv /\ [Next]_httpVars => IInv'
  BY StepHolds
<1>2. QED
  BY <1>1, InitHolds, PTL DEF Spec

(* The values stay in their sets, and a search never begins behind what is *)
(* buffered.                                                               *)
THEOREM HttpTypes == Spec => []HttpTypeOK
<1>1. IInv => HttpTypeOK
  <2>1. SUFFICES ASSUME Typed PROVE HttpTypeOK
    BY DEF IInv
  <2>2. Len(m_Streambuf) \in Nat /\ op \in Operation
    BY <2>1 DEF Typed
  <2>3. /\ op.await \in {"nothing", "headers", "body", "size", "chunk"}
        /\ op.done \in {"no", "matched", "eof", "aborted", "blocked"}
        /\ op.n \in Nat /\ op.from \in 0 .. Len(m_Streambuf)
    BY <2>2 DEF Operation
  <2>4. QED
    BY <2>1, <2>3 DEF Typed, HttpTypeOK
<1>2. QED
  BY <1>1, Inductive, PTL

(* No handler calls a blocking read whose bytes are not buffered already:  *)
(* asyncRead's condition covers what the handler after it takes.           *)
THEOREM HttpNeverBlocks == Spec => []NeverBlocks
<1>1. IInv => NeverBlocks
  BY DEF IInv, Typed, Operation, NeverBlocks
<1>2. QED
  BY <1>1, Inductive, PTL

(* Between two messages the bytes still to be read are those of the next   *)
(* messages, from the first: no handler takes a byte too many or too few.  *)
THEOREM HttpAligned == Spec => []Aligned
<1>1. IInv => Aligned
  <2>1. SUFFICES ASSUME IInv, failure = "none", op.await = "nothing"
                 PROVE  LET unread == m_Streambuf \o wire
                                        \o IF lost = 0 THEN Unwritten ELSE <<>>
                            r == Rest(Len(delivered), sent)
                        IN  Len(unread) = Len(r) - lost /\ unread = Take(Len(unread), r)
    BY DEF Aligned, Rest, Drop
  <2>2. Typed /\ m_Streambuf \in Seq(Byte) /\ wire \in Seq(Byte) /\ lost \in Nat
    BY <2>1 DEF IInv, Typed
  <2>3. PICK r \in Seq(Byte) : r = Rest(Len(delivered), sent) /\ Stands(m_Streambuf, r)
    BY <2>1 DEF IInv, InPlace, Expects
  <2>4. PICK t \in Seq(Byte) : Missing(t) /\ Held(m_Streambuf, wire, t, r)
    BY <2>3 DEF Stands
  <2>5. PICK x \in Seq(Byte) : Joins(x, wire, t) /\ Joins(r, m_Streambuf, x)
    BY <2>4 DEF Held
  <2>6. PICK s \in Seq(Byte) : Joins(s, m_Streambuf, wire) /\ Joins(r, s, t)
    BY <2>2, <2>5, JoinLeft
  <2>7. s = m_Streambuf \o wire
    BY <2>6, JoinMade, JoinOne
  <2>8. Unwritten \in Seq(Byte)
    BY <2>2, UnwrittenIs DEF Typed
  <2>9. PICK u : u = s \o IF lost = 0 THEN Unwritten ELSE <<>>
    OBVIOUS
  <2>10. Len(r) = Len(s) + Len(t) /\ Len(s) \in Nat /\ Len(t) \in Nat
    BY <2>6, JoinIs
  <2>11. CASE lost = 0
    <3>1. t = Unwritten
      <4>1. CASE peer = "open"
        BY <2>4, <4>1 DEF Missing
      <4>2. CASE peer # "open"
        <5>1. Len(t) = 0 /\ Len(Unwritten) = 0
          BY <2>4, <2>8, <2>11, <4>2 DEF Missing
        <5>2. QED
          BY <2>8, <5>1, EmptySeq
      <4>3. QED
        BY <4>1, <4>2
    <3>2. u = r
      BY <2>6, <2>9, <2>11, <3>1 DEF Joins
    <3>3. Len(r) = Len(r) - lost
      BY <2>10, <2>11
    <3>4. Take(Len(r), r) = r
      BY DropAll
    <3>5. QED
      BY <2>3, <2>7, <2>9, <3>2, <3>3, <3>4
  <2>12. CASE lost # 0
    <3>1. u = s
      BY <2>9, <2>12, ConcatEmptySeq
    <3>2. Len(t) = lost
      BY <2>4, <2>12 DEF Missing
    <3>3. Len(u) = Len(r) - lost
      BY <2>10, <3>1, <3>2
    <3>4. u = Take(Len(u), r)
      BY <2>6, <3>1, JoinSeam
    <3>5. QED
      BY <2>3, <2>7, <2>9, <3>3, <3>4
  <2>13. QED
    BY <2>11, <2>12
<1>2. QED
  BY <1>1, Inductive, PTL

(* The end of the stream is reported behind every message that arrived     *)
(* whole: the read that meets it had all its bytes if they came.           *)
THEOREM HttpEofComesLast == Spec => []EofComesLast
<1>1. IInv => EofComesLast
  BY DEF IInv, EndSeen, EofComesLast
<1>2. QED
  BY <1>1, Inductive, PTL

(* Every asyncResponse is answered once: by the next message, whole, by    *)
(* "protocol" only if the parser cannot accept it, or by an error of the   *)
(* connection.                                                             *)
THEOREM HttpImplementsStream == Spec => ImplementsStream
<1>1. Init => Stream!Init
  <2>1. SUFFICES ASSUME Init PROVE Stream!Init
    OBVIOUS
  <2>2. sent \in Seq(Messages)
    BY <2>1, InitHolds DEF IInv, Typed
  <2>3. [i \in DOMAIN sent |-> Meaning(sent[i])] \in Seq({Meaning(m) : m \in Messages})
    BY <2>2, MeaningsAre
  <2>4. QED
    BY <2>1, <2>3, NoOpTyped DEF Init, Stream!Init
<1>2. IInv /\ [Next]_httpVars => [Stream!Next]_Stream!streamVars
  BY StepHolds DEF StreamStep
<1>3. QED
  BY <1>1, <1>2, Inductive, PTL DEF Spec, ImplementsStream, Stream!Spec

=============================================================================
