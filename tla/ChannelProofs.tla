---------------------------- MODULE ChannelProofs ----------------------------
(* Proofs about the channels of a transfer: what a channel carries           *)
(* (PackFrames) and what it is asked for (DealWants).  Both rest on what      *)
(* folds over sequences compute, which is proved first, by induction.        *)
EXTENDS PackFrames, DealWants, FiniteSetTheorems, SequenceTheorems,
        WellFoundedInduction, TLAPS

(* Lists of sequences, as FlattenSeq joins them                              *)

\* Every set of naturals that has elements has a least one.
LEMMA Least ==
  ASSUME NEW T \in SUBSET Nat, T # {}
  PROVE  \E n \in T : \A m \in T : n <= m
<1>1. PICK n \in T : \A m \in T : ~(<<m, n>> \in OpToRel(<, Nat))
  BY WFMin, NatLessThanWellFounded
<1>2. n \in Nat /\ \A m \in T : m \in Nat
  OBVIOUS
<1>3. \A m \in T : ~(m < n)
  BY <1>1 DEF OpToRel
<1>4. \A m \in T : n <= m
  BY <1>2, <1>3
<1> QED BY <1>4

\* Induction: a set that has 0 and what follows each of its elements has all
\* naturals.  The proofs below take for it the numbers of which something holds.
LEMMA NoLeastCounterexample ==
  ASSUME NEW G, 0 \in G, \A n \in Nat : n \in G => n + 1 \in G
  PROVE Nat \subseteq G
<1>1. SUFFICES ASSUME Nat \ G # {} PROVE FALSE
  OBVIOUS
<1>2. PICK n \in Nat \ G : \A m \in Nat \ G : n <= m
  BY <1>1, Least
<1>3. n # 0 /\ n - 1 \in Nat
  BY <1>2
<1>4. n - 1 \in G
  BY <1>2, <1>3
<1> QED BY <1>2, <1>3, <1>4

\* f[i] is what the first i sequences of s make together.
Flattens(f, s, S) ==
  /\ f \in [0..Len(s) -> Seq(S)]
  /\ f[0] = <<>>
  /\ \A i \in 1..Len(s) : f[i] = f[i - 1] \o s[i]

\* There is one such function only.
LEMMA FlattensUnique ==
  ASSUME NEW S, NEW s \in Seq(Seq(S)), NEW f, NEW g, Flattens(f, s, S), Flattens(g, s, S)
  PROVE f = g
<1> DEFINE G == {n \in Nat : n <= Len(s) => f[n] = g[n]}
<1>1. 0 \in G
  BY DEF Flattens
<1>2. ASSUME NEW n \in Nat, n \in G PROVE n + 1 \in G
  <2>1. SUFFICES ASSUME n + 1 <= Len(s) PROVE f[n + 1] = g[n + 1]
    OBVIOUS
  <2>2. f[n] = g[n] /\ n + 1 \in 1..Len(s) /\ (n + 1) - 1 = n
    BY <1>2, <2>1
  <2> QED BY <2>2 DEF Flattens
<1>3. Nat \subseteq G
  <2> HIDE DEF G
  <2> QED BY <1>1, <1>2, NoLeastCounterexample
<1>4. \A i \in 0..Len(s) : f[i] = g[i]
  BY <1>3
<1> QED BY <1>4 DEF Flattens

\* There is such a function, for every sequence.
LEMMA FlattensExists ==
  ASSUME NEW S, NEW s \in Seq(Seq(S))
  PROVE \E f : Flattens(f, s, S)
<1> DEFINE F(f, n) == /\ f \in [0..n -> Seq(S)]
                      /\ f[0] = <<>>
                      /\ \A i \in 1..n : f[i] = f[i - 1] \o s[i]
<1> DEFINE G == {n \in Nat : n <= Len(s) => \E f : F(f, n)}
<1>1. 0 \in G
  <2>1. F([i \in 0..0 |-> <<>>], 0)
    OBVIOUS
  <2> HIDE DEF F
  <2> QED BY <2>1
<1>2. ASSUME NEW n \in Nat, n \in G PROVE n + 1 \in G
  <2>1. SUFFICES ASSUME n + 1 <= Len(s) PROVE \E f : F(f, n + 1)
    <3> HIDE DEF F
    <3> QED OBVIOUS
  <2>2. PICK f : F(f, n)
    <3> HIDE DEF F
    <3> QED BY <1>2, <2>1
  <2>3. s[n + 1] \in Seq(S) /\ f[n] \in Seq(S)
    BY <2>1, <2>2
  <2> DEFINE g == [i \in 0..(n + 1) |-> IF i = n + 1 THEN f[n] \o s[n + 1] ELSE f[i]]
  <2>4. g \in [0..(n + 1) -> Seq(S)] /\ g[0] = <<>>
    BY <2>2, <2>3
  <2>5. ASSUME NEW i \in 1..(n + 1) PROVE g[i] = g[i - 1] \o s[i]
    <3>1. CASE i = n + 1
      <4>1. n + 1 \in 0..(n + 1) /\ n \in 0..(n + 1) /\ n # n + 1 /\ i - 1 = n
        BY <3>1
      <4>2. g[n + 1] = f[n] \o s[n + 1]
        BY <4>1
      <4>3. g[n] = f[n]
        BY <4>1
      <4> HIDE DEF g
      <4> QED BY <3>1, <4>1, <4>2, <4>3
    <3>2. CASE i # n + 1
      <4>1. i \in 1..n /\ i - 1 \in 0..n
        BY <3>2
      <4>2. g[i] = f[i] /\ g[i - 1] = f[i - 1]
        BY <4>1
      <4> HIDE DEF g
      <4> QED BY <2>2, <4>1, <4>2
    <3> QED BY <3>1, <3>2
  <2>6. F(g, n + 1)
    BY <2>4, <2>5
  <2> HIDE DEF g, F
  <2> QED BY <2>6
<1>3. Nat \subseteq G
  <2> HIDE DEF G
  <2> QED BY <1>1, <1>2, NoLeastCounterexample
<1>4. \E f : F(f, Len(s))
  <2> HIDE DEF F
  <2> QED BY <1>3
<1> QED BY <1>4 DEF Flattens

\* FlattenSeq takes the function's last value.
LEMMA FlattenIs ==
  ASSUME NEW S, NEW s \in Seq(Seq(S)), NEW f, Flattens(f, s, S)
  PROVE FlattenSeq(s) = f[Len(s)]
<1>1. CASE s = <<>>
  BY <1>1 DEF Flattens, FlattenSeq
<1>2. CASE s # <<>>
  <2> DEFINE R(h) == h = [i \in 1..Len(s) |-> IF i = 1 THEN s[i] ELSE h[i - 1] \o s[i]]
  <2> DEFINE h0 == CHOOSE h : R(h)
  <2>1. FlattenSeq(s) = h0[Len(s)]
    BY <1>2 DEF FlattenSeq
  <2>2. Len(s) \in Nat /\ Len(s) > 0
    BY <1>2
  <2> DEFINE k == [i \in 1..Len(s) |-> f[i]]
  <2>3. R(k)
    <3>1. ASSUME NEW i \in 1..Len(s) PROVE k[i] = IF i = 1 THEN s[i] ELSE k[i - 1] \o s[i]
      <4>1. f[i] = f[i - 1] \o s[i] /\ s[i] \in Seq(S) /\ f[0] = <<>> /\ k[i] = f[i]
        BY DEF Flattens
      <4>2. CASE i = 1
        <5>1. i - 1 = 0
          BY <4>2
        <5>2. f[i] = <<>> \o s[i]
          BY <4>1, <5>1
        <5>3. f[i] = s[i]
          BY <4>1, <5>2
        <5> HIDE DEF k
        <5> QED BY <4>1, <4>2, <5>3
      <4>3. CASE i # 1
        <5>1. i - 1 \in 1..Len(s)
          BY <4>3
        <5>2. k[i - 1] = f[i - 1]
          BY <5>1
        <5> HIDE DEF k
        <5> QED BY <4>1, <4>3, <5>2
      <4> QED BY <4>2, <4>3
    <3> QED BY <3>1
  <2>4. R(h0)
    <3> HIDE DEF R, k
    <3> QED BY <2>3
  <2> HIDE DEF h0
  <2> DEFINE G == {n \in Nat : (n > 0 /\ n <= Len(s)) => h0[n] = f[n]}
  <2>5. 0 \in G
    OBVIOUS
  <2>6. ASSUME NEW n \in Nat, n \in G PROVE n + 1 \in G
    <3>1. SUFFICES ASSUME n + 1 <= Len(s) PROVE h0[n + 1] = f[n + 1]
      OBVIOUS
    <3>2. n + 1 \in 1..Len(s) /\ (n + 1) - 1 = n
      BY <3>1
    <3>3. h0[n + 1] = IF n + 1 = 1 THEN s[n + 1] ELSE h0[(n + 1) - 1] \o s[n + 1]
      BY <2>4, <3>2
    <3>4. s[n + 1] \in Seq(S)
      BY <3>2
    <3>5. f[n + 1] = f[n] \o s[n + 1]
      BY <3>2 DEF Flattens
    <3>6. CASE n = 0
      <4>1. f[n] = <<>> /\ n + 1 = 1
        BY <3>6 DEF Flattens
      <4>2. f[n + 1] = s[n + 1]
        BY <3>4, <3>5, <4>1
      <4> QED BY <3>3, <4>1, <4>2
    <3>7. CASE n # 0
      <4>1. h0[n] = f[n]
        BY <2>6, <3>1, <3>7
      <4>2. n + 1 # 1
        BY <3>7
      <4> QED BY <3>2, <3>3, <3>5, <4>1, <4>2
    <3> QED BY <3>6, <3>7
  <2>7. Nat \subseteq G
    <3> HIDE DEF G
    <3> QED BY <2>5, <2>6, NoLeastCounterexample
  <2>8. h0[Len(s)] = f[Len(s)]
    BY <2>2, <2>7
  <2> QED BY <2>1, <2>8
<1> QED BY <1>1, <1>2

\* What sequences make together is a sequence.
LEMMA FlattenType ==
  ASSUME NEW S, NEW s \in Seq(Seq(S))
  PROVE FlattenSeq(s) \in Seq(S)
<1>1. PICK f : Flattens(f, s, S)
  BY FlattensExists
<1>2. FlattenSeq(s) = f[Len(s)]
  BY <1>1, FlattenIs
<1>3. f \in [0..Len(s) -> Seq(S)] /\ Len(s) \in 0..Len(s)
  BY <1>1 DEF Flattens
<1> QED BY <1>2, <1>3

\* Nothing makes nothing.
LEMMA FlattenEmpty == FlattenSeq(<<>>) = <<>>
BY DEF FlattenSeq

\* One sequence makes itself.
LEMMA FlattenOne ==
  ASSUME NEW S, NEW x \in Seq(S)
  PROVE FlattenSeq(<<x>>) = x
<1> DEFINE f == [i \in 0..1 |-> IF i = 0 THEN <<>> ELSE x]
<1>1. <<x>> \in Seq(Seq(S)) /\ Len(<<x>>) = 1
  OBVIOUS
<1>2. Flattens(f, <<x>>, S)
  <2>1. f \in [0..1 -> Seq(S)] /\ f[0] = <<>>
    OBVIOUS
  <2>2. ASSUME NEW i \in 1..1 PROVE f[i] = f[i - 1] \o <<x>>[i]
    <3>1. i = 1 /\ i - 1 = 0 /\ <<x>>[1] = x
      OBVIOUS
    <3>2. f[1] = x
      OBVIOUS
    <3>3. <<>> \o x = x
      OBVIOUS
    <3> HIDE DEF f
    <3> QED BY <2>1, <3>1, <3>2, <3>3
  <2> HIDE DEF f
  <2> QED BY <1>1, <2>1, <2>2 DEF Flattens
<1>3. f[1] = x
  OBVIOUS
<1> HIDE DEF f
<1> QED BY <1>1, <1>2, <1>3, FlattenIs

\* What two lists of sequences make together is what each of them makes.
LEMMA FlattenConcat ==
  ASSUME NEW S, NEW s \in Seq(Seq(S)), NEW t \in Seq(Seq(S))
  PROVE FlattenSeq(s \o t) = FlattenSeq(s) \o FlattenSeq(t)
<1>1. PICK f : Flattens(f, s, S)
  BY FlattensExists
<1>2. PICK g : Flattens(g, t, S)
  BY FlattensExists
<1> DEFINE m == Len(s)
<1> DEFINE n == Len(t)
<1>3. m \in Nat /\ n \in Nat
  OBVIOUS
<1>4. s \o t \in Seq(Seq(S)) /\ Len(s \o t) = m + n
  OBVIOUS
<1>5. /\ f \in [0..m -> Seq(S)] /\ f[0] = <<>>
      /\ g \in [0..n -> Seq(S)] /\ g[0] = <<>>
  BY <1>1, <1>2 DEF Flattens
<1> DEFINE h == [i \in 0..(m + n) |-> IF i <= m THEN f[i] ELSE f[m] \o g[i - m]]
<1>6. ASSUME NEW i \in 0..n PROVE m + i \in 0..(m + n) /\ h[m + i] = f[m] \o g[i]
  <2>1. m + i \in 0..(m + n) /\ (m + i) - m = i
    BY <1>3
  <2>2. CASE i = 0
    <3>1. h[m + i] = f[m] /\ g[i] = <<>> /\ f[m] \in Seq(S)
      BY <1>3, <1>5, <2>2
    <3>2. f[m] \o <<>> = f[m]
      BY <3>1
    <3> HIDE DEF h, m
    <3> QED BY <2>1, <3>1, <3>2
  <2>3. CASE i # 0
    <3>1. ~(m + i <= m)
      BY <1>3, <2>3
    <3> HIDE DEF m
    <3> QED BY <2>1, <3>1
  <2> QED BY <2>2, <2>3
<1>7. ASSUME NEW i \in 0..m PROVE h[i] = f[i]
  BY <1>3
<1>8. h \in [0..(m + n) -> Seq(S)]
  <2>1. ASSUME NEW i \in 0..(m + n) PROVE h[i] \in Seq(S)
    <3>1. CASE i <= m
      <4>1. i \in 0..m
        BY <1>3, <3>1
      <4> HIDE DEF h, m, n
      <4> QED BY <1>5, <1>7, <4>1
    <3>2. CASE ~(i <= m)
      <4>1. i - m \in 0..n /\ m + (i - m) = i /\ m \in 0..m
        BY <1>3, <3>2
      <4> HIDE DEF h, m, n
      <4>2. f[m] \in Seq(S) /\ g[i - m] \in Seq(S)
        BY <1>5, <4>1
      <4>3. h[i] = f[m] \o g[i - m]
        BY <1>6, <4>1
      <4> QED BY <4>2, <4>3
    <3> QED BY <3>1, <3>2
  <2>2. h = [i \in 0..(m + n) |-> h[i]]
    OBVIOUS
  <2> HIDE DEF h
  <2> QED BY <2>1, <2>2
<1>9. ASSUME NEW i \in 1..(m + n) PROVE h[i] = h[i - 1] \o (s \o t)[i]
  <2>1. CASE i <= m
    <3>1. i \in 1..m /\ i \in 0..m /\ i - 1 \in 0..m
      BY <1>3, <2>1
    <3>2. (s \o t)[i] = s[i]
      BY <3>1
    <3>3. f[i] = f[i - 1] \o s[i]
      BY <1>1, <3>1 DEF Flattens
    <3>4. h[i] = f[i] /\ h[i - 1] = f[i - 1]
      <4> HIDE DEF h, m
      <4> QED BY <1>7, <3>1
    <3> HIDE DEF h
    <3> QED BY <3>2, <3>3, <3>4
  <2>2. CASE ~(i <= m)
    <3> DEFINE j == i - m
    <3>1. j \in 1..n /\ j \in 0..n /\ j - 1 \in 0..n /\ m + j = i /\ m + (j - 1) = i - 1
      BY <1>3, <2>2
    <3>2. (s \o t)[i] = t[j]
      BY <1>3, <2>2
    <3>3. t[j] \in Seq(S)
      BY <3>1
    <3> HIDE DEF j
    <3>4. g[j] = g[j - 1] \o t[j]
      BY <1>2, <3>1 DEF Flattens
    <3> HIDE DEF h, m, n
    <3>5. h[i] = f[m] \o g[j]
      BY <1>6, <3>1
    <3>6. h[i - 1] = f[m] \o g[j - 1]
      BY <1>6, <3>1
    <3>7. f[m] \in Seq(S) /\ g[j - 1] \in Seq(S)
      BY <1>3, <1>5, <3>1
    <3>8. (f[m] \o g[j - 1]) \o t[j] = f[m] \o (g[j - 1] \o t[j])
      <4> DEFINE a == f[m]
      <4> DEFINE b == g[j - 1]
      <4> DEFINE c == t[j]
      <4>1. a \in Seq(S) /\ b \in Seq(S) /\ c \in Seq(S)
        BY <3>3, <3>7
      <4> HIDE DEF a, b, c
      <4>2. (a \o b) \o c = a \o (b \o c)
        BY <4>1
      <4> QED BY <4>2 DEF a, b, c
    <3> QED BY <3>2, <3>4, <3>5, <3>6, <3>8
  <2> QED BY <2>1, <2>2
<1>10. h[0] = <<>>
  BY <1>3, <1>5
<1>11. h[m + n] = f[m] \o g[n]
  <2>1. n \in 0..n
    BY <1>3
  <2> HIDE DEF h, m, n
  <2> QED BY <1>6, <2>1, Zenon
<1> HIDE DEF h, m, n
<1>12. Flattens(h, s \o t, S)
  BY <1>4, <1>8, <1>9, <1>10 DEF Flattens
<1>13. FlattenSeq(s \o t) = h[m + n]
  BY <1>4, <1>12, FlattenIs
<1>14. FlattenSeq(s) = f[m] /\ FlattenSeq(t) = g[n]
  BY <1>1, <1>2, FlattenIs DEF m, n
<1> QED BY <1>11, <1>13, <1>14

-----------------------------------------------------------------------------
(* Prefixes, suffixes and the payload of frames                              *)

\* A sequence is a prefix of what continues it.
LEMMA PrefixIntro ==
  ASSUME NEW S, NEW a \in Seq(S), NEW b \in Seq(S)
  PROVE IsPrefix(a, a \o b)
<1>1. Len(a \o b) = Len(a) + Len(b) /\ Len(a) \in Nat /\ Len(b) \in Nat /\ a \o b \in Seq(S)
  OBVIOUS
<1>2. SubSeq(a, 1, Len(a)) = a
  OBVIOUS
<1>3. SubSeq(a \o b, 1, Len(a)) = a
  <2>1. SubSeq(a \o b, 1, Len(a)) \in Seq(S) /\ Len(SubSeq(a \o b, 1, Len(a))) = Len(a)
    BY <1>1
  <2>2. \A i \in 1..Len(a) : SubSeq(a \o b, 1, Len(a))[i] = a[i]
    BY <1>1
  <2> QED BY <2>1, <2>2, SeqEqual
<1> QED BY <1>1, <1>2, <1>3 DEF IsPrefix

\* What a sequence is a prefix of continues it.
LEMMA PrefixElim ==
  ASSUME NEW S, NEW a \in Seq(S), NEW c \in Seq(S), IsPrefix(a, c)
  PROVE \E b \in Seq(S) : c = a \o b
<1> DEFINE b == SubSeq(c, Len(a) + 1, Len(c))
<1>1. Len(a) \in Nat /\ Len(c) \in Nat /\ Len(a) <= Len(c)
  BY DEF IsPrefix
<1>2. a = SubSeq(c, 1, Len(a))
  BY DEF IsPrefix
<1>3. b \in Seq(S) /\ Len(b) = Len(c) - Len(a)
  BY <1>1
<1>4. \A i \in 1..Len(a) : a[i] = c[i]
  BY <1>1, <1>2
<1>5. \A i \in 1..Len(b) : b[i] = c[Len(a) + i]
  BY <1>1
<1>6. c = a \o b
  <2> HIDE DEF b
  <2>1. a \o b \in Seq(S) /\ Len(a \o b) = Len(c)
    BY <1>1, <1>3
  <2>2. ASSUME NEW i \in 1..Len(c) PROVE c[i] = (a \o b)[i]
    <3>1. CASE i <= Len(a)
      BY <1>1, <1>3, <1>4, <3>1
    <3>2. CASE ~(i <= Len(a))
      <4>1. i - Len(a) \in 1..Len(b) /\ Len(a) + (i - Len(a)) = i
        BY <1>1, <1>3, <3>2
      <4>2. b[i - Len(a)] = c[i]
        BY <1>5, <4>1
      <4>3. (a \o b)[i] = b[i - Len(a)]
        BY <1>1, <1>3, <3>2
      <4> QED BY <4>2, <4>3
    <3> QED BY <3>1, <3>2
  <2> QED BY <2>1, <2>2, SeqEqual
<1> HIDE DEF b
<1> QED BY <1>3, <1>6

\* The tail of a suffix is a suffix.
LEMMA SuffixTail ==
  ASSUME NEW S, NEW s \in Seq(S), NEW t \in Seq(S), s # <<>>, IsSuffix(s, t)
  PROVE IsSuffix(Tail(s), t)
<1> DEFINE u == Tail(s)
<1>1. u \in Seq(S) /\ Len(u) = Len(s) - 1 /\ Len(s) \in Nat /\ Len(t) \in Nat /\ Len(s) > 0
  OBVIOUS
<1>2. \A i \in 1..Len(u) : u[i] = s[i + 1]
  OBVIOUS
<1> HIDE DEF u
<1>3. /\ Reverse(s) \in Seq(S) /\ Len(Reverse(s)) = Len(s)
      /\ Reverse(t) \in Seq(S) /\ Len(Reverse(t)) = Len(t)
  BY <1>1 DEF Reverse
<1>4. Reverse(u) \in Seq(S) /\ Len(Reverse(u)) = Len(u)
  BY <1>1 DEF Reverse
<1>5. \A i \in 1..Len(u) : Reverse(u)[i] = Reverse(s)[i]
  <2> TAKE i \in 1..Len(u)
  <2> DEFINE j == Len(u) - i + 1
  <2>1. j \in 1..Len(u) /\ j + 1 = Len(s) - i + 1 /\ i \in 1..Len(s)
    BY <1>1
  <2>2. Reverse(u)[i] = u[j]
    BY <1>1 DEF Reverse
  <2>3. Reverse(s)[i] = s[Len(s) - i + 1]
    BY <1>1, <2>1 DEF Reverse
  <2> HIDE DEF j
  <2> QED BY <1>2, <2>1, <2>2, <2>3
<1>6. Len(s) <= Len(t) /\ SubSeq(Reverse(s), 1, Len(s)) = SubSeq(Reverse(t), 1, Len(s))
  BY <1>3 DEF IsSuffix, IsPrefix
<1>7. \A i \in 1..Len(s) : Reverse(s)[i] = Reverse(t)[i]
  <2> TAKE i \in 1..Len(s)
  <2>1. SubSeq(Reverse(s), 1, Len(s))[i] = Reverse(s)[i]
    BY <1>1, <1>3
  <2>2. SubSeq(Reverse(t), 1, Len(s))[i] = Reverse(t)[i]
    BY <1>1, <1>3, <1>6
  <2> QED BY <1>6, <2>1, <2>2
<1>8. \A i \in 1..Len(u) : Reverse(u)[i] = Reverse(t)[i]
  BY <1>1, <1>5, <1>7
<1>9. SubSeq(Reverse(u), 1, Len(u)) = SubSeq(Reverse(t), 1, Len(u))
  <2>1. /\ SubSeq(Reverse(u), 1, Len(u)) \in Seq(S) /\ Len(SubSeq(Reverse(u), 1, Len(u))) = Len(u)
        /\ SubSeq(Reverse(t), 1, Len(u)) \in Seq(S) /\ Len(SubSeq(Reverse(t), 1, Len(u))) = Len(u)
    BY <1>1, <1>3, <1>4, <1>6
  <2>2. \A i \in 1..Len(u) : SubSeq(Reverse(u), 1, Len(u))[i] = SubSeq(Reverse(t), 1, Len(u))[i]
    BY <1>1, <1>3, <1>4, <1>6, <1>8
  <2> QED BY <2>1, <2>2, SeqEqual
<1>10. Len(u) <= Len(t)
  BY <1>1, <1>6
<1> QED BY <1>3, <1>4, <1>9, <1>10 DEF IsSuffix, IsPrefix, u

\* The bytes each frame carries.
Pieces(frames) == [i \in DOMAIN frames |-> IF frames[i].type = "TData" THEN frames[i].data ELSE <<>>]

\* The bytes of each frame.
LEMMA PiecesType ==
  ASSUME NEW s \in Seq(Frame)
  PROVE /\ Pieces(s) \in Seq(Seq(Nat)) /\ Len(Pieces(s)) = Len(s)
        /\ \A i \in 1..Len(s) : Pieces(s)[i] = IF s[i].type = "TData" THEN s[i].data ELSE <<>>
<1>1. \A i \in 1..Len(s) : (IF s[i].type = "TData" THEN s[i].data ELSE <<>>) \in Seq(Nat)
  BY DEF Frame
<1>2. DOMAIN s = 1..Len(s) /\ Len(s) \in Nat
  OBVIOUS
<1> QED BY <1>1, <1>2 DEF Pieces

\* A payload is a sequence of bytes.
LEMMA PayloadType ==
  ASSUME NEW s \in Seq(Frame)
  PROVE Payload(s) \in Seq(Nat)
BY PiecesType, FlattenType DEF Payload, Pieces

\* The payload of frames behind frames.
LEMMA PayloadConcat ==
  ASSUME NEW s \in Seq(Frame), NEW t \in Seq(Frame)
  PROVE Payload(s \o t) = Payload(s) \o Payload(t)
<1>1. s \o t \in Seq(Frame) /\ Len(s \o t) = Len(s) + Len(t) /\ Len(s) \in Nat /\ Len(t) \in Nat
  OBVIOUS
<1>2. Pieces(s \o t) = Pieces(s) \o Pieces(t)
  <2> DEFINE p == Pieces(s)
  <2> DEFINE q == Pieces(t)
  <2> DEFINE r == Pieces(s \o t)
  <2>1. p \in Seq(Seq(Nat)) /\ q \in Seq(Seq(Nat)) /\ r \in Seq(Seq(Nat))
    BY <1>1, PiecesType
  <2>2. Len(p) = Len(s) /\ Len(q) = Len(t) /\ Len(r) = Len(s) + Len(t)
    BY <1>1, PiecesType
  <2>3. ASSUME NEW i \in 1..(Len(s) + Len(t)) PROVE r[i] = (p \o q)[i]
    <3>1. r[i] = IF (s \o t)[i].type = "TData" THEN (s \o t)[i].data ELSE <<>>
      BY <1>1, PiecesType
    <3>2. CASE i <= Len(s)
      <4>1. (s \o t)[i] = s[i] /\ i \in 1..Len(s)
        BY <1>1, <3>2
      <4>2. p[i] = IF s[i].type = "TData" THEN s[i].data ELSE <<>>
        BY <4>1, PiecesType
      <4> HIDE DEF p, q, r
      <4>3. (p \o q)[i] = p[i]
        BY <2>1, <2>2, <4>1
      <4> QED BY <3>1, <4>1, <4>2, <4>3
    <3>3. CASE ~(i <= Len(s))
      <4>1. (s \o t)[i] = t[i - Len(s)] /\ i - Len(s) \in 1..Len(t)
        BY <1>1, <3>3
      <4>2. q[i - Len(s)] = IF t[i - Len(s)].type = "TData" THEN t[i - Len(s)].data ELSE <<>>
        BY <4>1, PiecesType
      <4> HIDE DEF p, q, r
      <4>3. (p \o q)[i] = q[i - Len(s)]
        <5>1. i \in 1..(Len(p) + Len(q)) /\ ~(i <= Len(p)) /\ Len(p) \in Nat /\ Len(q) \in Nat
          BY <1>1, <2>2, <3>3
        <5>2. (p \o q)[i] = q[i - Len(p)]
          BY <2>1, <5>1
        <5> QED BY <2>2, <5>2
      <4> QED BY <3>1, <4>1, <4>2, <4>3
    <3> QED BY <3>2, <3>3
  <2> HIDE DEF p, q, r
  <2>4. p \o q \in Seq(Seq(Nat)) /\ Len(p \o q) = Len(s) + Len(t)
    <3>1. p \o q \in Seq(Seq(Nat)) /\ Len(p \o q) = Len(p) + Len(q)
      BY <2>1
    <3> QED BY <2>2, <3>1
  <2>5. r = p \o q
    BY <2>1, <2>2, <2>3, <2>4, SeqEqual
  <2> QED BY <2>5 DEF p, q, r
<1>3. Payload(s \o t) = FlattenSeq(Pieces(s) \o Pieces(t))
  BY <1>2 DEF Payload, Pieces
<1> QED BY <1>3, PiecesType, FlattenConcat DEF Payload, Pieces

\* No frames carry no bytes.
LEMMA PayloadEmpty == Payload(<<>>) = <<>>
BY FlattenEmpty DEF Payload

\* Only a TData frame carries bytes.
LEMMA PayloadOne ==
  ASSUME NEW m \in Frame
  PROVE Payload(<<m>>) = IF m.type = "TData" THEN m.data ELSE <<>>
<1> DEFINE x == IF m.type = "TData" THEN m.data ELSE <<>>
<1>1. x \in Seq(Nat)
  BY DEF Frame
<1>2. Pieces(<<m>>) = <<x>>
  <2>1. <<m>> \in Seq(Frame) /\ Len(<<m>>) = 1 /\ <<m>>[1] = m
    OBVIOUS
  <2> DEFINE p == Pieces(<<m>>)
  <2> HIDE DEF p
  <2>2. p \in Seq(Seq(Nat)) /\ Len(p) = 1
    BY <2>1, PiecesType DEF p
  <2>3. p[1] = IF <<m>>[1].type = "TData" THEN <<m>>[1].data ELSE <<>>
    <3>1. \A i \in 1..Len(<<m>>) : p[i] = IF <<m>>[i].type = "TData" THEN <<m>>[i].data ELSE <<>>
      BY <2>1, PiecesType, Zenon DEF p
    <3>2. 1 \in 1..Len(<<m>>)
      BY <2>1
    <3> QED BY <3>1, <3>2, Zenon
  <2>4. p[1] = x
    BY <2>1, <2>3
  <2> HIDE DEF x
  <2> QED BY <1>1, <2>2, <2>4 DEF p
<1>3. Payload(<<m>>) = FlattenSeq(Pieces(<<m>>))
  BY DEF Payload, Pieces
<1> HIDE DEF x
<1>4. Payload(<<m>>) = x
  BY <1>1, <1>2, <1>3, FlattenOne
<1> QED BY <1>4 DEF x

\* The payload of the frame that is read next, and the rest.
LEMMA PayloadHead ==
  ASSUME NEW s \in Seq(Frame), s # <<>>
  PROVE Payload(s) = Payload(<<Head(s)>>) \o Payload(Tail(s))
<1>1. Head(s) \in Frame /\ Tail(s) \in Seq(Frame) /\ <<Head(s)>> \in Seq(Frame)
  OBVIOUS
<1>2. s = <<Head(s)>> \o Tail(s)
  OBVIOUS
<1> QED BY <1>1, <1>2, PayloadConcat

\* The frames before a cut carry a prefix of the bytes.
LEMMA PayloadSplit ==
  ASSUME NEW s \in Seq(Frame), NEW n \in 0..Len(s)
  PROVE /\ SubSeq(s, 1, n) \in Seq(Frame)
        /\ IsPrefix(Payload(SubSeq(s, 1, n)), Payload(s))
<1> DEFINE a == SubSeq(s, 1, n)
<1> DEFINE b == SubSeq(s, n + 1, Len(s))
<1>1. a \in Seq(Frame) /\ b \in Seq(Frame)
  OBVIOUS
<1>2. s = a \o b
  <2>1. Len(s) \in Nat /\ 1 \in 1..Len(s)+1 /\ n \in (1 - 1)..Len(s) /\ Len(s) \in n..Len(s)
    OBVIOUS
  <2>2. a \o b = SubSeq(s, 1, Len(s))
    BY <2>1, ConcatAdjacentSubSeq
  <2>3. SubSeq(s, 1, Len(s)) = s
    OBVIOUS
  <2> HIDE DEF a, b
  <2> QED BY <2>2, <2>3
<1> HIDE DEF a, b
<1>3. Payload(s) = Payload(a) \o Payload(b)
  BY <1>1, <1>2, PayloadConcat
<1>4. Payload(a) \in Seq(Nat) /\ Payload(b) \in Seq(Nat)
  BY <1>1, PayloadType
<1>5. IsPrefix(Payload(a), Payload(s))
  BY <1>3, <1>4, PrefixIntro
<1> QED BY <1>1, <1>5 DEF a

\* The bytes of the whole chunks that n bytes make.
LEMMA DivBounds ==
  ASSUME NEW n \in Nat
  PROVE /\ n \div ChunkSize \in Nat
        /\ (n \div ChunkSize) * ChunkSize <= n
        /\ n - (n \div ChunkSize) * ChunkSize < ChunkSize
        /\ (n \div ChunkSize) * ChunkSize \in Nat
<1> ChunkSize \in Nat /\ ChunkSize > 0
  BY FrameAssumption
<1>1. n \div ChunkSize \in Nat /\ (n \div ChunkSize) * ChunkSize <= n
   OBVIOUS
<1>2. n - (n \div ChunkSize) * ChunkSize < ChunkSize
   OBVIOUS
<1> QED BY <1>1, <1>2

\* The frames chunkWriter sends and the bytes it keeps are the bytes it has, in
\* their order; each frame is full.
LEMMA ChunksMake ==
  ASSUME NEW bytes \in Seq(Nat)
  PROVE /\ Chunks(bytes) \in Seq(Frame)
        /\ \A i \in DOMAIN Chunks(bytes) :
             Chunks(bytes)[i].type = "TData" /\ Len(Chunks(bytes)[i].data) \in 1..ChunkSize
        /\ Rest(bytes) \in Seq(Nat) /\ Len(Rest(bytes)) < ChunkSize
        /\ bytes = Payload(Chunks(bytes)) \o Rest(bytes)
<1> DEFINE q == Len(bytes) \div ChunkSize
<1> DEFINE L == Len(bytes)
<1>1. ChunkSize \in Nat /\ ChunkSize > 0 /\ L \in Nat
  BY FrameAssumption
<1>2. q \in Nat /\ q * ChunkSize \in Nat /\ q * ChunkSize <= L /\ L - q * ChunkSize < ChunkSize
  BY DivBounds
<1> DEFINE f == [i \in 0..q |-> SubSeq(bytes, 1, i * ChunkSize)]
<1> DEFINE piece(i) == SubSeq(bytes, (i - 1) * ChunkSize + 1, i * ChunkSize)
<1> DEFINE cs == Chunks(bytes)
<1>3. cs = [i \in 1..q |-> [type |-> "TData", data |-> piece(i)]]
  BY DEF Chunks, Data
<1> HIDE DEF q, L
<1>4. ASSUME NEW i \in 1..q
      PROVE /\ (i - 1) * ChunkSize \in Nat /\ i * ChunkSize = (i - 1) * ChunkSize + ChunkSize
            /\ i * ChunkSize <= L
  <2>1. i * ChunkSize = (i - 1) * ChunkSize + ChunkSize
    BY <1>1, <1>2
  <2>2. (i - 1) * ChunkSize \in Nat
    BY <1>1, <1>2
  <2>3. i * ChunkSize <= q * ChunkSize
    BY <1>1, <1>2
  <2> QED BY <1>1, <1>2, <2>1, <2>2, <2>3
<1>5. ASSUME NEW i \in 1..q PROVE piece(i) \in Seq(Nat) /\ Len(piece(i)) = ChunkSize
  BY <1>1, <1>4 DEF L
<1>6. cs \in Seq(Frame) /\ Len(cs) = q /\ DOMAIN cs = 1..q
  <2>1. \A i \in 1..q : [type |-> "TData", data |-> piece(i)] \in Frame
    BY <1>5 DEF Frame
  <2> HIDE DEF cs, piece
  <2> QED BY <1>2, <1>3, <2>1
<1>7. ASSUME NEW i \in 1..q PROVE cs[i].type = "TData" /\ cs[i].data = piece(i)
  <2> HIDE DEF cs, piece
  <2> QED BY <1>3
<1>8. Rest(bytes) = SubSeq(bytes, q * ChunkSize + 1, L)
  BY DEF Rest, q, L
<1>9. Rest(bytes) \in Seq(Nat) /\ Len(Rest(bytes)) < ChunkSize
  BY <1>1, <1>2, <1>8 DEF L
<1>10. Flattens(f, Pieces(cs), Nat)
  <2>1. Pieces(cs) \in Seq(Seq(Nat)) /\ Len(Pieces(cs)) = q
    BY <1>6, PiecesType
  <2>2. ASSUME NEW i \in 1..q PROVE Pieces(cs)[i] = piece(i)
    BY <1>6, <1>7, PiecesType
  <2>3. ASSUME NEW i \in 0..q PROVE f[i] \in Seq(Nat) /\ f[i] = SubSeq(bytes, 1, i * ChunkSize)
    <3>1. i * ChunkSize \in Nat /\ i * ChunkSize <= L
      <4>1. i * ChunkSize <= q * ChunkSize
        BY <1>1, <1>2
      <4> QED BY <1>1, <1>2, <4>1
    <3> QED BY <1>1, <3>1 DEF L
  <2>4. f[0] = <<>>
    BY <1>1, <1>2
  <2>5. ASSUME NEW i \in 1..q PROVE f[i] = f[i - 1] \o piece(i)
    <3>1. i \in 0..q /\ i - 1 \in 0..q
      BY <1>2
    <3>2. f[i] = SubSeq(bytes, 1, i * ChunkSize) /\ f[i - 1] = SubSeq(bytes, 1, (i - 1) * ChunkSize)
      BY <2>3, <3>1
    <3> DEFINE k == (i - 1) * ChunkSize
    <3> DEFINE n == i * ChunkSize
    <3>3. k \in 0..L /\ n \in k..L
      BY <1>1, <1>4
    <3> HIDE DEF f, k, n
    <3>4. SubSeq(bytes, 1, k) \o SubSeq(bytes, k + 1, n) = SubSeq(bytes, 1, n)
      BY <1>1, <3>3, ConcatAdjacentSubSeq DEF L
    <3> QED BY <3>2, <3>4 DEF k, n
  <2>6. f = [i \in 0..q |-> f[i]]
    OBVIOUS
  <2> HIDE DEF f, piece, cs
  <2>7. f \in [0..q -> Seq(Nat)]
    BY <2>3, <2>6
  <2>8. \A i \in 1..q : f[i] = f[i - 1] \o Pieces(cs)[i]
    BY <2>2, <2>5
  <2> QED BY <2>1, <2>4, <2>7, <2>8 DEF Flattens
<1>11. Payload(cs) = SubSeq(bytes, 1, q * ChunkSize)
  <2>1. Payload(cs) = FlattenSeq(Pieces(cs))
    BY DEF Payload, Pieces
  <2>2. Pieces(cs) \in Seq(Seq(Nat)) /\ Len(Pieces(cs)) = q
    BY <1>6, PiecesType
  <2>3. f[q] = SubSeq(bytes, 1, q * ChunkSize)
    BY <1>2
  <2> HIDE DEF f, cs
  <2> QED BY <1>10, <2>1, <2>2, <2>3, FlattenIs
<1>12. bytes = Payload(cs) \o Rest(bytes)
  <2> DEFINE k == q * ChunkSize
  <2>1. 1 \in 1..(L + 1) /\ k \in (1 - 1)..L /\ L \in k..L
    BY <1>1, <1>2
  <2> HIDE DEF k, cs
  <2>2. SubSeq(bytes, 1, k) \o SubSeq(bytes, k + 1, L) = SubSeq(bytes, 1, L)
    BY <1>1, <2>1, ConcatAdjacentSubSeq DEF L
  <2>3. SubSeq(bytes, 1, L) = bytes
    BY DEF L
  <2> QED BY <1>8, <1>11, <2>2, <2>3 DEF k
<1>13. \A i \in 1..q : Len(cs[i].data) \in 1..ChunkSize
  <2> HIDE DEF cs, piece
  <2> QED BY <1>1, <1>5, <1>7
<1> HIDE DEF f, piece
<1> QED BY <1>6, <1>7, <1>9, <1>12, <1>13

\* Frames as they may be under way.
Sound(s) ==
  /\ s \in Seq(Frame)
  /\ \A i \in DOMAIN s : s[i].type = "TData" => Len(s[i].data) \in 1..ChunkSize
\* Frames within a pack.
AllData(s) == \A i \in DOMAIN s : s[i].type = "TData"

\* Frames behind frames.
LEMMA SoundConcat ==
  ASSUME NEW s, NEW t, Sound(s), Sound(t)
  PROVE /\ Sound(s \o t)
        /\ AllData(s) /\ AllData(t) => AllData(s \o t)
<1> DEFINE u == s \o t
<1>1. s \in Seq(Frame) /\ t \in Seq(Frame)
  BY DEF Sound
<1>2. Len(s) \in Nat /\ Len(t) \in Nat /\ DOMAIN s = 1..Len(s) /\ DOMAIN t = 1..Len(t)
  BY <1>1
<1>3. u \in Seq(Frame) /\ Len(u) = Len(s) + Len(t)
  BY <1>1
<1>4. DOMAIN u = 1..(Len(s) + Len(t))
  BY <1>3
<1>5. ASSUME NEW i \in DOMAIN u
      PROVE (i \in DOMAIN s /\ u[i] = s[i]) \/ (i - Len(s) \in DOMAIN t /\ u[i] = t[i - Len(s)])
  <2>1. CASE i <= Len(s)
    <3>1. i \in DOMAIN s
      BY <1>2, <1>4, <2>1
    <3>2. u[i] = s[i]
      BY <1>1, <1>2, <1>4, <2>1
    <3> QED BY <3>1, <3>2
  <2>2. CASE ~(i <= Len(s))
    <3>1. i - Len(s) \in DOMAIN t
      BY <1>2, <1>4, <2>2
    <3>2. u[i] = t[i - Len(s)]
      BY <1>1, <1>2, <1>4, <2>2
    <3> QED BY <3>1, <3>2
  <2> QED BY <2>1, <2>2
<1> HIDE DEF u
<1>6. \A i \in DOMAIN u : u[i].type = "TData" => Len(u[i].data) \in 1..ChunkSize
  BY <1>5 DEF Sound
<1>7. AllData(s) /\ AllData(t) => AllData(u)
  BY <1>5 DEF AllData
<1> QED BY <1>3, <1>6, <1>7 DEF Sound, u

\* A frame of data of at most ChunkSize bytes.
LEMMA SoundData ==
  ASSUME NEW bytes \in Seq(Nat), bytes # <<>>, Len(bytes) <= ChunkSize
  PROVE /\ Data(bytes) \in Frame /\ Sound(<<Data(bytes)>>) /\ AllData(<<Data(bytes)>>)
        /\ Payload(<<Data(bytes)>>) = bytes
<1>1. Data(bytes) \in Frame /\ Data(bytes).type = "TData" /\ Data(bytes).data = bytes
  BY DEF Data, Frame
<1>2. Len(bytes) \in 1..ChunkSize
  BY FrameAssumption
<1>3. Payload(<<Data(bytes)>>) = bytes
  BY <1>1, PayloadOne
<1>4. <<Data(bytes)>> \in Seq(Frame) /\ DOMAIN <<Data(bytes)>> = 1..1 /\ <<Data(bytes)>>[1] = Data(bytes)
  BY <1>1
<1>5. \A i \in DOMAIN <<Data(bytes)>> : <<Data(bytes)>>[i] = Data(bytes)
  BY <1>4
<1> QED BY <1>1, <1>2, <1>3, <1>4, <1>5 DEF Sound, AllData

\* The frames that end a pack carry no bytes.
LEMMA SoundMark ==
  ASSUME NEW m \in {DataEnd, Err}
  PROVE m \in Frame /\ m.type # "TData" /\ Sound(<<m>>) /\ Payload(<<m>>) = <<>>
<1>1. m \in Frame /\ m.type # "TData"
  BY DEF DataEnd, Err, Frame
<1>2. Payload(<<m>>) = <<>>
  BY <1>1, PayloadOne
<1>3. <<m>> \in Seq(Frame) /\ DOMAIN <<m>> = 1..1 /\ <<m>>[1] = m
  BY <1>1
<1>4. \A i \in DOMAIN <<m>> : <<m>>[i] = m
  BY <1>3
<1> QED BY <1>1, <1>2, <1>3, <1>4 DEF Sound

\* Concatenations of bytes may be regrouped.
LEMMA RegroupBytes == \A a, b, c \in Seq(Nat) : (a \o b) \o c = a \o (b \o c)
<1> TAKE a, b, c \in Seq(Nat)
<1> QED OBVIOUS

\* While the sender is within a pack, nothing but its data is under way.
LEMMA OnlyData ==
  ASSUME IInv, sender \in {"add", "finish", "failed"}
  PROVE AllData(stream)
BY DEF IInv, TypeOK, EndsLast, AllData

\* chunkWriter.Write keeps the bytes in order.
LEMMA ChunkStep ==
  ASSUME TypeOK, InOrder, NEW bytes \in Seq(Nat), Chunk(bytes),
         sent' = sent \o bytes, UNCHANGED <<cut, cur, got>>
  PROVE /\ Sound(stream') /\ (AllData(stream) => AllData(stream'))
        /\ cut # "no" => stream' = stream
        /\ buf' \in Seq(Nat) /\ Len(buf') < ChunkSize
        /\ sent' \in Seq(Nat)
        /\ InOrder'
<1> DEFINE all == buf \o bytes
<1> DEFINE cs == Chunks(all)
<1> DEFINE before == got \o cur
<1>1. /\ buf \in Seq(Nat) /\ sent \in Seq(Nat) /\ all \in Seq(Nat) /\ before \in Seq(Nat)
      /\ stream \in Seq(Frame) /\ Sound(stream)
  <2>1. buf \in Seq(Nat) /\ sent \in Seq(Nat) /\ got \in Seq(Nat) /\ cur \in Seq(Nat)
    BY DEF TypeOK
  <2>2. stream \in Seq(Frame) /\ Sound(stream)
    BY DEF TypeOK, Sound
  <2> QED BY <2>1, <2>2
<1>2. stream' = (IF cut = "no" THEN stream \o cs ELSE stream) /\ buf' = Rest(all)
  BY DEF Chunk, Write
<1> HIDE DEF all, before
<1>3. cs \in Seq(Frame) /\ Sound(cs) /\ AllData(cs)
  BY <1>1, ChunksMake DEF Sound, AllData
<1>4. buf' \in Seq(Nat) /\ Len(buf') < ChunkSize /\ all = Payload(cs) \o buf'
  BY <1>1, <1>2, ChunksMake
<1> HIDE DEF cs
<1>5. Sound(stream') /\ (AllData(stream) => AllData(stream'))
  BY <1>1, <1>2, <1>3, SoundConcat
<1>6. sent' \in Seq(Nat)
  BY <1>1
<1>7. Payload(stream) \in Seq(Nat) /\ Payload(cs) \in Seq(Nat)
  BY <1>1, <1>3, PayloadType
<1>8. CASE cut = "no"
  <2>1. (before \o Payload(stream)) \o buf = sent
    BY <1>8 DEF InOrder, before
  <2>2. Payload(stream') = Payload(stream) \o Payload(cs)
    BY <1>1, <1>2, <1>3, <1>8, PayloadConcat
  <2> DEFINE x == before \o Payload(stream)
  <2>3. x \in Seq(Nat)
    BY <1>1, <1>7
  <2>4. before \o Payload(stream') = x \o Payload(cs)
    <3>1. before \in Seq(Nat)
      BY <1>1
    <3>2. (before \o Payload(stream)) \o Payload(cs) = before \o (Payload(stream) \o Payload(cs))
      BY <3>1, <1>7, RegroupBytes, Zenon
    <3> QED BY <2>2, <3>2
  <2>5. sent' = x \o all
    <3> HIDE DEF x
    <3>1. sent' = (x \o buf) \o bytes
      BY <2>1 DEF x
    <3> QED BY <1>1, <2>3, <3>1, RegroupBytes DEF all
  <2>6. sent' = (before \o Payload(stream')) \o buf'
    <3> HIDE DEF x
    <3>1. (x \o Payload(cs)) \o buf' = x \o (Payload(cs) \o buf')
      BY <1>4, <1>7, <2>3, RegroupBytes
    <3> QED BY <1>4, <2>4, <2>5, <3>1
  <2>7. before \o Payload(stream') \in Seq(Nat)
    BY <1>7, <2>2, <1>1
  <2>8. IsPrefix(before \o Payload(stream'), sent')
    BY <1>4, <2>6, <2>7, PrefixIntro
  <2> QED BY <1>5, <1>4, <1>6, <1>2, <2>6, <2>8 DEF InOrder, before
<1>9. CASE cut # "no"
  <2>1. before \o Payload(stream) \in Seq(Nat) /\ IsPrefix(before \o Payload(stream), sent)
    BY <1>1, <1>7 DEF InOrder, before
  <2> DEFINE x == before \o Payload(stream)
  <2> HIDE DEF x
  <2>2. PICK b \in Seq(Nat) : sent = x \o b
    <3>1. x \in Seq(Nat) /\ sent \in Seq(Nat) /\ IsPrefix(x, sent)
      BY <1>1, <2>1 DEF x
    <3> QED BY <3>1, PrefixElim
  <2>3. sent' = x \o (b \o bytes) /\ b \o bytes \in Seq(Nat)
    <3>1. x \in Seq(Nat) /\ sent' = (x \o b) \o bytes
      BY <2>1, <2>2 DEF x
    <3>2. b \o bytes \in Seq(Nat)
      BY <2>2
    <3>3. (x \o b) \o bytes = x \o (b \o bytes)
      BY <2>2, <3>1, RegroupBytes, Zenon
    <3> QED BY <3>1, <3>2, <3>3
  <2>4. IsPrefix(x, sent')
    BY <2>1, <2>3, PrefixIntro DEF x
  <2>5. stream' = stream
    BY <1>2, <1>9
  <2> QED BY <1>5, <1>4, <1>6, <1>2, <1>9, <2>4, <2>5 DEF InOrder, before, x
<1>10. cut # "no" => stream' = stream
  BY <1>2
<1> QED BY <1>8, <1>9, <1>10

-----------------------------------------------------------------------------
(* PackFrames: the invariant                                                 *)

\* The invariant holds in the beginning.
LEMMA InitIInv == Init => IInv
<1> SUFFICES ASSUME Init PROVE IInv
  OBVIOUS
<1> USE FrameAssumption
<1>1. PICK p \in Packs : plan = p
  BY DEF Init
<1>2. p \in Seq(Nat \ {0}) /\ p # <<>>
  OBVIOUS
<1>3. IsSuffix(plan, p)
  <2>1. Len(Reverse(p)) <= Len(Reverse(p))
    BY <1>2 DEF Reverse
  <2> QED BY <1>1, <2>1 DEF IsSuffix, IsPrefix
<1>4. TypeOK
  <2>1. packs \in 1..MaxPacks
    BY DEF Init
  <2>2. plan \in Seq(Nat \ {0}) /\ \E q \in Packs : IsSuffix(plan, q)
    BY <1>1, <1>2, <1>3
  <2>3. Len(<<>>) < ChunkSize /\ Len(<<>>) <= ChunkSize /\ <<>> \in Seq(Nat)
    OBVIOUS
  <2>4. <<>> \in Seq(Frame) /\ \A i \in DOMAIN <<>> : FALSE
    OBVIOUS
  <2>5. /\ sent \in Seq(Nat) /\ buf \in Seq(Nat) /\ Len(buf) < ChunkSize
        /\ cur \in Seq(Nat) /\ Len(cur) <= ChunkSize /\ got \in Seq(Nat)
    BY <2>3 DEF Init
  <2>6. stream \in Seq(Frame) /\ \A i \in DOMAIN stream : FALSE
    BY <2>4 DEF Init
  <2> QED BY <2>1, <2>2, <2>5, <2>6 DEF Init, TypeOK
<1>5. InOrder
  <2>1. got \o cur \o Payload(stream) = <<>> /\ got \o cur \o Payload(stream) \o buf = <<>>
    BY PayloadEmpty DEF Init
  <2>2. IsPrefix(<<>>, <<>>)
    BY DEF IsPrefix
  <2> QED BY <2>1, <2>2 DEF Init, InOrder
<1>6. EndsLast /\ Closed /\ ReadSoFar
  BY DEF Init, EndsLast, Closed, ReadSoFar
<1> QED BY <1>4, <1>5, <1>6 DEF IInv

\* A sender that gives up leaves everything as it is.
LEMMA WriteFailsStep ==
  ASSUME IInv, WriteFails, sender \in {"add", "finish"},
         UNCHANGED <<packs, cut, cur, done, err, got, reader>>
  PROVE IInv'
<1>1. TypeOK'
  BY DEF IInv, TypeOK, WriteFails
<1>2. InOrder'
  BY DEF IInv, InOrder, WriteFails
<1>3. EndsLast'
  BY DEF IInv, TypeOK, EndsLast, WriteFails
<1>4. Closed'
  BY DEF IInv, Closed, WriteFails
<1>5. ReadSoFar'
  BY DEF IInv, ReadSoFar, WriteFails
<1> QED BY <1>1, <1>2, <1>3, <1>4, <1>5 DEF IInv

\* A record is added: its bytes are numbered from 1, none is an end marker.
LEMMA AddRecordStep == IInv /\ AddRecord => IInv'
<1> SUFFICES ASSUME IInv, AddRecord PROVE IInv'
  OBVIOUS
<1>1. CASE WriteFails
  BY <1>1, WriteFailsStep DEF AddRecord
<1>2. CASE Chunk(Record) /\ sent' = sent \o Record /\ plan' = Tail(plan) /\ UNCHANGED sender
  <2> DEFINE r == Record
  <2>1. PICK p \in Packs : IsSuffix(plan, p)
    BY DEF IInv, TypeOK
  <2>2. plan \in Seq(Nat \ {0}) /\ plan # <<>> /\ p \in Seq(Nat \ {0}) /\ sent \in Seq(Nat)
    BY FrameAssumption DEF IInv, TypeOK, AddRecord
  <2>3. Head(plan) \in Nat \ {0} /\ Tail(plan) \in Seq(Nat \ {0})
    BY <2>2
  <2>4. IsSuffix(Tail(plan), p)
    BY <2>1, <2>2, SuffixTail
  <2>5. /\ r \in Seq(Nat) /\ Len(r) = Head(plan)
        /\ \A i \in 1..Len(r) : r[i] = Len(sent) + i
    <3> DEFINE h == Head(plan)
    <3> DEFINE l == Len(sent)
    <3>1. h \in Nat /\ l \in Nat /\ r = [i \in 1..h |-> l + i]
      BY <2>2, <2>3 DEF Record
    <3> HIDE DEF h, l, r
    <3>2. r \in Seq(Nat) /\ Len(r) = h /\ \A i \in 1..h : r[i] = l + i
      BY <3>1
    <3> QED BY <3>2 DEF h, l
  <2>6. /\ Chunk(r) /\ sent' = sent \o r /\ plan' = Tail(plan) /\ UNCHANGED sender
        /\ sender = "add" /\ UNCHANGED <<packs, cut, cur, done, err, got, reader>>
    BY <1>2 DEF AddRecord
  <2> HIDE DEF r
  <2>7. /\ Sound(stream') /\ (AllData(stream) => AllData(stream'))
        /\ cut # "no" => stream' = stream
        /\ buf' \in Seq(Nat) /\ Len(buf') < ChunkSize
        /\ sent' \in Seq(Nat)
        /\ InOrder'
    BY <2>5, <2>6, ChunkStep DEF IInv
  <2>8. AllData(stream')
    BY <2>6, <2>7, OnlyData
  <2>9. TypeOK'
    <3>1. plan' \in Seq(Nat \ {0}) /\ \E q \in Packs : IsSuffix(plan', q)
      BY <2>3, <2>4, <2>6
    <3> QED BY <2>6, <2>7, <3>1 DEF IInv, TypeOK, Sound
  <2>10. EndsLast'
    BY <2>6, <2>7, <2>8 DEF IInv, EndsLast, AllData
  <2>11. Closed'
    <3>1. \A i \in DOMAIN sent' : sent'[i] # End
      <4>1. \A i \in 1..Len(sent) : sent[i] # End
        BY <2>2, <2>6 DEF IInv, Closed
      <4>2. \A i \in 1..Len(r) : r[i] # End
        BY <2>2, <2>5 DEF End
      <4>3. DOMAIN sent' = 1..(Len(sent) + Len(r)) /\ Len(sent) \in Nat /\ Len(r) \in Nat
        BY <2>2, <2>5, <2>6
      <4> TAKE i \in DOMAIN sent'
      <4>4. CASE i <= Len(sent)
        <5>1. i \in 1..Len(sent) /\ sent'[i] = sent[i]
          BY <2>2, <2>5, <2>6, <4>3, <4>4
        <5> QED BY <4>1, <5>1
      <4>5. CASE ~(i <= Len(sent))
        <5>1. i - Len(sent) \in 1..Len(r) /\ i \in 1..(Len(sent) + Len(r))
          BY <4>3, <4>5
        <5>2. (sent \o r)[i] = r[i - Len(sent)]
          BY <2>2, <2>5, <4>3, <4>5, <5>1
        <5>3. sent'[i] = r[i - Len(sent)]
          BY <2>6, <5>2
        <5> QED BY <4>2, <5>1, <5>3
      <4> QED BY <4>4, <4>5
    <3> QED BY <2>6, <3>1 DEF Closed
  <2>12. ReadSoFar'
    <3>1. reader \notin {"drain", "ok"}
      <4>1. \A i \in DOMAIN sent : sent[i] # End
        BY <2>6 DEF IInv, Closed
      <4>2. sent # <<>> => Len(sent) \in DOMAIN sent
        BY <2>2
      <4> QED BY <4>1, <4>2 DEF IInv, ReadSoFar, Last
    <3> QED BY <2>6, <3>1 DEF IInv, ReadSoFar
  <2> QED BY <2>7, <2>9, <2>10, <2>11, <2>12 DEF IInv
<1> QED BY <1>1, <1>2 DEF AddRecord

\* The end marker is written behind the records.
LEMMA ClosePackStep == IInv /\ ClosePack => IInv'
<1> SUFFICES ASSUME IInv, ClosePack PROVE IInv'
  OBVIOUS
<1>1. CASE WriteFails
  BY <1>1, WriteFailsStep DEF ClosePack
<1>2. CASE Chunk(<<End>>) /\ sent' = Append(sent, End) /\ sender' = "finish" /\ UNCHANGED plan
  <2> DEFINE e == <<End>>
  <2>1. sent \in Seq(Nat) /\ End \in Nat /\ e \in Seq(Nat) /\ Len(e) = 1
    <3>1. sent \in Seq(Nat)
      BY DEF IInv, TypeOK
    <3>2. End \in Nat
      BY DEF End
    <3> QED BY <3>1, <3>2
  <2>2. sent' = sent \o e
    BY <1>2, <2>1
  <2>3. /\ Chunk(e) /\ sent' = Append(sent, End) /\ sender' = "finish" /\ UNCHANGED plan
        /\ sender = "add" /\ UNCHANGED <<packs, cut, cur, done, err, got, reader>>
    BY <1>2 DEF ClosePack
  <2> HIDE DEF e
  <2>4. /\ Sound(stream') /\ (AllData(stream) => AllData(stream'))
        /\ cut # "no" => stream' = stream
        /\ buf' \in Seq(Nat) /\ Len(buf') < ChunkSize
        /\ sent' \in Seq(Nat)
        /\ InOrder'
    BY <2>1, <2>2, <2>3, ChunkStep DEF IInv
  <2>5. AllData(stream')
    BY <2>3, <2>4, OnlyData
  <2>6. TypeOK'
    BY <2>3, <2>4 DEF IInv, TypeOK, Sound
  <2>7. EndsLast'
    BY <2>3, <2>4, <2>5 DEF IInv, EndsLast, AllData
  <2>8. \A i \in DOMAIN sent : sent[i] # End
    BY <2>3 DEF IInv, Closed
  <2>9. Closed'
    <3>1. Len(sent') = Len(sent) + 1 /\ sent' # <<>> /\ sent'[Len(sent) + 1] = End
      BY <2>1, <2>3, AppendProperties
    <3>2. \A i \in 1..Len(sent) : sent'[i] # End
      BY <2>1, <2>3, <2>8, AppendProperties
    <3>3. DOMAIN sent' = 1..(Len(sent) + 1) /\ Len(sent) \in Nat
      BY <2>1, <2>3
    <3>4. \A i \in DOMAIN sent' : sent'[i] = End => i = Len(sent')
      BY <3>1, <3>2, <3>3
    <3>5. Last(sent') = End
      BY <3>1 DEF Last
    <3> QED BY <2>3, <3>1, <3>4, <3>5 DEF Closed
  <2>10. ReadSoFar'
    <3>1. reader \notin {"drain", "ok"}
      <4>1. sent # <<>> => Len(sent) \in DOMAIN sent
        BY <2>1
      <4> QED BY <2>8, <4>1 DEF IInv, ReadSoFar, Last
    <3> QED BY <2>3, <3>1 DEF IInv, ReadSoFar
  <2> QED BY <2>4, <2>6, <2>7, <2>9, <2>10 DEF IInv
<1> QED BY <1>1, <1>2 DEF ClosePack

\* What TypeOK says of the byte sequences.
LEMMA Typed ==
  ASSUME TypeOK
  PROVE /\ sent \in Seq(Nat) /\ buf \in Seq(Nat) /\ cur \in Seq(Nat) /\ got \in Seq(Nat)
        /\ stream \in Seq(Frame) /\ Sound(stream) /\ Payload(stream) \in Seq(Nat)
        /\ Len(stream) \in Nat /\ got \o cur \in Seq(Nat)
<1>1. sent \in Seq(Nat) /\ buf \in Seq(Nat) /\ cur \in Seq(Nat) /\ got \in Seq(Nat)
  BY DEF TypeOK
<1>2. stream \in Seq(Frame) /\ Sound(stream)
  BY DEF TypeOK, Sound
<1>3. Payload(stream) \in Seq(Nat)
  BY <1>2, PayloadType
<1>4. Len(stream) \in Nat
  BY <1>2
<1>5. got \o cur \in Seq(Nat)
  BY <1>1
<1> QED BY <1>1, <1>2, <1>3, <1>4, <1>5

\* A frame that ends the pack is put behind data.
LEMMA MarkLast ==
  ASSUME NEW s, Sound(s), AllData(s), NEW m \in {DataEnd, Err}
  PROVE /\ Sound(s \o <<m>>) /\ Payload(s \o <<m>>) = Payload(s)
        /\ \A i \in DOMAIN (s \o <<m>>) :
             (s \o <<m>>)[i].type # "TData" => i = Len(s \o <<m>>) /\ (s \o <<m>>)[i] = m
<1>1. m \in Frame /\ m.type # "TData" /\ Sound(<<m>>) /\ Payload(<<m>>) = <<>>
  BY SoundMark
<1>2. Sound(s \o <<m>>)
  BY <1>1, SoundConcat
<1>3. s \in Seq(Frame) /\ <<m>> \in Seq(Frame) /\ Len(<<m>>) = 1 /\ <<m>>[1] = m
  BY <1>1 DEF Sound
<1>4. Payload(s) \in Seq(Nat)
  BY <1>3, PayloadType
<1>5. Payload(s \o <<m>>) = Payload(s) \o <<>>
  BY <1>1, <1>3, PayloadConcat
<1>6. Payload(s \o <<m>>) = Payload(s)
  BY <1>4, <1>5
<1> DEFINE u == s \o <<m>>
<1>7. u \in Seq(Frame) /\ Len(u) = Len(s) + 1 /\ Len(s) \in Nat
  BY <1>3
<1>8. ASSUME NEW i \in DOMAIN u, u[i].type # "TData" PROVE i = Len(u) /\ u[i] = m
  <2>1. i \in 1..(Len(s) + 1)
    BY <1>7
  <2>2. CASE i <= Len(s)
    <3>1. i \in DOMAIN s /\ u[i] = s[i]
      BY <1>3, <1>7, <2>1, <2>2
    <3> QED BY <1>8, <3>1 DEF AllData
  <2>3. CASE ~(i <= Len(s))
    <3>1. i = Len(s) + 1
      BY <1>7, <2>1, <2>3
    <3>2. u[i] = m
      BY <1>3, <1>7, <3>1
    <3> QED BY <1>7, <3>1, <3>2
  <2> QED BY <2>2, <2>3
<1> QED BY <1>2, <1>6, <1>8

\* TErr takes the place of the rest of the pack.
LEMMA ReadFailsStep == IInv /\ ReadFails => IInv'
<1> SUFFICES ASSUME IInv, ReadFails PROVE IInv'
  OBVIOUS
<1>1. /\ sender = "add" /\ sender' = "readerr" /\ plan # <<>>
      /\ stream' = IF cut = "no" THEN stream \o <<Err>> ELSE stream
      /\ UNCHANGED <<packs, plan, sent, buf, cut, cur, done, err, got, reader>>
  BY DEF ReadFails, Write
<1>2. Sound(stream) /\ AllData(stream) /\ Err \in {DataEnd, Err}
  BY <1>1, OnlyData DEF IInv, TypeOK, Sound
<1>3. /\ Sound(stream') /\ Payload(stream') = Payload(stream)
      /\ \A i \in DOMAIN stream' : stream'[i].type # "TData" => i = Len(stream') /\ stream'[i] = Err
      /\ cut # "no" => stream' = stream
  <2>1. CASE cut = "no"
    BY <1>1, <1>2, <2>1, MarkLast
  <2>2. CASE cut # "no"
    BY <1>1, <1>2, <2>2 DEF AllData
  <2> QED BY <2>1, <2>2
<1>4. TypeOK'
  BY <1>1, <1>3 DEF IInv, TypeOK, Sound
<1>5. InOrder'
  BY <1>1, <1>3 DEF IInv, InOrder
<1>6. EndsLast'
  <2>1. Err.type = "TErr"
    BY DEF Err
  <2> QED BY <1>1, <1>3, <2>1 DEF IInv, TypeOK, EndsLast
<1>7. Closed'
  BY <1>1 DEF IInv, Closed
<1>8. ReadSoFar'
  BY <1>1 DEF IInv, ReadSoFar
<1> QED BY <1>4, <1>5, <1>6, <1>7, <1>8 DEF IInv

\* The rest of the buffer and TDataEnd.
LEMMA FinishStep == IInv /\ Finish => IInv'
<1> SUFFICES ASSUME IInv, Finish PROVE IInv'
  OBVIOUS
<1>1. CASE WriteFails
  BY <1>1, WriteFailsStep DEF Finish
<1>2. CASE /\ Write((IF buf = <<>> THEN <<>> ELSE <<Data(buf)>>) \o <<DataEnd>>)
           /\ buf' = <<>> /\ sender' = "idle" /\ UNCHANGED <<plan, sent>>
  <2> DEFINE b == IF buf = <<>> THEN <<>> ELSE <<Data(buf)>>
  <2>1. /\ sender = "finish" /\ sender' = "idle" /\ buf' = <<>>
        /\ stream' = IF cut = "no" THEN stream \o (b \o <<DataEnd>>) ELSE stream
        /\ UNCHANGED <<packs, plan, sent, cut, cur, done, err, got, reader>>
    BY <1>2 DEF Finish, Write
  <2>2. buf \in Seq(Nat) /\ Len(buf) <= ChunkSize /\ Len(buf) < ChunkSize
    <3>1. buf \in Seq(Nat) /\ Len(buf) < ChunkSize
      BY DEF IInv, TypeOK
    <3>2. Len(buf) \in Nat /\ ChunkSize \in Nat
      BY <3>1, FrameAssumption
    <3> QED BY <3>1, <3>2
  <2>3. b \in Seq(Frame) /\ Sound(b) /\ AllData(b) /\ Payload(b) = buf
    <3>1. CASE buf = <<>>
      <4>1. b = <<>> /\ <<>> \in Seq(Frame) /\ \A i \in DOMAIN <<>> : FALSE
        BY <3>1
      <4> HIDE DEF b
      <4> QED BY <3>1, <4>1, PayloadEmpty DEF Sound, AllData
    <3>2. CASE buf # <<>>
      BY <2>2, <3>2, SoundData DEF Sound
    <3> QED BY <3>1, <3>2
  <2> HIDE DEF b
  <2>4. Sound(stream) /\ AllData(stream) /\ stream \in Seq(Frame)
    BY <2>1, OnlyData DEF IInv, TypeOK, Sound
  <2>5. CASE cut = "no"
    <3> DEFINE u == stream \o b
    <3>1. Sound(u) /\ AllData(u) /\ Payload(u) = Payload(stream) \o buf
      BY <2>3, <2>4, SoundConcat, PayloadConcat
    <3>2. stream' = u \o <<DataEnd>>
      <4>1. <<DataEnd>> \in Seq(Frame)
        BY SoundMark
      <4>2. \A x, y, z \in Seq(Frame) : (x \o y) \o z = x \o (y \o z)
        OBVIOUS
      <4>3. (stream \o b) \o <<DataEnd>> = stream \o (b \o <<DataEnd>>)
        BY <2>3, <2>4, <4>1, <4>2, Zenon
      <4> QED BY <2>1, <2>5, <4>3
    <3> HIDE DEF u
    <3>3. /\ Sound(stream') /\ Payload(stream') = Payload(u)
          /\ \A i \in DOMAIN stream' :
               stream'[i].type # "TData" => i = Len(stream') /\ stream'[i] = DataEnd
      BY <3>1, <3>2, MarkLast
    <3>4. TypeOK'
      <4>1. <<>> \in Seq(Nat) /\ Len(<<>>) < ChunkSize
        BY FrameAssumption
      <4> QED BY <2>1, <3>3, <4>1 DEF IInv, TypeOK, Sound
    <3>5. InOrder'
      <4>1. got \o cur \in Seq(Nat) /\ Payload(stream) \in Seq(Nat)
        BY Typed DEF IInv
      <4>2. (got \o cur) \o (Payload(stream) \o buf) = sent
        <5>1. ((got \o cur) \o Payload(stream)) \o buf = sent
          BY <2>5 DEF IInv, InOrder
        <5>2. ((got \o cur) \o Payload(stream)) \o buf = (got \o cur) \o (Payload(stream) \o buf)
          BY <2>2, <4>1, RegroupBytes, Zenon
        <5> QED BY <5>1, <5>2
      <4>3. (got' \o cur') \o Payload(stream') = sent'
        BY <2>1, <3>1, <3>3, <4>2
      <4>4. sent' \in Seq(Nat) /\ sent' \o <<>> = sent'
        <5>1. sent \in Seq(Nat)
          BY Typed DEF IInv
        <5> QED BY <2>1, <5>1
      <4>5. IsPrefix(sent', sent')
        BY <4>4 DEF IsPrefix
      <4> QED BY <2>1, <4>3, <4>4, <4>5 DEF InOrder
    <3>6. EndsLast'
      <4>1. DataEnd.type = "TDataEnd"
        BY DEF DataEnd
      <4> QED BY <2>1, <2>5, <3>3, <4>1 DEF IInv, TypeOK, EndsLast
    <3>7. Closed'
      BY <2>1 DEF IInv, Closed
    <3>8. ReadSoFar'
      BY <2>1 DEF IInv, ReadSoFar
    <3> QED BY <3>4, <3>5, <3>6, <3>7, <3>8 DEF IInv
  <2>6. CASE cut # "no"
    <3>1. stream' = stream
      BY <2>1, <2>6
    <3>2. TypeOK'
      <4>1. <<>> \in Seq(Nat) /\ Len(<<>>) < ChunkSize
        BY FrameAssumption
      <4> QED BY <2>1, <3>1, <4>1 DEF IInv, TypeOK
    <3>3. InOrder'
      BY <2>1, <2>6, <3>1 DEF IInv, InOrder
    <3>4. EndsLast'
      BY <2>1, <2>4, <2>6, <3>1 DEF IInv, EndsLast, AllData
    <3>5. Closed'
      BY <2>1 DEF IInv, Closed
    <3>6. ReadSoFar'
      BY <2>1 DEF IInv, ReadSoFar
    <3> QED BY <3>2, <3>3, <3>4, <3>5, <3>6 DEF IInv
  <2> QED BY <2>5, <2>6
<1> QED BY <1>1, <1>2 DEF Finish

\* A cut takes an end of what is under way.
LEMMA CutStep == IInv /\ Cut => IInv'
<1> SUFFICES ASSUME IInv, Cut PROVE IInv'
  OBVIOUS
<1>1. PICK n \in 0..Len(stream) : stream' = SubSeq(stream, 1, n)
  BY DEF Cut
<1>2. cut = "no" /\ cut' \in Cuts /\ UNCHANGED <<packs, plan, sent, buf, sender, cur, done, err, got, reader>>
  BY DEF Cut, Cuts
<1>3. stream \in Seq(Frame) /\ Len(stream) \in Nat
  BY Typed DEF IInv
<1>4. stream' \in Seq(Frame) /\ IsPrefix(Payload(stream'), Payload(stream))
  BY <1>1, <1>3, PayloadSplit
<1>5. DOMAIN stream' = 1..n /\ \A i \in 1..n : stream'[i] = stream[i] /\ i \in DOMAIN stream
  BY <1>1, <1>3
<1>6. TypeOK'
  BY <1>2, <1>4, <1>5 DEF IInv, TypeOK
<1>7. InOrder'
  <2>1. /\ got \o cur \in Seq(Nat) /\ Payload(stream) \in Seq(Nat) /\ Payload(stream') \in Seq(Nat)
        /\ sent \in Seq(Nat)
    BY <1>4, Typed, PayloadType DEF IInv
  <2> DEFINE a == got \o cur
  <2> DEFINE p == Payload(stream')
  <2>2. PICK t \in Seq(Nat) : Payload(stream) = p \o t
    BY <1>4, <2>1, PrefixElim
  <2>3. a \o Payload(stream) \in Seq(Nat) /\ IsPrefix(a \o Payload(stream), sent)
    BY <2>1 DEF IInv, InOrder
  <2>4. PICK v \in Seq(Nat) : sent = (a \o Payload(stream)) \o v
    <3> DEFINE x == a \o Payload(stream)
    <3>1. x \in Seq(Nat) /\ sent \in Seq(Nat) /\ IsPrefix(x, sent)
      BY <2>1, <2>3
    <3> HIDE DEF x
    <3>2. \E v \in Seq(Nat) : sent = x \o v
      BY <3>1, PrefixElim
    <3> QED BY <3>2 DEF x
  <2> HIDE DEF a, p
  <2>5. a \in Seq(Nat) /\ p \in Seq(Nat)
    BY <2>1 DEF a, p
  <2>6. sent = (a \o (p \o t)) \o v
    BY <2>2, <2>4
  <2>7. sent = (a \o p) \o (t \o v) /\ a \o p \in Seq(Nat) /\ t \o v \in Seq(Nat)
    <3>1. ((a \o p) \o t) \o v = (a \o p) \o (t \o v)
      <4>1. a \o p \in Seq(Nat)
        BY <2>5
      <4> QED BY <2>2, <2>4, <4>1, RegroupBytes, Zenon
    <3>2. (a \o p) \o t = a \o (p \o t)
      BY <2>2, <2>5, RegroupBytes, Zenon
    <3>3. a \o p \in Seq(Nat) /\ t \o v \in Seq(Nat)
      BY <2>5
    <3> QED BY <2>6, <3>1, <3>2, <3>3
  <2>8. IsPrefix(a \o p, sent)
    BY <2>7, PrefixIntro
  <2> QED BY <1>2, <2>8 DEF InOrder, a, p, Cuts
<1>8. EndsLast'
  <2>1. ASSUME NEW i \in DOMAIN stream', stream'[i].type # "TData"
        PROVE i = Len(stream') /\ sender = IF stream'[i].type = "TDataEnd" THEN "idle" ELSE "readerr"
    <3>1. stream'[i] = stream[i] /\ i \in DOMAIN stream /\ i \in 1..n
      BY <1>5, <2>1
    <3>2. i = Len(stream) /\ sender = IF stream[i].type = "TDataEnd" THEN "idle" ELSE "readerr"
      BY <2>1, <3>1 DEF IInv, EndsLast
    <3>3. Len(stream') = n
      BY <1>1, <1>3
    <3>4. i = n
      BY <1>3, <3>1, <3>2
    <3> QED BY <3>1, <3>2, <3>3, <3>4
  <2>2. stream = <<>> => stream' = <<>>
    BY <1>1, <1>3
  <2> QED BY <1>2, <2>1, <2>2 DEF IInv, EndsLast, Cuts
<1>9. Closed'
  BY <1>2 DEF IInv, Closed, Cuts
<1>10. ReadSoFar'
  BY <1>2 DEF IInv, ReadSoFar, Cuts
<1> QED BY <1>6, <1>7, <1>8, <1>9, <1>10 DEF IInv

\* The packReader takes the next frame.
LEMMA FetchStep == IInv /\ Fetch => IInv'
<1> SUFFICES ASSUME IInv, Fetch PROVE IInv'
  OBVIOUS
<1> DEFINE m == Head(stream)
<1>1. /\ reader \in {"decode", "drain"} /\ cur = <<>> /\ ~done /\ err = "none"
      /\ stream # <<>> /\ stream' = Tail(stream)
      /\ cur' = IF m.type = "TData" THEN m.data ELSE cur
      /\ done' = (m.type = "TDataEnd")
      /\ err' = IF m.type = "TErr" THEN "remote" ELSE err
      /\ UNCHANGED <<packs, plan, sent, buf, sender, cut, got, reader>>
  BY DEF Fetch, Reading
<1>2. stream \in Seq(Frame) /\ Sound(stream) /\ Payload(stream) \in Seq(Nat) /\ got \in Seq(Nat)
  BY Typed DEF IInv
<1>3. m \in Frame /\ m = stream[1] /\ 1 \in DOMAIN stream /\ stream' \in Seq(Frame)
  BY <1>1, <1>2
<1>4. Len(stream') = Len(stream) - 1 /\ Len(stream) \in Nat /\ Len(stream) > 0
  BY <1>1, <1>2
<1>5. \A i \in DOMAIN stream' : stream'[i] = stream[i + 1] /\ i + 1 \in DOMAIN stream
  BY <1>1, <1>2
<1>6. Payload(stream) = Payload(<<m>>) \o Payload(stream') /\ Payload(stream') \in Seq(Nat)
  BY <1>1, <1>2, <1>3, PayloadHead, PayloadType
<1>7. Payload(<<m>>) = IF m.type = "TData" THEN m.data ELSE <<>>
  BY <1>3, PayloadOne
<1>8. m.type = "TData" => m.data \in Seq(Nat) /\ Len(m.data) \in 1..ChunkSize
  BY <1>2, <1>3 DEF Sound, Frame
<1> HIDE DEF m
<1>9. cur' = Payload(<<m>>) /\ cur' \in Seq(Nat)
  BY <1>1, <1>7, <1>8
<1>10. Len(cur') <= ChunkSize
  <2>1. CASE m.type = "TData"
    BY <1>1, <1>8, <2>1, FrameAssumption
  <2>2. CASE m.type # "TData"
    BY <1>1, <2>2, FrameAssumption
  <2> QED BY <2>1, <2>2
<1>11. m.type \in {"TData", "TDataEnd", "TErr"}
  BY <1>3 DEF Frame
<1>12. TypeOK'
  <2>1. \A i \in DOMAIN stream' : stream'[i].type = "TData" => Len(stream'[i].data) \in 1..ChunkSize
    BY <1>2, <1>5 DEF Sound
  <2>2. done' \in BOOLEAN /\ err' \in {"none", "remote"}
    BY <1>1
  <2> QED BY <1>1, <1>3, <1>9, <1>10, <2>1, <2>2 DEF IInv, TypeOK
<1>13. InOrder'
  <2>1. (got \o cur) \o Payload(stream) = (got' \o cur') \o Payload(stream')
    <3>1. got \o cur = got
      BY <1>1, <1>2
    <3>2. (got \o cur') \o Payload(stream') = got \o (cur' \o Payload(stream'))
      BY <1>2, <1>6, <1>9, RegroupBytes, Zenon
    <3> QED BY <1>1, <1>6, <1>9, <3>1, <3>2
  <2> QED BY <1>1, <2>1 DEF IInv, InOrder
<1>14. EndsLast'
  <2>1. ASSUME NEW i \in DOMAIN stream', stream'[i].type # "TData"
        PROVE i = Len(stream') /\ sender' = IF stream'[i].type = "TDataEnd" THEN "idle" ELSE "readerr"
    <3>1. i + 1 = Len(stream) /\ sender = IF stream[i + 1].type = "TDataEnd" THEN "idle" ELSE "readerr"
      BY <1>5, <2>1 DEF IInv, EndsLast
    <3>2. i = Len(stream')
      <4>1. i \in 1..Len(stream')
        BY <1>3, <2>1
      <4> QED BY <1>4, <3>1, <4>1
    <3> QED BY <1>1, <1>5, <2>1, <3>1, <3>2
  <2>2. m.type # "TData" =>
          stream' = <<>> /\ sender' = IF m.type = "TDataEnd" THEN "idle" ELSE "readerr"
    <3> HAVE m.type # "TData"
    <3>1. 1 = Len(stream) /\ sender = IF m.type = "TDataEnd" THEN "idle" ELSE "readerr"
      BY <1>3 DEF IInv, EndsLast
    <3>2. Len(stream') = 0
      <4>1. Len(stream) = 1
        BY <3>1
      <4>2. Len(stream') = Len(stream) - 1
        BY <1>4
      <4> QED BY <4>1, <4>2
    <3>3. stream' = <<>>
      BY <1>3, <3>2
    <3> QED BY <1>1, <3>1, <3>3
  <2> QED BY <1>1, <2>1, <2>2 DEF IInv, EndsLast
<1>15. Closed'
  BY <1>1 DEF IInv, Closed
<1>16. ReadSoFar'
  BY <1>1 DEF IInv, ReadSoFar
<1> QED BY <1>12, <1>13, <1>14, <1>15, <1>16 DEF IInv

\* The packReader finds the connection cut.
LEMMA FetchFailsStep == IInv /\ FetchFails => IInv'
<1> SUFFICES ASSUME IInv, FetchFails PROVE IInv'
  OBVIOUS
<1>1. /\ reader \in {"decode", "drain"} /\ stream = <<>> /\ cut # "no" /\ err' = CutError
      /\ UNCHANGED <<packs, plan, sent, buf, sender, stream, cut, cur, done, got, reader>>
  BY DEF FetchFails, Reading
<1>2. err' \in {"eof", "unexpected", "short eof", "short unexpected"}
  <2>1. cut \in Cuts
    BY <1>1 DEF IInv, TypeOK
  <2> QED BY <1>1, <2>1 DEF CutError, Cuts
<1>3. TypeOK'
  BY <1>1, <1>2 DEF IInv, TypeOK
<1>4. InOrder'
  BY <1>1 DEF IInv, InOrder
<1>5. EndsLast'
  BY <1>1, <1>2 DEF IInv, EndsLast
<1>6. Closed'
  BY <1>1 DEF IInv, Closed
<1>7. ReadSoFar'
  BY <1>1 DEF IInv, ReadSoFar
<1> QED BY <1>3, <1>4, <1>5, <1>6, <1>7 DEF IInv

\* What a decoder that stops has read: End is the last byte written.
LEMMA EndReached ==
  ASSUME IInv, NEW a \in Seq(Nat), IsPrefix(a, sent), a # <<>>, Last(a) = End
  PROVE a = sent /\ sent # <<>> /\ Last(sent) = End
<1>1. sent \in Seq(Nat)
  BY Typed DEF IInv
<1>2. PICK b \in Seq(Nat) : sent = a \o b
  BY <1>1, PrefixElim
<1>3. Len(a) \in Nat /\ Len(a) > 0 /\ Len(b) \in Nat /\ Len(sent) = Len(a) + Len(b)
  BY <1>2
<1>4. Len(a) \in DOMAIN sent /\ sent[Len(a)] = a[Len(a)]
  BY <1>1, <1>2, <1>3
<1>5. Len(a) = Len(sent)
  BY <1>4 DEF IInv, Closed, Last
<1>6. b = <<>>
  BY <1>2, <1>3, <1>5
<1>7. a = sent
  BY <1>2, <1>6
<1> QED BY <1>7

\* The decoder reads, until it has read the end marker.
LEMMA CopyStep ==
  ASSUME IInv, NEW n \in ReadSizes, Copy(n)
  PROVE IInv'
<1> DEFINE m == IF n < Len(cur) THEN n ELSE Len(cur)
<1>1. /\ reader = "decode" /\ cur # <<>>
      /\ got' = got \o SubSeq(cur, 1, m)
      /\ cur' = SubSeq(cur, m + 1, Len(cur))
      /\ reader' = IF Last(got') = End THEN "drain" ELSE "decode"
      /\ UNCHANGED <<packs, plan, sent, buf, sender, stream, cut, done, err>>
  BY DEF Copy
<1>2. cur \in Seq(Nat) /\ got \in Seq(Nat) /\ sent \in Seq(Nat) /\ Payload(stream) \in Seq(Nat)
  BY Typed DEF IInv
<1>3. m \in 1..Len(cur) /\ Len(cur) \in Nat
  BY <1>1, <1>2, FrameAssumption
<1> HIDE DEF m
<1> DEFINE a == SubSeq(cur, 1, m)
<1>4. a \in Seq(Nat) /\ Len(a) = m /\ cur' \in Seq(Nat) /\ Len(cur') = Len(cur) - m
  <2>1. a \in Seq(Nat) /\ Len(a) = m
    BY <1>2, <1>3
  <2> DEFINE c == SubSeq(cur, m + 1, Len(cur))
  <2>2. c \in Seq(Nat)
    BY <1>2, <1>3
  <2>3. Len(c) = Len(cur) - m
    BY <1>2, <1>3
  <2> HIDE DEF a, c
  <2>4. cur' = c
    BY <1>1 DEF c
  <2> QED BY <2>1, <2>2, <2>3, <2>4
<1>5. cur = a \o cur'
  <2>1. 1 \in 1..(Len(cur) + 1) /\ m \in (1 - 1)..Len(cur) /\ Len(cur) \in m..Len(cur)
    BY <1>3
  <2>2. SubSeq(cur, 1, m) \o SubSeq(cur, m + 1, Len(cur)) = SubSeq(cur, 1, Len(cur))
    BY <1>2, <2>1, ConcatAdjacentSubSeq
  <2>3. SubSeq(cur, 1, Len(cur)) = cur
    BY <1>2
  <2> QED BY <1>1, <2>2, <2>3
<1> HIDE DEF a
<1>6. got' = got \o a
  BY <1>1 DEF a
<1>7. got' \in Seq(Nat) /\ got' # <<>>
  <2>1. got' \in Seq(Nat) /\ Len(got') = Len(got) + m /\ Len(got) \in Nat
    <3>1. got \o a \in Seq(Nat) /\ Len(got \o a) = Len(got) + Len(a) /\ Len(got) \in Nat
      <4>1. got \in Seq(Nat) /\ a \in Seq(Nat)
        BY <1>2, <1>4
      <4> QED BY <4>1
    <3> QED BY <1>4, <1>6, <3>1
  <2>2. Len(got') # 0
    BY <1>3, <2>1
  <2> QED BY <2>1, <2>2
<1>8. got' \o cur' = got \o cur
  <2>1. (got \o a) \o cur' = got \o (a \o cur')
    <3>1. got \in Seq(Nat) /\ a \in Seq(Nat) /\ cur' \in Seq(Nat)
      BY <1>2, <1>4
    <3> QED BY <3>1, RegroupBytes, Zenon
  <2> QED BY <1>5, <1>6, <2>1
<1>9. TypeOK'
  <2>1. Len(cur') <= ChunkSize
    <3>1. Len(cur) <= ChunkSize
      BY DEF IInv, TypeOK
    <3> QED BY <1>3, <1>4, <3>1, FrameAssumption
  <2> QED BY <1>1, <1>4, <1>7, <2>1 DEF IInv, TypeOK
<1>10. InOrder'
  BY <1>1, <1>8 DEF IInv, InOrder
<1>11. EndsLast'
  BY <1>1 DEF IInv, EndsLast
<1>12. Closed'
  BY <1>1 DEF IInv, Closed
<1>13. ReadSoFar'
  <2>1. CASE Last(got') = End
    <3> DEFINE rest == cur' \o Payload(stream)
    <3>1. rest \in Seq(Nat)
      BY <1>2, <1>4
    <3>2. (got' \o cur') \o Payload(stream) = got' \o (cur' \o Payload(stream))
      <4>1. got' \in Seq(Nat) /\ cur' \in Seq(Nat) /\ Payload(stream) \in Seq(Nat)
        BY <1>2, <1>4, <1>7
      <4> QED BY <4>1, RegroupBytes, Zenon
    <3>3. IsPrefix((got' \o cur') \o Payload(stream), sent)
      BY <1>8 DEF IInv, InOrder
    <3> HIDE DEF rest
    <3>4. IsPrefix(got' \o rest, sent) /\ got' \o rest \in Seq(Nat)
      BY <1>7, <3>1, <3>2, <3>3 DEF rest
    <3>5. PICK b \in Seq(Nat) : sent = (got' \o rest) \o b
      <4> DEFINE x == got' \o rest
      <4>1. x \in Seq(Nat) /\ sent \in Seq(Nat) /\ IsPrefix(x, sent)
        BY <1>2, <3>4
      <4> HIDE DEF x
      <4>2. \E b \in Seq(Nat) : sent = x \o b
        BY <4>1, PrefixElim
      <4> QED BY <4>2 DEF x
    <3>6. sent = got' \o (rest \o b) /\ rest \o b \in Seq(Nat)
      <4>1. (got' \o rest) \o b = got' \o (rest \o b)
        BY <1>7, <3>1, <3>5, RegroupBytes, Zenon
      <4>2. rest \o b \in Seq(Nat)
        BY <3>1, <3>5
      <4> QED BY <3>5, <4>1, <4>2
    <3>7. IsPrefix(got', sent)
      BY <1>7, <3>6, PrefixIntro
    <3>8. got' = sent /\ sent # <<>> /\ Last(sent) = End
      BY <1>7, <2>1, <3>7, EndReached
    <3> QED BY <1>1, <2>1, <3>8 DEF ReadSoFar
  <2>2. CASE Last(got') # End
    BY <1>1, <2>2 DEF ReadSoFar
  <2> QED BY <2>1, <2>2
<1> QED BY <1>9, <1>10, <1>11, <1>12, <1>13 DEF IInv

\* A pack that ends before its end marker is one whose sender or connection failed.
LEMMA TruncatedStep == IInv /\ Truncated => IInv'
<1> SUFFICES ASSUME IInv, Truncated PROVE IInv'
  OBVIOUS
<1>1. /\ reader = "decode" /\ cur = <<>> /\ (done \/ err # "none") /\ reader' = "failed"
      /\ UNCHANGED <<packs, plan, sent, buf, sender, stream, cut, cur, done, err, got>>
  BY DEF Truncated
<1>2. TypeOK'
  BY <1>1 DEF IInv, TypeOK
<1>3. InOrder'
  BY <1>1 DEF IInv, InOrder
<1>4. EndsLast'
  BY <1>1 DEF IInv, EndsLast
<1>5. Closed'
  BY <1>1 DEF IInv, Closed
<1>6. ReadSoFar'
  <2>1. SUFFICES ASSUME cut = "no" PROVE err = "remote"
    BY <1>1 DEF ReadSoFar
  <2>2. ~done
    <3>1. SUFFICES ASSUME done PROVE FALSE
      OBVIOUS
    <3>2. stream = <<>> /\ sender = "idle" /\ buf = <<>> /\ sent # <<>> /\ Last(sent) = End
      BY <3>1 DEF IInv, EndsLast, Closed
    <3>3. ((got \o cur) \o Payload(stream)) \o buf = sent
      BY <2>1 DEF IInv, InOrder
    <3>4. got \in Seq(Nat)
      BY Typed DEF IInv
    <3>5. ((got \o <<>>) \o <<>>) \o <<>> = got
      BY <3>4
    <3>6. got = sent
      BY <1>1, <3>2, <3>3, <3>5, PayloadEmpty
    <3> QED BY <1>1, <3>2, <3>6 DEF IInv, ReadSoFar
  <2> QED BY <1>1, <2>1, <2>2 DEF IInv, EndsLast
<1> QED BY <1>2, <1>3, <1>4, <1>5, <1>6 DEF IInv

\* The rest of the pack is drained.
LEMMA DrainStep == IInv /\ Drain => IInv'
<1> SUFFICES ASSUME IInv, Drain PROVE IInv'
  OBVIOUS
<1>1. /\ reader = "drain" /\ (done \/ err # "none")
      /\ reader' = IF done \/ err = "eof" THEN "ok" ELSE "failed"
      /\ UNCHANGED <<packs, plan, sent, buf, sender, stream, cut, cur, done, err, got>>
  BY DEF Drain
<1>2. TypeOK'
  BY <1>1 DEF IInv, TypeOK
<1>3. InOrder'
  BY <1>1 DEF IInv, InOrder
<1>4. EndsLast'
  BY <1>1 DEF IInv, EndsLast
<1>5. Closed'
  BY <1>1 DEF IInv, Closed
<1>6. ReadSoFar'
  BY <1>1 DEF IInv, ReadSoFar, EndsLast
<1> QED BY <1>2, <1>3, <1>4, <1>5, <1>6 DEF IInv

\* A pack that ended well left nothing behind.
LEMMA OkMeansClean == IInv => EndTrue
<1> SUFFICES ASSUME IInv PROVE EndTrue
  OBVIOUS
<1>1. reader = "ok" => got = sent /\ Last(got) = End
  BY DEF IInv, ReadSoFar
<1>2. (reader = "ok" /\ cut = "no") => stream = <<>> /\ sender = "idle"
  BY DEF IInv, ReadSoFar, EndsLast
<1>3. (reader = "failed" /\ cut = "no") => err = "remote" /\ sender = "readerr"
  BY DEF IInv, ReadSoFar, EndsLast
<1> QED BY <1>1, <1>2, <1>3 DEF EndTrue

\* The next round begins with nothing under way.
LEMMA NextPackStep == IInv /\ NextPack => IInv'
<1> SUFFICES ASSUME IInv, NextPack PROVE IInv'
  OBVIOUS
<1>1. /\ reader = "ok" /\ packs < MaxPacks /\ packs' = packs + 1
      /\ cur' = <<>> /\ done' = FALSE /\ err' = "none" /\ got' = <<>>
      /\ reader' = "decode" \/ (cut # "no" /\ reader' = "failed")
      /\ UNCHANGED <<buf, stream, cut>>
      /\ \/ /\ sender = "idle" /\ plan' \in Packs /\ sent' = <<>>
            /\ sender' = IF cut = "no" THEN "add" ELSE "failed"
         \/ sender # "idle" /\ UNCHANGED <<plan, sent, sender>>
  BY DEF NextPack
<1>2. stream = <<>>
  BY <1>1 DEF IInv, ReadSoFar, EndsLast
<1>3. sender # "idle" => cut # "no"
  BY <1>1, OkMeansClean DEF EndTrue
<1>4. sent \in Seq(Nat) /\ sent' \in Seq(Nat) /\ buf \in Seq(Nat)
  <2>1. sent \in Seq(Nat) /\ buf \in Seq(Nat)
    BY Typed DEF IInv
  <2>2. <<>> \in Seq(Nat)
    OBVIOUS
  <2> QED BY <1>1, <2>1, <2>2
<1>5. TypeOK'
  <2>1. packs' \in 1..MaxPacks
    <3>1. packs \in 1..MaxPacks
      BY DEF IInv, TypeOK
    <3> QED BY <1>1, <3>1, FrameAssumption
  <2>2. plan' \in Seq(Nat \ {0}) /\ \E p \in Packs : IsSuffix(plan', p)
    <3>1. CASE plan' \in Packs
      <4>1. plan' \in Seq(Nat \ {0})
        BY <3>1, FrameAssumption
      <4>2. IsSuffix(plan', plan')
        BY <4>1 DEF IsSuffix, IsPrefix, Reverse
      <4> QED BY <3>1, <4>1, <4>2
    <3>2. CASE plan' = plan
      BY <3>2 DEF IInv, TypeOK
    <3> QED BY <1>1, <3>1, <3>2
  <2>3. <<>> \in Seq(Nat) /\ Len(<<>>) <= ChunkSize
    BY FrameAssumption
  <2>4. sender' \in {"add", "finish", "idle", "readerr", "failed"}
    BY <1>1 DEF IInv, TypeOK
  <2> QED BY <1>1, <1>4, <2>1, <2>2, <2>3, <2>4 DEF IInv, TypeOK
<1>6. InOrder'
  <2>1. (got' \o cur') \o Payload(stream') = <<>>
    BY <1>1, <1>2, PayloadEmpty
  <2>2. IsPrefix(<<>>, sent')
    BY <1>4 DEF IsPrefix
  <2>3. cut' = "no" => ((got' \o cur') \o Payload(stream')) \o buf' = sent'
    <3> HAVE cut' = "no"
    <3>1. sender = "idle" /\ sent' = <<>> /\ buf' = <<>>
      BY <1>1, <1>3 DEF IInv, Closed
    <3> QED BY <2>1, <3>1
  <2> QED BY <2>1, <2>2, <2>3 DEF InOrder
<1>7. EndsLast'
  BY <1>1, <1>2 DEF EndsLast
<1>8. Closed'
  <2>1. CASE sender = "idle"
    BY <1>1, <2>1 DEF Closed
  <2>2. CASE sender # "idle"
    BY <1>1, <2>2 DEF IInv, Closed
  <2> QED BY <2>1, <2>2
<1>9. ReadSoFar'
  BY <1>1 DEF ReadSoFar
<1> QED BY <1>5, <1>6, <1>7, <1>8, <1>9 DEF IInv

\* Nothing changes.
LEMMA StutterStep == IInv /\ UNCHANGED vars => IInv'
<1> SUFFICES ASSUME IInv, UNCHANGED vars PROVE IInv'
  OBVIOUS
<1>1. TypeOK'
  BY DEF IInv, TypeOK, vars
<1>2. InOrder'
  BY DEF IInv, InOrder, vars
<1>3. EndsLast' /\ Closed' /\ ReadSoFar'
  BY DEF IInv, EndsLast, Closed, ReadSoFar, vars
<1> QED BY <1>1, <1>2, <1>3 DEF IInv

\* The invariant holds in every reachable state, for every chunk size, every pack
\* and every way the decoder reads.
THEOREM PacksInductive == Spec => []IInv
<1>1. IInv /\ [Next]_vars => IInv'
  <2> SUFFICES ASSUME IInv, [Next]_vars PROVE IInv'
    OBVIOUS
  <2>1. CASE \E n \in ReadSizes : Copy(n)
    BY <2>1, CopyStep
  <2>2. CASE Over
    BY <2>2, StutterStep DEF Over
  <2> QED
    BY <2>1, <2>2, AddRecordStep, ClosePackStep, FinishStep, ReadFailsStep, CutStep, FetchStep,
       FetchFailsStep, TruncatedStep, DrainStep, NextPackStep, StutterStep DEF Next
<1> QED
  BY InitIInv, <1>1, PTL DEF Spec

\* A pack that ends well was read to its end marker and leaves the stream at the
\* next frame, however it was cut into frames and read; while the connection
\* holds it fails only with the error the sender reported.
THEOREM PacksEndTrue == Spec => []EndTrue
BY PacksInductive, OkMeansClean, PTL

-----------------------------------------------------------------------------
(* DealWants: the sums of wire bytes                                         *)

\* FoldSeq goes through the places of a sequence in the order CHOOSE takes them: f
\* has the sum of the wire bytes at every set of at most n places.
Lower(S, n) == {t \in SUBSET S : Cardinality(t) <= n}
Pick(t) == CHOOSE x \in t : TRUE
Sums(f, s, n) ==
  /\ f \in [Lower(DOMAIN s, n) -> Nat]
  /\ \A t \in Lower(DOMAIN s, n) : f[t] = IF t = {} THEN 0 ELSE s[Pick(t)].wire + f[t \ {Pick(t)}]

\* Keys have lengths.
LEMMA KeyTypes ==
  ASSUME NEW s \in Seq(Keys), NEW x \in 1..Len(s)
  PROVE s[x] \in Keys /\ s[x].len \in Nat /\ s[x].wire \in Nat
<1>1. s[x] \in Keys
  OBVIOUS
<1>2. \A k \in Keys : k.len \in Nat /\ k.wire \in Nat
  BY DEF Keys
<1> QED BY <1>1, <1>2

\* What is taken from a set is in it.
LEMMA PickIn == \A t : t # {} => Pick(t) \in t
BY DEF Pick

\* A set without the element taken is smaller.
LEMMA LowerStep ==
  ASSUME NEW S, IsFiniteSet(S), NEW n \in Nat, NEW t \in Lower(S, n + 1), t # {}
  PROVE t \ {Pick(t)} \in Lower(S, n)
<1>1. t \in SUBSET S /\ IsFiniteSet(t) /\ Cardinality(t) <= n + 1 /\ Cardinality(t) \in Nat
  BY FS_Subset, FS_CardinalityType DEF Lower
<1>2. Cardinality(t \ {Pick(t)}) = Cardinality(t) - 1
  BY <1>1, PickIn, FS_RemoveElement
<1>3. Cardinality(t) - 1 <= n
  BY <1>1
<1> QED BY <1>1, <1>2, <1>3 DEF Lower

\* FoldSeq sums the wire bytes of ever larger sets of places.
LEMMA SumsExist ==
  ASSUME NEW s \in Seq(Keys), NEW n \in Nat
  PROVE \E f : Sums(f, s, n)
<1> DEFINE D == DOMAIN s
<1>1. IsFiniteSet(D) /\ D = 1..Len(s)
  BY FS_Interval
<1>2. \A x \in D : s[x].wire \in Nat
  BY <1>1, KeyTypes
<1> DEFINE G == {k \in Nat : \E f : Sums(f, s, k)}
<1>3. 0 \in G
  <2>1. Lower(D, 0) = {{}}
    <3>1. ASSUME NEW t \in Lower(D, 0) PROVE t = {}
      <4>1. IsFiniteSet(t) /\ Cardinality(t) \in Nat /\ Cardinality(t) <= 0
        BY <1>1, FS_Subset, FS_CardinalityType DEF Lower
      <4> QED BY <4>1, FS_EmptySet
    <3>2. {} \in Lower(D, 0)
      BY FS_EmptySet DEF Lower
    <3> QED BY <3>1, <3>2
  <2> DEFINE f == [t \in Lower(D, 0) |-> 0]
  <2>2. f \in [Lower(D, 0) -> Nat]
    OBVIOUS
  <2>3. \A t \in Lower(D, 0) : t = {} /\ f[t] = 0
    BY <2>1
  <2> HIDE DEF f
  <2>4. Sums(f, s, 0)
    BY <2>2, <2>3 DEF Sums
  <2> QED BY <2>4
<1>4. ASSUME NEW k \in Nat, k \in G PROVE k + 1 \in G
  <2>1. PICK f : Sums(f, s, k)
    BY <1>4
  <2> DEFINE v(t) == IF t = {} THEN 0 ELSE s[Pick(t)].wire + f[t \ {Pick(t)}]
  <2> DEFINE g == [t \in Lower(D, k + 1) |-> v(t)]
  <2>2. ASSUME NEW t \in Lower(D, k + 1), t # {}
        PROVE t \ {Pick(t)} \in Lower(D, k) /\ Pick(t) \in D
    <3>1. t \ {Pick(t)} \in Lower(D, k)
      BY <1>1, <2>2, LowerStep
    <3>2. Pick(t) \in t /\ t \subseteq D
      BY <2>2, PickIn DEF Lower
    <3> QED BY <3>1, <3>2
  <2>3. f \in [Lower(D, k) -> Nat] /\ \A t \in Lower(D, k) : f[t] = v(t)
    BY <2>1 DEF Sums
  <2>4. ASSUME NEW t \in Lower(D, k + 1) PROVE v(t) \in Nat
    <3>1. CASE t = {}
      BY <3>1
    <3>2. CASE t # {}
      <4>1. f[t \ {Pick(t)}] \in Nat /\ s[Pick(t)].wire \in Nat
        BY <1>2, <2>2, <2>3, <3>2
      <4> QED BY <3>2, <4>1
    <3> QED BY <3>1, <3>2
  <2>5. Lower(D, k) \subseteq Lower(D, k + 1)
    <3> SUFFICES ASSUME NEW t \in Lower(D, k) PROVE t \in Lower(D, k + 1)
      OBVIOUS
    <3>1. t \in SUBSET D /\ Cardinality(t) <= k
      BY DEF Lower
    <3>2. Cardinality(t) \in Nat
      BY <1>1, <3>1, FS_Subset, FS_CardinalityType
    <3>3. Cardinality(t) <= k + 1
      BY <3>1, <3>2
    <3> QED BY <3>1, <3>3 DEF Lower
  <2>6. \A t \in Lower(D, k) : f[t] = g[t]
    <3> HIDE DEF v
    <3> QED BY <2>3, <2>5
  <2>7. g \in [Lower(D, k + 1) -> Nat]
    <3> HIDE DEF v
    <3> QED BY <2>4
  <2>8. ASSUME NEW t \in Lower(D, k + 1)
        PROVE g[t] = IF t = {} THEN 0 ELSE s[Pick(t)].wire + g[t \ {Pick(t)}]
    <3>1. g[t] = v(t)
      <4> HIDE DEF v
      <4> QED OBVIOUS
    <3>2. t # {} => g[t \ {Pick(t)}] = f[t \ {Pick(t)}]
      <4> HIDE DEF g, v
      <4> QED BY <2>2, <2>6
    <3> HIDE DEF g
    <3> QED BY <3>1, <3>2
  <2> HIDE DEF g
  <2>9. Sums(g, s, k + 1)
    BY <2>7, <2>8 DEF Sums
  <2> QED BY <2>9
<1>5. Nat \subseteq G
  <2> HIDE DEF G
  <2> QED BY <1>3, <1>4, NoLeastCounterexample
<1> QED BY <1>5

\* The bytes of a shard are a number.
LEMMA WireBytesType ==
  ASSUME NEW s \in Seq(Keys)
  PROVE WireBytes(s) \in Nat
<1> DEFINE D == DOMAIN s
<1>1. IsFiniteSet(D) /\ D = 1..Len(s)
  BY FS_Interval
<1>2. \A x \in D : s[x].wire \in Nat
  BY <1>1, KeyTypes
<1> DEFINE R(h) ==
      h = [t \in SUBSET D |->
             IF t = {} THEN 0
             ELSE s[CHOOSE x \in t : TRUE].wire + h[t \ {CHOOSE x \in t : TRUE}]]
<1> DEFINE h0 == CHOOSE h : R(h)
<1>3. WireBytes(s) = h0[D]
  BY DEF WireBytes, FoldSeq, FoldFunction, FoldFunctionOnSet, MapThenFoldSet
<1> DEFINE n == Cardinality(D)
<1>4. n \in Nat
  BY <1>1, FS_CardinalityType
<1>5. PICK f : Sums(f, s, n)
  BY <1>4, SumsExist
<1>6. Lower(D, n) = SUBSET D
  BY <1>1, FS_Subset DEF Lower
<1>7. R(f)
  <2>1. f \in [SUBSET D -> Nat]
    BY <1>5, <1>6 DEF Sums
  <2>2. \A t \in SUBSET D : f[t] = IF t = {} THEN 0 ELSE s[Pick(t)].wire + f[t \ {Pick(t)}]
    BY <1>5, <1>6 DEF Sums
  <2> QED BY <2>1, <2>2 DEF Pick
<1>8. R(h0)
  <2> HIDE DEF R
  <2> QED BY <1>7
<1> HIDE DEF h0
<1>9. \A t \in SUBSET D : h0[t] = IF t = {} THEN 0 ELSE s[Pick(t)].wire + h0[t \ {Pick(t)}]
  BY <1>8 DEF Pick
<1> HIDE DEF R
<1> DEFINE G == {k \in Nat : \A t \in Lower(D, k) : h0[t] \in Nat}
<1>14. h0[{}] = 0
  <2>1. {} \in SUBSET D
    OBVIOUS
  <2> HIDE DEF D
  <2> QED BY <1>9, <2>1
<1>10. 0 \in G
  <2>1. ASSUME NEW t \in Lower(D, 0) PROVE t = {} /\ t \in SUBSET D
    <3>1. IsFiniteSet(t) /\ Cardinality(t) \in Nat /\ Cardinality(t) <= 0 /\ t \in SUBSET D
      BY <1>1, FS_Subset, FS_CardinalityType DEF Lower
    <3> QED BY <3>1, FS_EmptySet
  <2>2. \A t \in Lower(D, 0) : h0[t] = 0
    BY <1>14, <2>1
  <2> QED BY <2>2
<1>11. ASSUME NEW k \in Nat, k \in G PROVE k + 1 \in G
  <2>1. ASSUME NEW t \in Lower(D, k + 1) PROVE h0[t] \in Nat
    <3>1. t \in SUBSET D
      BY DEF Lower
    <3>2. CASE t = {}
      BY <1>14, <3>2
    <3>3. CASE t # {}
      <4>1. t \ {Pick(t)} \in Lower(D, k)
        BY <1>1, <3>3, LowerStep
      <4>2. h0[t \ {Pick(t)}] \in Nat
        BY <1>11, <4>1
      <4>3. s[Pick(t)].wire \in Nat
        BY <1>2, <3>1, <3>3, PickIn
      <4>4. h0[t] = s[Pick(t)].wire + h0[t \ {Pick(t)}]
        BY <1>9, <3>1, <3>3
      <4> QED BY <4>2, <4>3, <4>4
    <3> QED BY <3>2, <3>3
  <2> QED BY <2>1
<1>12. Nat \subseteq G
  <2> HIDE DEF G
  <2> QED BY <1>10, <1>11, NoLeastCounterexample
<1>13. D \in Lower(D, n)
  BY <1>6
<1> HIDE DEF D, n
<1> QED BY <1>3, <1>4, <1>12, <1>13

-----------------------------------------------------------------------------
(* DealWants: the channel with the lowest ratio                              *)

\* Products with a positive factor keep the order.
LEMMA TimesLess ==
  ASSUME NEW p \in Nat, NEW q \in Nat, NEW r \in Nat \ {0}
  PROVE p < q <=> p * r < q * r
OBVIOUS

\* Products with any factor keep it weakly.
LEMMA TimesMonotone ==
  ASSUME NEW p \in Int, NEW q \in Int, NEW r \in Nat, p <= q
  PROVE p * r <= q * r
OBVIOUS

\* Ratios, compared crosswise, are transitive.
LEMMA RatioTransitive ==
  ASSUME NEW ax \in Nat, NEW ab \in Nat, NEW ad \in Nat,
         NEW wx \in Nat \ {0}, NEW wb \in Nat \ {0}, NEW wd \in Nat \ {0},
         ax * wb < ab * wx, ~(ad * wb < ab * wd)
  PROVE ax * wd < ad * wx
<1>1. (ax * wb) * wd < (ab * wx) * wd
  <2> DEFINE p == ax * wb
  <2> DEFINE q == ab * wx
  <2>1. p \in Nat /\ q \in Nat /\ p < q
    OBVIOUS
  <2> HIDE DEF p, q
  <2>2. p * wd < q * wd
    BY <2>1, TimesLess
  <2> QED BY <2>2 DEF p, q
<1>2. (ab * wd) * wx <= (ad * wb) * wx
  <2> DEFINE p == ab * wd
  <2> DEFINE q == ad * wb
  <2>1. p \in Nat /\ q \in Nat /\ p <= q
    OBVIOUS
  <2> HIDE DEF p, q
  <2>2. p * wx <= q * wx
    BY <2>1, TimesMonotone
  <2> QED BY <2>2 DEF p, q
<1>3. /\ (ab * wx) * wd = (ab * wd) * wx
      /\ (ax * wb) * wd = (ax * wd) * wb
      /\ (ad * wb) * wx = (ad * wx) * wb
  OBVIOUS
<1> DEFINE p == ax * wd
<1> DEFINE q == ad * wx
<1>4. p \in Nat /\ q \in Nat
  OBVIOUS
<1>5. p * wb < q * wb
  <2>1. (ax * wd) * wb < (ad * wx) * wb
    <3> DEFINE u1 == (ax * wb) * wd
    <3> DEFINE u2 == (ab * wx) * wd
    <3> DEFINE u3 == (ad * wb) * wx
    <3>1. u1 \in Nat /\ u2 \in Nat /\ u3 \in Nat
      OBVIOUS
    <3>2. u1 < u2 /\ u2 <= u3
      BY <1>1, <1>2, <1>3
    <3>3. u1 = (ax * wd) * wb /\ u3 = (ad * wx) * wb
      BY <1>3
    <3> HIDE DEF u1, u2, u3
    <3>4. u1 < u3
      BY <3>1, <3>2
    <3> QED BY <3>3, <3>4
  <2> QED BY <2>1
<1> HIDE DEF p, q
<1>6. p < q
  BY <1>4, <1>5, TimesLess
<1> QED BY <1>6 DEF p, q

\* What the ratios are made of.
Weighed == assigned \in [Channel -> Nat] /\ weights \in [Channel -> Nat]

\* A weight is floored at 1.
LEMMA WeightType ==
  ASSUME Weighed, NEW c \in Channel
  PROVE assigned[c] \in Nat /\ Weight(c) \in Nat \ {0}
BY DEF Weighed, Weight

\* b has the lowest ratio among the channels up to n, ties to the lower index.
Lowest(b, n) ==
  \A d \in 0..n : ~RatioBelow(d, b) /\ (d < b => RatioBelow(b, d))

\* There is a channel dealWants chooses.
LEMMA BestIsLowest ==
  ASSUME Weighed
  PROVE Best \in Channel /\ Lowest(Best, N - 1)
<1> DEFINE G == {n \in Nat : n < N => \E b \in 0..n : Lowest(b, n)}
<1>1. N \in Nat /\ N > 0 /\ Channel = 0..(N - 1)
  BY DealAssumption DEF Channel
<1>2. 0 \in G
  <2>1. 0 \in Channel
    BY <1>1
  <2>2. assigned[0] * Weight(0) \in Nat
    BY <2>1, WeightType
  <2>3. ~RatioBelow(0, 0)
    BY <2>2 DEF RatioBelow
  <2>4. Lowest(0, 0)
    BY <2>3 DEF Lowest
  <2> QED BY <2>4
<1>3. ASSUME NEW n \in Nat, n \in G PROVE n + 1 \in G
  <2>1. SUFFICES ASSUME n + 1 < N PROVE \E b \in 0..(n + 1) : Lowest(b, n + 1)
    OBVIOUS
  <2>2. PICK b \in 0..n : Lowest(b, n)
    BY <1>1, <1>3, <2>1
  <2> DEFINE x == n + 1
  <2>3. x \in Channel /\ b \in Channel /\ \A d \in 0..n : d \in Channel /\ d < x
    BY <1>1, <2>1
  <2>4. ~RatioBelow(x, x)
    <3>1. assigned[x] * Weight(x) \in Nat
      BY <2>3, WeightType
    <3> QED BY <3>1 DEF RatioBelow
  <2>5. \A d \in 0..x : d \in 0..n \/ d = x
    OBVIOUS
  <2>6. CASE RatioBelow(x, b)
    <3>1. ASSUME NEW d \in 0..n PROVE RatioBelow(x, d) /\ ~RatioBelow(d, x)
      <4>1. d \in Channel /\ ~RatioBelow(d, b)
        BY <2>2, <2>3 DEF Lowest
      <4>2. /\ assigned[x] \in Nat /\ assigned[b] \in Nat /\ assigned[d] \in Nat
            /\ Weight(x) \in Nat \ {0} /\ Weight(b) \in Nat \ {0} /\ Weight(d) \in Nat \ {0}
        BY <2>3, <4>1, WeightType
      <4>3. RatioBelow(x, d)
        BY <2>6, <4>1, <4>2, RatioTransitive DEF RatioBelow
      <4>4. assigned[x] * Weight(d) \in Nat /\ assigned[d] * Weight(x) \in Nat
        BY <4>2
      <4>5. ~RatioBelow(d, x)
        BY <4>3, <4>4 DEF RatioBelow
      <4> QED BY <4>3, <4>5
    <3>2. Lowest(x, x)
      BY <2>3, <2>4, <2>5, <3>1 DEF Lowest
    <3> QED BY <3>2
  <2>7. CASE ~RatioBelow(x, b)
    <3>1. Lowest(b, x)
      BY <2>2, <2>3, <2>5, <2>7 DEF Lowest
    <3> QED BY <3>1
  <2> QED BY <2>6, <2>7
<1>4. Nat \subseteq G
  <2> HIDE DEF G
  <2> QED BY <1>2, <1>3, NoLeastCounterexample
<1>5. \E b \in Channel : Lowest(b, N - 1)
  <2>1. N - 1 \in Nat /\ N - 1 < N
    BY <1>1
  <2> QED BY <1>1, <1>4, <2>1
<1>6. \E c \in Channel : \A d \in Channel : ~RatioBelow(d, c) /\ (d < c => RatioBelow(c, d))
  BY <1>1, <1>5 DEF Lowest
<1>7. Best \in Channel /\ \A d \in Channel : ~RatioBelow(d, Best) /\ (d < Best => RatioBelow(Best, d))
  BY <1>6 DEF Best
<1> QED BY <1>1, <1>7 DEF Lowest

-----------------------------------------------------------------------------
(* DealWants: the invariant                                                  *)

\* What DealTypeOK says of the variables.
LEMMA DealTyped ==
  ASSUME DealTypeOK
  PROVE /\ Weighed
        /\ wants \in Seq(Keys) /\ shards \in [Channel -> Seq(Keys)]
        /\ left \in [Channel -> Nat] /\ wire \in [Channel -> Nat] /\ prevWire \in [Channel -> Nat]
        /\ speed \in [Channel -> Speeds] /\ \A c \in Channel : speed[c] \in Nat
BY DealAssumption DEF DealTypeOK, Weighed

\* What is at the head of a suffix is in the list.
LEMMA SuffixHead ==
  ASSUME NEW S, NEW s \in Seq(S), NEW t \in Seq(S), s # <<>>, IsSuffix(s, t)
  PROVE Head(s) \in Range(t)
<1>1. Len(s) \in Nat /\ Len(t) \in Nat /\ Len(s) > 0 /\ Head(s) = s[1]
  OBVIOUS
<1>2. /\ Reverse(s) \in Seq(S) /\ Len(Reverse(s)) = Len(s)
      /\ Reverse(t) \in Seq(S) /\ Len(Reverse(t)) = Len(t)
  BY <1>1 DEF Reverse
<1>3. Len(s) <= Len(t) /\ SubSeq(Reverse(s), 1, Len(s)) = SubSeq(Reverse(t), 1, Len(s))
  BY <1>2 DEF IsSuffix, IsPrefix
<1> DEFINE n == Len(s)
<1>4. SubSeq(Reverse(s), 1, n)[n] = Reverse(s)[n] /\ SubSeq(Reverse(t), 1, n)[n] = Reverse(t)[n]
  BY <1>1, <1>2, <1>3
<1>5. Reverse(s)[n] = s[1]
  BY <1>1 DEF Reverse
<1>6. Reverse(t)[n] = t[Len(t) - n + 1] /\ Len(t) - n + 1 \in DOMAIN t
  BY <1>1, <1>3 DEF Reverse
<1> QED BY <1>1, <1>3, <1>4, <1>5, <1>6 DEF Range

\* A list is a suffix of itself.
LEMMA SuffixSelf ==
  ASSUME NEW S, NEW s \in Seq(S)
  PROVE IsSuffix(s, s)
<1>1. Len(Reverse(s)) = Len(s) /\ Len(s) \in Nat
  BY DEF Reverse
<1> QED BY <1>1 DEF IsSuffix, IsPrefix

\* The root of a want list is one of its keys.
LEMMA RootIsKey ==
  ASSUME NEW list \in WantLists
  PROVE /\ list \in Seq(Keys) /\ Root(list) \in Seq(Keys)
        /\ Range(Root(list)) \subseteq Range(list)
<1>1. list \in Seq(Keys) /\ list # <<>>
  BY DealAssumption
<1>2. 1 \in DOMAIN list /\ list[1] \in Keys
  BY <1>1
<1>3. Root(list) \in Seq(Keys) /\ DOMAIN Root(list) = 1..1 /\ Root(list)[1] = list[1]
  BY <1>2 DEF Root
<1>4. \A i \in DOMAIN Root(list) : Root(list)[i] = list[1]
  BY <1>3
<1> QED BY <1>1, <1>2, <1>3, <1>4 DEF Range


\* The invariant holds before the root is dealt.
LEMMA DealInitIInv == DealInit => DealIInv
<1> SUFFICES ASSUME DealInit PROVE DealIInv
  OBVIOUS
<1>1. /\ speed \in [Channel -> Speeds] /\ round = 1 /\ phase = "deal"
      /\ weights = Zero /\ assigned = Zero /\ left = Zero /\ wire = Zero /\ prevWire = Zero
      /\ shards = [c \in Channel |-> <<>>]
  BY DEF DealInit
<1>2. PICK list \in WantLists : wants = Root(list)
  BY DEF DealInit
<1>3. Zero \in [Channel -> Nat] /\ \A c \in Channel : Zero[c] = 0
  BY DEF Zero
<1>4. shards \in [Channel -> Seq(Keys)] /\ \A c \in Channel : shards[c] = <<>> /\ Dealt(c) = 0
  BY <1>1 DEF Dealt
<1>5. DealTypeOK
  <2>1. round \in 1..MaxRounds
    BY <1>1, DealAssumption
  <2>2. wants \in Seq(Keys) /\ IsSuffix(wants, Root(list))
    BY <1>2, RootIsKey, SuffixSelf
  <2>3. \A c \in Channel : Range(shards[c]) \subseteq Range(list)
    <3>1. Range(<<>>) = {}
      BY DEF Range
    <3> QED BY <1>4, <3>1
  <2>4. \A c \in Channel : prevWire[c] <= wire[c]
    BY <1>1, <1>3
  <2> HIDE DEF Zero
  <2> QED BY <1>1, <1>2, <1>3, <1>4, <2>1, <2>2, <2>3, <2>4 DEF DealTypeOK
<1>6. Probed /\ Counted /\ Balanced
  BY <1>1, <1>3, <1>4 DEF Probed, Counted, Balanced
<1>7. Conserved
  BY <1>1, <1>3 DEF Conserved
<1> QED BY <1>5, <1>6, <1>7 DEF DealIInv

\* A key is dealt to the channel with the lowest ratio: the control channel first
\* while there are empty ones, and never one that is ahead of another.
LEMMA DealKeyStep == DealIInv /\ DealKey => DealIInv'
<1> SUFFICES ASSUME DealIInv, DealKey PROVE DealIInv'
  OBVIOUS
<1> DEFINE b == Best
<1> DEFINE k == Head(wants)
<1>1. /\ phase = "deal" /\ wants # <<>> /\ wants' = Tail(wants)
      /\ assigned' = [assigned EXCEPT ![b] = @ + Bytes(k)]
      /\ shards' = [shards EXCEPT ![b] = Append(@, k)]
      /\ UNCHANGED <<speed, round, phase, weights, left, wire, prevWire>>
  BY DEF DealKey
<1>2. /\ Weighed /\ wants \in Seq(Keys) /\ shards \in [Channel -> Seq(Keys)]
      /\ assigned \in [Channel -> Nat]
  BY DealTyped DEF DealIInv, Weighed
<1>3. b \in Channel /\ Lowest(b, N - 1) /\ Channel = 0..(N - 1)
  BY <1>2, BestIsLowest DEF Channel
<1>4. k \in Keys /\ wants' \in Seq(Keys)
  BY <1>1, <1>2
<1>5. Bytes(k) \in Nat \ {0}
  <2>1. k.len \in Nat
    BY <1>4 DEF Keys
  <2> HIDE DEF k
  <2> QED BY <2>1 DEF Bytes
<1> HIDE DEF b, k
<1>6. /\ assigned' \in [Channel -> Nat] /\ assigned'[b] = assigned[b] + Bytes(k)
      /\ \A c \in Channel : c # b => assigned'[c] = assigned[c]
      /\ \A c \in Channel : assigned[c] \in Nat /\ assigned'[c] \in Nat /\ assigned[c] <= assigned'[c]
  <2>1. /\ assigned'[b] = assigned[b] + Bytes(k) /\ \A c \in Channel : c # b => assigned'[c] = assigned[c]
    BY <1>1, <1>2, <1>3
  <2>2. assigned[b] \in Nat /\ assigned[b] + Bytes(k) \in Nat
    BY <1>2, <1>3, <1>5
  <2>3. assigned' \in [Channel -> Nat]
    BY <1>1, <1>2, <2>2
  <2>4. \A c \in Channel : assigned[c] \in Nat
    BY <1>2
  <2>5. \A c \in Channel : assigned[c] <= assigned'[c]
    BY <1>3, <1>5, <2>1, <2>4
  <2> QED BY <2>1, <2>3, <2>4, <2>5
<1>7. /\ shards' \in [Channel -> Seq(Keys)] /\ shards'[b] = Append(shards[b], k)
      /\ \A c \in Channel : c # b => shards'[c] = shards[c]
  <2>1. shards[b] \in Seq(Keys) /\ Append(shards[b], k) \in Seq(Keys)
    BY <1>2, <1>3, <1>4
  <2> QED BY <1>1, <1>2, <1>3, <2>1
<1>8. /\ Len(shards'[b]) = Len(shards[b]) + 1 /\ Last(shards'[b]) = k
      /\ \A c \in Channel : Len(shards[c]) \in Nat
  <2>1. \A c \in Channel : shards[c] \in Seq(Keys)
    BY <1>2
  <2>2. Len(Append(shards[b], k)) = Len(shards[b]) + 1 /\ Append(shards[b], k)[Len(shards[b]) + 1] = k
    BY <1>3, <1>4, <2>1, AppendProperties
  <2> QED BY <1>7, <2>1, <2>2 DEF Last
<1>9. \A c \in Channel : Weight(c) \in Nat \ {0} /\ Weight(c)' = Weight(c)
  BY <1>1, <1>2, WeightType DEF Weight
<1>10. DealTypeOK'
  <2>1. PICK list \in WantLists :
          /\ IsSuffix(wants, list) \/ IsSuffix(wants, Root(list))
          /\ \A c \in Channel : Range(shards[c]) \subseteq Range(list)
    BY DEF DealIInv, DealTypeOK
  <2>2. list \in Seq(Keys) /\ Root(list) \in Seq(Keys) /\ Range(Root(list)) \subseteq Range(list)
    BY RootIsKey
  <2>3. IsSuffix(wants', list) \/ IsSuffix(wants', Root(list))
    BY <1>1, <1>2, <2>1, <2>2, SuffixTail
  <2>4. k \in Range(list)
    BY <1>1, <1>2, <2>1, <2>2, SuffixHead DEF k
  <2>5. \A c \in Channel : Range(shards'[c]) \subseteq Range(list)
    <3>1. Range(shards'[b]) \subseteq Range(list)
      <4>1. shards[b] \in Seq(Keys) /\ <<k>> \in Seq(Keys)
        BY <1>2, <1>3, <1>4
      <4>2. shards'[b] = shards[b] \o <<k>>
        BY <1>4, <1>7, <4>1
      <4> DEFINE u == shards[b]
      <4> DEFINE v == <<k>>
      <4> HIDE DEF u, v
      <4>3. Range(u \o v) = Range(u) \cup Range(v)
        <5>1. u \in Seq(Keys) /\ v \in Seq(Keys)
          BY <4>1 DEF u, v
        <5> QED BY <5>1, RangeConcatenation
      <4>4. Range(<<k>>) = {k}
        BY DEF Range
      <4> QED BY <1>3, <2>1, <2>4, <4>2, <4>3, <4>4 DEF u, v
    <3> QED BY <1>7, <2>1, <3>1
  <2> QED BY <1>1, <1>4, <1>6, <1>7, <2>3, <2>5 DEF DealIInv, DealTypeOK
<1>11. Counted'
  <2>1. ASSUME NEW c \in Channel PROVE assigned'[c] = 0 <=> Dealt(c)' = 0
    <3>1. CASE c = b
      BY <1>3, <1>5, <1>6, <1>8, <3>1 DEF Dealt
    <3>2. CASE c # b
      BY <1>6, <1>7, <3>2 DEF Dealt, DealIInv, Counted
    <3> QED BY <3>1, <3>2
  <2> QED BY <2>1 DEF Counted
<1>12. Probed'
  <2>1. SUFFICES ASSUME NEW c \in Channel, NEW d \in Channel, Dealt(c)' = 0
                 PROVE Dealt(d)' <= 1 /\ (c < d => Dealt(d)' = 0)
    BY DEF Probed
  <2>2. c # b /\ Dealt(c) = 0 /\ assigned[c] = 0
    <3>1. c # b
      BY <1>3, <1>8, <2>1 DEF Dealt
    <3> QED BY <1>7, <2>1, <3>1 DEF Dealt, DealIInv, Counted
  <2>3. assigned[b] = 0
    <3>1. ~(assigned[c] * Weight(b) < assigned[b] * Weight(c))
      BY <1>3 DEF Lowest, RatioBelow
    <3>2. assigned[b] \in Nat /\ Weight(c) \in Nat \ {0} /\ Weight(b) \in Nat
      BY <1>3, <1>6, <1>9
    <3>3. assigned[c] * Weight(b) = 0
      BY <2>2, <3>2
    <3>4. ~(0 < assigned[b] * Weight(c))
      BY <3>1, <3>3
    <3> QED BY <3>2, <3>4
  <2>4. Dealt(b) = 0
    BY <1>3, <2>3 DEF DealIInv, Counted
  <2>5. ~(c < b)
    <3>1. SUFFICES ASSUME c < b PROVE FALSE
      OBVIOUS
    <3>2. assigned[b] * Weight(c) < assigned[c] * Weight(b)
      BY <1>3, <3>1 DEF Lowest, RatioBelow
    <3>3. Weight(c) \in Nat /\ Weight(b) \in Nat
      BY <1>3, <1>9
    <3> QED BY <2>2, <2>3, <3>2, <3>3
  <2>6. CASE d = b
    <3>1. Len(shards'[b]) = 1
      BY <1>8, <2>4 DEF Dealt
    <3> QED BY <2>5, <2>6, <3>1 DEF Dealt
  <2>7. CASE d # b
    BY <1>7, <2>2, <2>7 DEF Dealt, DealIInv, Probed
  <2> QED BY <2>6, <2>7
<1>13. Conserved'
  BY <1>1 DEF DealIInv, Conserved
<1>14. Balanced'
  <2>1. SUFFICES ASSUME NEW c \in Channel, NEW d \in Channel, Dealt(c)' > 0
                 PROVE (assigned'[c] - Bytes(Last(shards'[c]))) * Weight(d) <= assigned'[d] * Weight(c)
    BY <1>9 DEF Balanced
  <2>2. assigned[d] * Weight(c) <= assigned'[d] * Weight(c)
    BY <1>6, <1>9, TimesMonotone
  <2>3. CASE c = b
    <3>1. assigned'[c] - Bytes(Last(shards'[c])) = assigned[b]
      BY <1>3, <1>5, <1>6, <1>8, <2>3
    <3>2. ~(assigned[d] * Weight(b) < assigned[b] * Weight(d))
      BY <1>3 DEF Lowest, RatioBelow
    <3> DEFINE p == assigned[b] * Weight(d)
    <3> DEFINE q == assigned[d] * Weight(b)
    <3> DEFINE r == assigned'[d] * Weight(b)
    <3>3. p \in Nat /\ q \in Nat /\ r \in Nat
      <4>1. /\ assigned[b] \in Nat /\ assigned[d] \in Nat /\ assigned'[d] \in Nat
            /\ Weight(d) \in Nat /\ Weight(b) \in Nat
        BY <1>3, <1>6, <1>9
      <4> QED BY <4>1
    <3>4. ~(q < p) /\ q <= r
      BY <2>2, <2>3, <3>2
    <3> HIDE DEF p, q, r
    <3>5. p <= r
      BY <3>3, <3>4
    <3> QED BY <2>3, <3>1, <3>5 DEF p, r
  <2>4. CASE c # b
    <3>1. assigned'[c] = assigned[c] /\ shards'[c] = shards[c] /\ Dealt(c) > 0
      BY <1>6, <1>7, <2>1, <2>4 DEF Dealt
    <3> DEFINE p == (assigned[c] - Bytes(Last(shards[c]))) * Weight(d)
    <3> DEFINE q == assigned[d] * Weight(c)
    <3> DEFINE r == assigned'[d] * Weight(c)
    <3>2. p <= q
      BY <3>1 DEF DealIInv, Balanced
    <3>3. Bytes(Last(shards[c])) \in Nat
      <4>1. Last(shards[c]) \in Keys
        BY <1>2, <1>8, <3>1 DEF Dealt, Last
      <4>2. \A x \in Keys : x.len \in Nat
        BY DEF Keys
      <4> QED BY <4>1, <4>2 DEF Bytes
    <3>4. p \in Int /\ q \in Nat /\ r \in Nat
      <4>1. /\ assigned[c] \in Nat /\ assigned[d] \in Nat /\ assigned'[d] \in Nat
            /\ Weight(d) \in Nat /\ Weight(c) \in Nat
        BY <1>6, <1>9
      <4>2. assigned[c] - Bytes(Last(shards[c])) \in Int
        BY <3>3, <4>1
      <4> QED BY <4>1, <4>2
    <3>5. q <= r
      BY <2>2
    <3> HIDE DEF p, q, r
    <3>6. p <= r
      BY <3>2, <3>4, <3>5
    <3> QED BY <3>1, <3>6 DEF p, r
  <2> QED BY <2>3, <2>4
<1> QED BY <1>10, <1>11, <1>12, <1>13, <1>14 DEF DealIInv

\* The shards are asked for: what is left is what was dealt.
LEMMA AskStep == DealIInv /\ Ask => DealIInv'
<1> SUFFICES ASSUME DealIInv, Ask PROVE DealIInv'
  OBVIOUS
<1>1. /\ phase = "deal" /\ phase' = "move"
      /\ left' = [c \in Channel |-> WireBytes(shards[c])]
      /\ UNCHANGED <<speed, round, wants, weights, assigned, shards, wire, prevWire>>
  BY DEF Ask
<1>2. /\ left \in [Channel -> Nat] /\ wire \in [Channel -> Nat] /\ prevWire \in [Channel -> Nat]
      /\ shards \in [Channel -> Seq(Keys)]
  BY DealTyped DEF DealIInv
<1>3. \A c \in Channel : WireBytes(shards[c]) \in Nat
  BY <1>2, WireBytesType
<1>4. left' \in [Channel -> Nat] /\ \A c \in Channel : left'[c] = WireBytes(shards[c])
  BY <1>1, <1>3
<1>5. DealTypeOK'
  BY <1>1, <1>4 DEF DealIInv, DealTypeOK
<1>6. Probed' /\ Counted'
  BY <1>1 DEF DealIInv, Probed, Counted, Dealt
<1>7. Conserved'
  <2>1. ASSUME NEW c \in Channel
        PROVE left'[c] + wire'[c] = prevWire'[c] + WireBytes(shards[c])
    <3>1. left[c] \in Nat /\ wire[c] \in Nat /\ prevWire[c] \in Nat /\ WireBytes(shards[c]) \in Nat
      BY <1>2, <1>3
    <3>2. left[c] + wire[c] = prevWire[c] + 0
      BY <1>1 DEF DealIInv, Conserved
    <3>3. prevWire[c] <= wire[c]
      BY DEF DealIInv, DealTypeOK
    <3>4. wire[c] = prevWire[c]
      BY <3>1, <3>2, <3>3
    <3> QED BY <1>1, <1>4, <3>1, <3>4
  <2> QED BY <1>1, <2>1 DEF Conserved
<1>8. Balanced'
  BY <1>1 DEF DealIInv, Balanced, Dealt, Weight
<1> QED BY <1>5, <1>6, <1>7, <1>8 DEF DealIInv

\* What is moved is no longer left.
LEMMA TickStep == DealIInv /\ Tick => DealIInv'
<1> SUFFICES ASSUME DealIInv, Tick PROVE DealIInv'
  OBVIOUS
<1>1. /\ phase = "move"
      /\ left' = [c \in Channel |-> left[c] - Moved(c)]
      /\ wire' = [c \in Channel |-> wire[c] + Moved(c)]
      /\ UNCHANGED <<speed, round, phase, wants, weights, assigned, shards, prevWire>>
  BY DEF Tick
<1>2. /\ left \in [Channel -> Nat] /\ wire \in [Channel -> Nat] /\ prevWire \in [Channel -> Nat]
      /\ \A c \in Channel : speed[c] \in Nat /\ prevWire[c] <= wire[c]
  BY DealTyped DEF DealIInv, DealTypeOK
<1>3. \A c \in Channel : Moved(c) \in Nat /\ left[c] - Moved(c) \in Nat
  BY <1>2 DEF Moved
<1>4. ASSUME NEW c \in Channel
      PROVE /\ left'[c] = left[c] - Moved(c) /\ wire'[c] = wire[c] + Moved(c)
            /\ left'[c] + wire'[c] = left[c] + wire[c] /\ prevWire[c] <= wire'[c]
  <2>1. left'[c] = left[c] - Moved(c) /\ wire'[c] = wire[c] + Moved(c)
    BY <1>1
  <2>2. /\ left[c] \in Nat /\ wire[c] \in Nat /\ Moved(c) \in Nat
        /\ prevWire[c] \in Nat /\ prevWire[c] <= wire[c]
    BY <1>2, <1>3
  <2> QED BY <2>1, <2>2
<1>5. left' \in [Channel -> Nat] /\ wire' \in [Channel -> Nat]
  BY <1>1, <1>2, <1>3
<1>6. DealTypeOK'
  BY <1>1, <1>4, <1>5 DEF DealIInv, DealTypeOK
<1>7. Probed' /\ Counted'
  BY <1>1 DEF DealIInv, Probed, Counted, Dealt
<1>8. Conserved'
  BY <1>1, <1>4 DEF DealIInv, Conserved
<1>9. Balanced'
  BY <1>1 DEF DealIInv, Balanced, Dealt, Weight
<1> QED BY <1>6, <1>7, <1>8, <1>9 DEF DealIInv

\* The next round: what a channel moved is what it was dealt.
LEMMA NextRoundStep ==
  ASSUME DealIInv, NextRound
  PROVE /\ DealIInv'
        /\ \A c \in Channel : weights'[c] = WireBytes(shards[c])
<1>1. /\ phase = "move" /\ phase' = "deal" /\ \A c \in Channel : left[c] = 0
      /\ round < MaxRounds /\ round' = round + 1
      /\ weights' = [c \in Channel |-> wire[c] - prevWire[c]]
      /\ prevWire' = wire
      /\ assigned' = Zero /\ shards' = [c \in Channel |-> <<>>]
      /\ UNCHANGED <<speed, left, wire>>
  BY DEF NextRound, Sample
<1>2. PICK list \in WantLists : wants' = list
  BY DEF NextRound
<1>3. /\ left \in [Channel -> Nat] /\ wire \in [Channel -> Nat] /\ prevWire \in [Channel -> Nat]
      /\ \A c \in Channel : prevWire[c] <= wire[c]
      /\ shards \in [Channel -> Seq(Keys)]
  BY DealTyped DEF DealIInv, DealTypeOK
<1>4. ASSUME NEW c \in Channel
      PROVE weights'[c] = WireBytes(shards[c]) /\ weights'[c] \in Nat /\ weights'[c] = wire[c] - prevWire[c]
  <2>1. weights'[c] = wire[c] - prevWire[c]
    BY <1>1
  <2>2. left[c] + wire[c] = prevWire[c] + WireBytes(shards[c])
    BY <1>1 DEF DealIInv, Conserved
  <2>3. wire[c] \in Nat /\ prevWire[c] \in Nat /\ left[c] = 0 /\ WireBytes(shards[c]) \in Nat
    BY <1>1, <1>3, WireBytesType
  <2> QED BY <2>1, <2>2, <2>3
<1>5. weights' \in [Channel -> Nat]
  BY <1>1, <1>4
<1>6. Zero \in [Channel -> Nat] /\ \A c \in Channel : Zero[c] = 0
  BY DEF Zero
<1>7. shards' \in [Channel -> Seq(Keys)] /\ \A c \in Channel : shards'[c] = <<>> /\ Dealt(c)' = 0
  BY <1>1 DEF Dealt
<1>8. DealTypeOK'
  <2>1. round' \in 1..MaxRounds
    <3>1. round \in 1..MaxRounds
      BY DEF DealIInv, DealTypeOK
    <3> QED BY <1>1, <3>1, DealAssumption
  <2>2. wants' \in Seq(Keys) /\ IsSuffix(wants', list)
    BY <1>2, RootIsKey, SuffixSelf
  <2>3. \A c \in Channel : Range(shards'[c]) \subseteq Range(list)
    <3>1. Range(<<>>) = {}
      BY DEF Range
    <3> QED BY <1>7, <3>1
  <2>4. \A c \in Channel : prevWire'[c] <= wire'[c]
    <3>1. \A c \in Channel : wire[c] \in Nat
      BY <1>3
    <3> QED BY <1>1, <3>1
  <2>5. speed' \in [Channel -> Speeds]
    BY <1>1 DEF DealIInv, DealTypeOK
  <2>6. /\ assigned' \in [Channel -> Nat] /\ left' \in [Channel -> Nat] /\ wire' \in [Channel -> Nat]
        /\ prevWire' \in [Channel -> Nat] /\ phase' \in {"deal", "move"}
    BY <1>1, <1>3, <1>6
  <2> QED BY <1>5, <1>7, <2>1, <2>2, <2>3, <2>4, <2>5, <2>6 DEF DealTypeOK
<1>9. Probed' /\ Counted' /\ Balanced'
  <2>1. Probed'
    BY <1>7 DEF Probed
  <2>2. Counted'
    BY <1>1, <1>6, <1>7 DEF Counted
  <2>3. Balanced'
    BY <1>7 DEF Balanced
  <2> QED BY <2>1, <2>2, <2>3
<1>10. Conserved'
  <2>1. \A c \in Channel : left'[c] = 0 /\ prevWire'[c] = wire'[c] /\ wire'[c] \in Nat
    BY <1>1, <1>3
  <2> QED BY <1>1, <2>1 DEF Conserved
<1> QED BY <1>4, <1>8, <1>9, <1>10 DEF DealIInv

\* Nothing changes.
LEMMA DealStutter == DealIInv /\ UNCHANGED dealVars => DealIInv'
<1> SUFFICES ASSUME DealIInv, UNCHANGED dealVars PROVE DealIInv'
  OBVIOUS
<1>1. DealTypeOK'
  BY DEF DealIInv, DealTypeOK, dealVars
<1>2. Probed' /\ Counted' /\ Conserved' /\ Balanced'
  BY DEF DealIInv, Probed, Counted, Conserved, Balanced, Dealt, Weight, dealVars
<1> QED BY <1>1, <1>2 DEF DealIInv

\* Every step keeps the invariant.
LEMMA DealStep == DealIInv /\ [DealNext]_dealVars => DealIInv'
<1> SUFFICES ASSUME DealIInv, [DealNext]_dealVars PROVE DealIInv'
  OBVIOUS
<1>1. CASE Synced
  BY <1>1, DealStutter DEF Synced
<1> QED
  BY <1>1, DealKeyStep, AskStep, TickStep, NextRoundStep, DealStutter DEF DealNext

\* The invariant holds in every reachable state, for every number of channels and
\* every list of keys: no channel is locked out of a round.
THEOREM DealInductive == DealSpec => []DealIInv
BY DealInitIInv, DealStep, PTL DEF DealSpec

\* No channel is ahead of another by more than its last key, relative to the
\* weights, whatever the weights and the lengths of the keys.
THEOREM SharesBalanced == DealSpec => []Balanced
<1>1. DealIInv => Balanced
  BY DEF DealIInv
<1> QED BY <1>1, DealInductive, PTL

\* The weights of a round are the wire bytes of the shards of the round before.
THEOREM WeightsAreBytesDealt == DealSpec => SampledIsDealt
<1> DEFINE Sampled == round' # round => \A c \in Channel : weights'[c] = WireBytes(shards[c])
<1>1. DealIInv /\ [DealNext]_dealVars => [Sampled]_dealVars
  <2> SUFFICES ASSUME DealIInv, DealNext, round' # round
               PROVE  \A c \in Channel : weights'[c] = WireBytes(shards[c])
    OBVIOUS
  <2>1. NextRound
    BY DEF DealNext, DealKey, Ask, Tick, Synced, dealVars
  <2> QED BY <2>1, NextRoundStep
<1>2. DealSpec => [][Sampled]_dealVars
  BY <1>1, DealInductive, PTL DEF DealSpec
<1> QED BY <1>2 DEF SampledIsDealt
=============================================================================
