---------------------------- MODULE SeqOpsProofs ----------------------------
(* Facts about the concatenation of a list of sequences, for lists of any  *)
(* length, proved by induction on the length in the form "a set of natural *)
(* numbers that is not empty has a least element"; and about the order of  *)
(* bytes that flow through a line of sequences.                            *)
EXTENDS SeqOps, WellFoundedInduction, TLAPS

(* A set of natural numbers has a least element. *)
LEMMA LeastNat ==
  ASSUME NEW T, T \subseteq Nat, T # {}
  PROVE  \E n \in T : \A m \in T : n <= m
  <1> DEFINE R == OpToRel(<, Nat)
  <1>1. IsWellFoundedOn(R, Nat)
    BY ZenonT(30), NatLessThanWellFounded
  <1>2. \A x, y \in Nat : x < y => <<x, y>> \in R
    BY DEF OpToRel
  <1> HIDE DEF R
  <1>3. PICK n \in T : \A m \in T : <<m, n>> \notin R
    BY <1>1, WFMin, Zenon
  <1>4. \A m \in T : ~(m < n)
    BY <1>2, <1>3, Zenon
  <1>5. \A m \in T : n <= m
    BY ONLY <1>4, T \subseteq Nat, n \in T
  <1> QED  BY ONLY <1>5, n \in T

(* Induction: a set with 0 and with the successors of its elements up to n *)
(* has every number up to n.                                               *)
LEMMA UpTo ==
  ASSUME NEW n \in Nat, NEW P, 0 \in P,
         \A i \in 0..(n - 1) : i \in P => i + 1 \in P
  PROVE  \A i \in 0..n : i \in P
  <1> SUFFICES ASSUME NEW k \in 0..n, k \notin P PROVE FALSE
    OBVIOUS
  <1> DEFINE T == {i \in 0..n : i \notin P}
  <1>1. T \subseteq Nat /\ T # {}
    OBVIOUS
  <1>2. PICK i \in T : \A j \in T : i <= j
    BY <1>1, LeastNat, Zenon
  <1>3. i # 0 /\ i \in 0..n /\ i \notin P
    OBVIOUS
  <1>4. i - 1 \in 0..(n - 1) /\ i - 1 \in 0..n /\ ~(i <= i - 1) /\ i - 1 + 1 = i
    BY <1>3
  <1>5. i - 1 \in P
    BY <1>2, <1>4
  <1> QED  BY <1>3, <1>4, <1>5

(* Induction over sequences: a set with the empty sequence that is closed  *)
(* under Append has them all.                                              *)
LEMMA SeqInduction ==
  ASSUME NEW S, NEW P, << >> \in P,
         \A s \in Seq(S), e \in S : s \in P => Append(s, e) \in P
  PROVE  \A s \in Seq(S) : s \in P
  <1> TAKE s \in Seq(S)
  <1> DEFINE T == {n \in Nat : SubSeq(s, 1, n) \in P}
  <1>1. 0 \in T
    <2>1. SubSeq(s, 1, 0) = << >>
      OBVIOUS
    <2> QED  BY ZenonT(30), <2>1
  <1>2. \A n \in 0..(Len(s) - 1) : n \in T => n + 1 \in T
    <2> SUFFICES ASSUME NEW n \in 0..(Len(s) - 1), SubSeq(s, 1, n) \in P
                 PROVE  SubSeq(s, 1, n + 1) \in P
      OBVIOUS
    <2>1. SubSeq(s, 1, n + 1) = Append(SubSeq(s, 1, n), s[n + 1])
      OBVIOUS
    <2>2. SubSeq(s, 1, n) \in Seq(S) /\ s[n + 1] \in S
      OBVIOUS
    <2> QED  BY ZenonT(30), <2>1, <2>2
  <1>3. Len(s) \in Nat /\ Len(s) \in 0..Len(s)
    OBVIOUS
  <1>4. \A n \in 0..Len(s) : n \in T
    <2> HIDE DEF T
    <2> QED  BY <1>1, <1>2, <1>3, UpTo, Zenon
  <1>5. SubSeq(s, 1, Len(s)) = s
    OBVIOUS
  <1>6. SubSeq(s, 1, Len(s)) \in P
    BY <1>3, <1>4, Zenon
  <1> QED  BY <1>5, <1>6, Zenon

(* Cutting a sequence at u. *)
LEMMA CutSeq ==
  ASSUME NEW S, NEW s \in Seq(S), NEW u \in 0..Len(s)
  PROVE  /\ SubSeq(s, 1, u) \in Seq(S) /\ Len(SubSeq(s, 1, u)) = u
         /\ SubSeq(s, u + 1, Len(s)) \in Seq(S) /\ Len(SubSeq(s, u + 1, Len(s))) = Len(s) - u
         /\ s = SubSeq(s, 1, u) \o SubSeq(s, u + 1, Len(s))
<1>1. Len(s) \in Nat /\ u \in Nat
  OBVIOUS
<1>2. SubSeq(s, 1, u) \in Seq(S) /\ Len(SubSeq(s, 1, u)) = u
  BY <1>1
<1>3. SubSeq(s, u + 1, Len(s)) \in Seq(S) /\ Len(SubSeq(s, u + 1, Len(s))) = Len(s) - u
  BY <1>1
<1>4. s = SubSeq(s, 1, u) \o SubSeq(s, u + 1, Len(s))
  <2>1. PICK a, b : a = SubSeq(s, 1, u) /\ b = SubSeq(s, u + 1, Len(s))
    BY Zenon
  <2>2. /\ a \in Seq(S) /\ Len(a) = u /\ b \in Seq(S) /\ Len(b) = Len(s) - u
        /\ \A i \in 1..u : a[i] = s[i]
        /\ \A i \in 1..(Len(s) - u) : b[i] = s[u + i]
    BY <1>1, <1>2, <1>3, <2>1
  <2>3. PICK c : c = a \o b
    BY Zenon
  <2>4. c \in Seq(S) /\ Len(c) = Len(s) /\ \A i \in 1..Len(s) : c[i] = s[i]
    <3>1. c \in Seq(S) /\ Len(c) = Len(s)
      <4>1. c \in Seq(S) /\ Len(c) = Len(a) + Len(b)
        <5>1. \A x, y \in Seq(S) : x \o y \in Seq(S) /\ Len(x \o y) = Len(x) + Len(y)
          OBVIOUS
        <5>2. QED
          BY <2>2, <2>3, <5>1, Zenon
      <4>2. QED
        BY <1>1, <2>2, <4>1
    <3>2. ASSUME NEW i \in 1..Len(s), i <= u PROVE c[i] = s[i]
      BY <1>1, <2>2, <2>3, <3>2
    <3>3. ASSUME NEW i \in 1..Len(s), ~(i <= u) PROVE c[i] = s[i]
      <4>1. i - u \in 1..(Len(s) - u) /\ u + (i - u) = i
        BY <1>1, <3>3
      <4>2. c[i] = b[i - u]
        BY <1>1, <2>2, <2>3, <3>3
      <4>3. QED
        BY <2>2, <4>1, <4>2
    <3>4. QED
      BY <3>1, <3>2, <3>3
  <2>5. c = s
    BY <2>4
  <2>6. QED
    BY ZenonT(30), <2>1, <2>3, <2>5
<1>5. QED
  BY ZenonT(30), <1>2, <1>3, <1>4

-----------------------------------------------------------------------------
(* The partial concatenations of ss. *)
IsFlat(g, ss) == g = [i \in 0..Len(ss) |-> IF i = 0 THEN << >> ELSE g[i - 1] \o ss[i]]

(* FlattenSeq is the last of them. *)
LEMMA Flat ==
  ASSUME NEW ss, Len(ss) \in Nat
  PROVE  \E g : IsFlat(g, ss) /\ FlattenSeq(ss) = g[Len(ss)]
  <1>1. \E g : IsFlat(g, ss)
    <2> DEFINE Cat(a, i) == a \o ss[i]
               Q(g, n) == g = [i \in 0..n |-> IF i = 0 THEN << >> ELSE Cat(g[i - 1], i)]
               P == {n \in Nat : \E g : Q(g, n)}
    <2> HIDE DEF Cat
    <2>1. 0 \in P
      <3>1. Q([i \in 0..0 |-> << >>], 0)
        OBVIOUS
      <3> QED  BY ZenonT(30), <3>1
    <2>2. ASSUME NEW n \in Nat, NEW g, Q(g, n) PROVE \E h : Q(h, n + 1)
      <3> DEFINE h == [i \in 0..(n + 1) |-> IF i = n + 1 THEN Cat(g[n], i) ELSE g[i]]
      <3>1. \A i \in 0..n : g[i] = IF i = 0 THEN << >> ELSE Cat(g[i - 1], i)
        BY <2>2
      <3>2. /\ \A i \in 0..n : h[i] = g[i]
            /\ h[n + 1] = Cat(g[n], n + 1)
        OBVIOUS
      <3>3. h = [i \in 0..(n + 1) |-> h[i]]
        OBVIOUS
      <3> HIDE DEF h
      <3>4. \A i \in 0..(n + 1) : h[i] = IF i = 0 THEN << >> ELSE Cat(h[i - 1], i)
        <4> TAKE i \in 0..(n + 1)
        <4>1. CASE i = n + 1
          <5>1. n \in 0..n /\ i # 0 /\ i - 1 = n
            BY <4>1
          <5> QED  BY <3>2, <4>1, <5>1
        <4>2. CASE i \in 0..n /\ i # 0
          <5>1. i - 1 \in 0..n
            BY <4>2
          <5> QED  BY <3>1, <3>2, <4>2, <5>1
        <4>3. CASE i = 0
          BY <3>1, <3>2, <4>3
        <4> QED  BY <4>1, <4>2, <4>3
      <3>5. Q(h, n + 1)
        BY <3>3, <3>4
      <3> QED  BY <3>5
    <2>3. \A n \in 0..(Len(ss) - 1) : n \in P => n + 1 \in P
      <3> HIDE DEF Q
      <3> QED  BY <2>2
    <2>4. \A n \in 0..Len(ss) : n \in P
      <3> HIDE DEF P
      <3> QED  BY SMTT(30), <2>1, <2>3, UpTo
    <2>5. \E g : Q(g, Len(ss))
      BY <2>4
    <2> QED  BY <2>5, Zenon DEF Cat, IsFlat
  <1> QED  BY <1>1 DEF IsFlat, FlattenSeq

(* A function that adds one sequence after the other ends with the         *)
(* concatenation.                                                          *)
LEMMA FlattenBy ==
  ASSUME NEW ss, Len(ss) \in Nat, NEW g, g[0] = << >>,
         \A i \in 1..Len(ss) : g[i] = g[i - 1] \o ss[i]
  PROVE  FlattenSeq(ss) = g[Len(ss)]
  <1> DEFINE Cat(a, i) == a \o ss[i]
  <1>1. PICK f : IsFlat(f, ss) /\ FlattenSeq(ss) = f[Len(ss)]
    BY Flat
  <1>2. f = [i \in 0..Len(ss) |-> IF i = 0 THEN << >> ELSE Cat(f[i - 1], i)]
    BY <1>1, Zenon DEF IsFlat
  <1>3. \A i \in 1..Len(ss) : g[i] = Cat(g[i - 1], i)
    BY Zenon
  <1> HIDE DEF Cat
  <1>4. \A i \in 0..Len(ss) : f[i] = IF i = 0 THEN << >> ELSE Cat(f[i - 1], i)
    BY <1>2
  <1> DEFINE P == {n \in Nat : f[n] = g[n]}
  <1>5. 0 \in P
    BY <1>4
  <1>6. \A n \in 0..(Len(ss) - 1) : n \in P => n + 1 \in P
    <2> SUFFICES ASSUME NEW n \in 0..(Len(ss) - 1), f[n] = g[n] PROVE f[n + 1] = g[n + 1]
      OBVIOUS
    <2>1. n + 1 \in 1..Len(ss) /\ n + 1 \in 0..Len(ss) /\ n + 1 # 0 /\ n + 1 - 1 = n
      OBVIOUS
    <2> QED  BY <1>3, <1>4, <2>1
  <1>7. \A n \in 0..Len(ss) : n \in P
    <2> HIDE DEF P
    <2> QED  BY SMTT(30), <1>5, <1>6, UpTo
  <1> QED  BY <1>1, <1>7

-----------------------------------------------------------------------------
(* Nothing concatenated is empty, ... *)
LEMMA FlattenEmpty == FlattenSeq(<< >>) = << >>
  <1> DEFINE g == [i \in 0..0 |-> << >>]
  <1>1. g[0] = << >> /\ Len(<< >>) = 0
    OBVIOUS
  <1> HIDE DEF g
  <1>2. Len(<< >>) \in Nat /\ \A i \in 1..Len(<< >>) : g[i] = g[i - 1] \o << >>[i]
    BY <1>1
  <1>3. FlattenSeq(<< >>) = g[Len(<< >>)]
    BY <1>1, <1>2, FlattenBy, Zenon
  <1> QED  BY <1>1, <1>3, Zenon

(* ... one more sequence goes to the end, ... *)
LEMMA FlattenAppend ==
  ASSUME NEW S, NEW ss \in Seq(Seq(S)), NEW s \in Seq(S)
  PROVE  FlattenSeq(Append(ss, s)) = FlattenSeq(ss) \o s
  <1> DEFINE n  == Len(ss)
             tt == Append(ss, s)
  <1>1. /\ n \in Nat /\ Len(tt) = n + 1 /\ tt[n + 1] = s
        /\ \A i \in 1..n : tt[i] = ss[i]
    OBVIOUS
  <1>2. PICK f : IsFlat(f, ss) /\ FlattenSeq(ss) = f[n]
    BY <1>1, Flat
  <1> DEFINE Cat(a, b) == a \o b
  <1>3. f = [i \in 0..n |-> IF i = 0 THEN << >> ELSE Cat(f[i - 1], ss[i])]
    BY <1>2, Zenon DEF IsFlat
  <1> HIDE DEF Cat, n, tt
  <1> DEFINE g == [i \in 0..(n + 1) |-> IF i = n + 1 THEN Cat(f[n], s) ELSE f[i]]
  <1>4. g[0] = << >> /\ \A i \in 1..(n + 1) : g[i] = Cat(g[i - 1], tt[i])
    <2>1. \A i \in 0..n : f[i] = IF i = 0 THEN << >> ELSE Cat(f[i - 1], ss[i])
      BY ZenonT(30), <1>3
    <2>2. g[n + 1] = Cat(f[n], s) /\ \A i \in 0..n : g[i] = f[i]
      BY <1>1
    <2> HIDE DEF g
    <2>3. g[0] = << >>
      BY <1>1, <2>1, <2>2
    <2>4. ASSUME NEW i \in 1..(n + 1) PROVE g[i] = Cat(g[i - 1], tt[i])
      <3>1. CASE i = n + 1
        <4>1. n \in 0..n /\ i - 1 = n
          BY <1>1, <3>1
        <4> QED  BY <1>1, <2>2, <3>1, <4>1
      <3>2. CASE i # n + 1
        <4>1. i \in 1..n /\ i \in 0..n /\ i - 1 \in 0..n /\ i # 0
          BY <1>1, <3>2
        <4> QED  BY <1>1, <2>1, <2>2, <4>1
      <3> QED  BY <3>1, <3>2
    <2> QED  BY <2>3, <2>4
  <1>5. g[n + 1] = Cat(f[n], s)
    BY <1>1
  <1> HIDE DEF g
  <1>6. \A i \in 1..Len(tt) : g[i] = g[i - 1] \o tt[i]
    BY <1>1, <1>4, Zenon DEF Cat
  <1>7. Len(tt) \in Nat
    BY <1>1
  <1>8. FlattenSeq(tt) = g[Len(tt)]
    BY <1>4, <1>6, <1>7, FlattenBy, Zenon
  <1>9. FlattenSeq(tt) = Cat(FlattenSeq(ss), s)
    BY <1>1, <1>2, <1>5, <1>8
  <1> QED  BY <1>9, Zenon DEF Cat, tt

(* ... and the result has the elements the sequences have. *)
LEMMA FlattenType ==
  ASSUME NEW S
  PROVE  \A ss \in Seq(Seq(S)) : FlattenSeq(ss) \in Seq(S)
  <1> DEFINE P == {ss \in Seq(Seq(S)) : FlattenSeq(ss) \in Seq(S)}
  <1>1. << >> \in P
    <2>1. << >> \in Seq(Seq(S)) /\ << >> \in Seq(S)
      OBVIOUS
    <2> QED  BY <2>1, FlattenEmpty, Zenon
  <1>2. ASSUME NEW ss \in Seq(Seq(S)), NEW s \in Seq(S), ss \in P PROVE Append(ss, s) \in P
    <2>1. FlattenSeq(Append(ss, s)) = FlattenSeq(ss) \o s /\ FlattenSeq(ss) \in Seq(S)
      BY <1>2, FlattenAppend
    <2>2. FlattenSeq(ss) \o s \in Seq(S)
      BY <2>1
    <2>3. Append(ss, s) \in Seq(Seq(S))
      OBVIOUS
    <2> QED  BY <2>1, <2>2, <2>3, Zenon
  <1> HIDE DEF P
  <1>3. \A ss \in Seq(Seq(S)) : ss \in P
    BY <1>1, <1>2, SeqInduction
  <1> QED  BY <1>3 DEF P

(* Concatenation of lists is concatenation of what they hold. *)
LEMMA FlattenConcat ==
  ASSUME NEW S, NEW ss \in Seq(Seq(S)), NEW tt \in Seq(Seq(S))
  PROVE  FlattenSeq(ss \o tt) = FlattenSeq(ss) \o FlattenSeq(tt)
  <1> DEFINE P == {uu \in Seq(Seq(S)) : FlattenSeq(ss \o uu) = FlattenSeq(ss) \o FlattenSeq(uu)}
  <1>1. << >> \in P
    <2>1. ss \o << >> = ss /\ FlattenSeq(ss) \in Seq(S)
      BY FlattenType
    <2>2. FlattenSeq(ss) \o << >> = FlattenSeq(ss)
      BY <2>1
    <2> QED  BY <2>1, <2>2, FlattenEmpty
  <1>2. ASSUME NEW uu \in Seq(Seq(S)), NEW s \in Seq(S), uu \in P PROVE Append(uu, s) \in P
    <2>1. ss \o Append(uu, s) = Append(ss \o uu, s) /\ ss \o uu \in Seq(Seq(S))
      BY SMTT(30)
    <2>2. FlattenSeq(Append(ss \o uu, s)) = FlattenSeq(ss \o uu) \o s
      BY ZenonT(30), <2>1, FlattenAppend
    <2>3. FlattenSeq(ss \o uu) = FlattenSeq(ss) \o FlattenSeq(uu)
      BY <1>2
    <2>4. FlattenSeq(Append(uu, s)) = FlattenSeq(uu) \o s
      BY FlattenAppend
    <2>5. (FlattenSeq(ss) \o FlattenSeq(uu)) \o s = FlattenSeq(ss) \o (FlattenSeq(uu) \o s)
      <3>1. FlattenSeq(ss) \in Seq(S) /\ FlattenSeq(uu) \in Seq(S)
        BY FlattenType
      <3>2. \A a, b, c \in Seq(S) : (a \o b) \o c = a \o (b \o c)
        BY SMTT(20)
      <3> QED  BY <3>1, <3>2, Zenon
    <2>6. FlattenSeq(ss \o Append(uu, s)) = FlattenSeq(ss) \o FlattenSeq(Append(uu, s))
      BY <2>1, <2>2, <2>3, <2>4, <2>5, Zenon
    <2>7. Append(uu, s) \in Seq(Seq(S))
      OBVIOUS
    <2> QED  BY <2>6, <2>7
  <1> HIDE DEF P
  <1>3. \A uu \in Seq(Seq(S)) : uu \in P
    BY <1>1, <1>2, SeqInduction
  <1> QED  BY <1>3 DEF P

-----------------------------------------------------------------------------
(* The order of bytes in a concatenation. *)

(* Each byte of X comes before those of Y that its sender sent. *)
Prec(X, Y) == \A a \in X, b \in Y : a[1] = b[1] => Before(a, b)

(* A concatenation holds what its parts hold ... *)
LEMMA ElementsConcat ==
  ASSUME NEW S, NEW x \in Seq(S), NEW y \in Seq(S)
  PROVE  Elements(x \o y) = Elements(x) \cup Elements(y)
<1> DEFINE c == x \o y
<1>1. Len(x) \in Nat /\ Len(y) \in Nat /\ Len(c) = Len(x) + Len(y)
  OBVIOUS
<1>2. \A i \in 1..Len(x) : i \in 1..Len(c) /\ c[i] = x[i]
  OBVIOUS
<1>3. \A i \in 1..Len(y) : Len(x) + i \in 1..Len(c) /\ c[Len(x) + i] = y[i]
  OBVIOUS
<1>4. \A i \in 1..Len(c) : \/ i \in 1..Len(x) /\ c[i] = x[i]
                           \/ i - Len(x) \in 1..Len(y) /\ c[i] = y[i - Len(x)]
  OBVIOUS
<1> HIDE DEF c
<1>5. Elements(c) \subseteq Elements(x) \cup Elements(y)
  BY <1>4 DEF Elements
<1>6. Elements(x) \subseteq Elements(c)
  BY <1>2 DEF Elements
<1>7. Elements(y) \subseteq Elements(c)
  BY <1>3 DEF Elements
<1>8. QED
  BY <1>5, <1>6, <1>7 DEF c

(* ... and is in order when they are, one before the other. *)
LEMMA ConcatInOrder ==
  ASSUME NEW S, NEW x \in Seq(S), NEW y \in Seq(S)
  PROVE  InOrder(x \o y) <=> InOrder(x) /\ InOrder(y) /\ Prec(Elements(x), Elements(y))
<1> DEFINE c == x \o y
<1>1. Len(x) \in Nat /\ Len(y) \in Nat /\ Len(c) = Len(x) + Len(y)
  OBVIOUS
<1>2. \A i \in 1..Len(x) : i \in 1..Len(c) /\ c[i] = x[i]
  OBVIOUS
<1>3. \A i \in 1..Len(y) : Len(x) + i \in 1..Len(c) /\ c[Len(x) + i] = y[i]
  OBVIOUS
<1>4. \A i \in 1..Len(c) : \/ i \in 1..Len(x) /\ c[i] = x[i]
                           \/ i - Len(x) \in 1..Len(y) /\ c[i] = y[i - Len(x)]
  OBVIOUS
<1> HIDE DEF c
<1>5. ASSUME InOrder(c) PROVE InOrder(x) /\ InOrder(y) /\ Prec(Elements(x), Elements(y))
  <2>1. InOrder(x)
    BY <1>2, <1>5 DEF InOrder
  <2>2. InOrder(y)
    <3> SUFFICES ASSUME NEW i \in 1..Len(y), NEW j \in 1..Len(y), i < j, y[i][1] = y[j][1]
                 PROVE  Before(y[i], y[j])
      BY DEF InOrder
    <3>1. Len(x) + i < Len(x) + j
      BY <1>1
    <3>2. QED
      BY ZenonT(30), <1>3, <1>5, <3>1 DEF InOrder
  <2>3. Prec(Elements(x), Elements(y))
    <3> SUFFICES ASSUME NEW i \in 1..Len(x), NEW j \in 1..Len(y), x[i][1] = y[j][1]
                 PROVE  Before(x[i], y[j])
      BY DEF Prec, Elements
    <3>1. i < Len(x) + j /\ i \in 1..Len(c) /\ c[i] = x[i]
      BY <1>1, <1>2
    <3>2. PICK k \in 1..Len(c) : k = Len(x) + j /\ c[k] = y[j]
      BY <1>3
    <3>3. QED
      BY <1>5, <3>1, <3>2 DEF InOrder
  <2>4. QED
    BY <2>1, <2>2, <2>3
<1>6. ASSUME InOrder(x), InOrder(y), Prec(Elements(x), Elements(y)) PROVE InOrder(c)
  <2> SUFFICES ASSUME NEW i \in 1..Len(c), NEW j \in 1..Len(c), i < j, c[i][1] = c[j][1]
               PROVE  Before(c[i], c[j])
    BY DEF InOrder
  <2>1. CASE j \in 1..Len(x) /\ c[j] = x[j]
    <3>1. i \in 1..Len(x) /\ c[i] = x[i]
      BY <1>1, <1>2, <2>1
    <3>2. QED
      BY <1>6, <2>1, <3>1 DEF InOrder
  <2>2. CASE j - Len(x) \in 1..Len(y) /\ c[j] = y[j - Len(x)]
    <3>1. CASE i \in 1..Len(x) /\ c[i] = x[i]
      <4>1. c[i] \in Elements(x) /\ c[j] \in Elements(y)
        BY <2>2, <3>1 DEF Elements
      <4>2. QED
        BY <1>6, <4>1 DEF Prec
    <3>2. CASE i - Len(x) \in 1..Len(y) /\ c[i] = y[i - Len(x)]
      <4>1. i - Len(x) < j - Len(x)
        BY <1>1
      <4>2. QED
        BY SMTT(30), <1>6, <2>2, <3>2, <4>1 DEF InOrder
    <3>3. QED
      BY <1>4, <3>1, <3>2
  <2>3. QED
    BY <1>4, <2>1, <2>2
<1>7. QED
  BY <1>5, <1>6 DEF c

(* The empty sequence holds nothing and is in order. *)
LEMMA EmptyInOrder == Elements(<< >>) = {} /\ InOrder(<< >>)
  BY DEF Elements, InOrder

(* What a concatenation holds is what its parts hold. *)
LEMMA FlattenElements ==
  ASSUME NEW S
  PROVE  \A ss \in Seq(Seq(S)) :
           Elements(FlattenSeq(ss)) = UNION {Elements(ss[i]) : i \in 1..Len(ss)}
  <1> DEFINE Held(ss) == UNION {Elements(ss[i]) : i \in 1..Len(ss)}
             P == {ss \in Seq(Seq(S)) : Elements(FlattenSeq(ss)) = Held(ss)}
  <1>1. << >> \in P
    <2>1. << >> \in Seq(Seq(S)) /\ Held(<< >>) = {} /\ Elements(<< >>) = {}
      BY DEF Elements
    <2> QED  BY <2>1, FlattenEmpty, Zenon
  <1>2. ASSUME NEW ss \in Seq(Seq(S)), NEW s \in Seq(S), ss \in P PROVE Append(ss, s) \in P
    <2>1. Append(ss, s) \in Seq(Seq(S)) /\ FlattenSeq(ss) \in Seq(S)
      BY FlattenType
    <2>2. Elements(FlattenSeq(Append(ss, s))) = Elements(FlattenSeq(ss)) \cup Elements(s)
      <3>1. FlattenSeq(Append(ss, s)) = FlattenSeq(ss) \o s
        BY FlattenAppend
      <3>2. \A a, b \in Seq(S) : Elements(a \o b) = Elements(a) \cup Elements(b)
        BY ElementsConcat, Zenon
      <3> QED  BY <2>1, <3>1, <3>2, Zenon
    <2>3. Held(Append(ss, s)) = Held(ss) \cup Elements(s)
      <3>1. /\ Len(ss) \in Nat /\ Len(Append(ss, s)) = Len(ss) + 1
            /\ Append(ss, s)[Len(ss) + 1] = s
            /\ \A i \in 1..Len(ss) : Append(ss, s)[i] = ss[i]
        OBVIOUS
      <3>2. \A i : i \in 1..(Len(ss) + 1) <=> i \in 1..Len(ss) \/ i = Len(ss) + 1
        BY <3>1
      <3>3. {Elements(Append(ss, s)[i]) : i \in 1..Len(Append(ss, s))}
              = {Elements(ss[i]) : i \in 1..Len(ss)} \cup {Elements(s)}
        BY <3>1, <3>2, Zenon
      <3> QED  BY <3>3, Zenon
    <2>4. Elements(FlattenSeq(ss)) = Held(ss)
      BY <1>2
    <2> QED  BY <2>1, <2>2, <2>3, <2>4, Zenon
  <1>3. \A ss \in Seq(Seq(S)) : ss \in P
    <2> HIDE DEF P
    <2> QED  BY <1>1, <1>2, SeqInduction
  <1> QED  BY <1>3, Zenon

(* Pieces in order, each before the next, are in order when flattened. *)
LEMMA FlattenInOrder ==
  ASSUME NEW S, NEW ss \in Seq(Seq(S)), \A i \in 1..Len(ss) : InOrder(ss[i]),
         \A i, j \in 1..Len(ss) : i < j => Prec(Elements(ss[i]), Elements(ss[j]))
  PROVE  InOrder(FlattenSeq(ss))
<1> DEFINE F(n) == SubSeq(ss, 1, n)
           P == {n \in Nat : n <= Len(ss) => InOrder(FlattenSeq(F(n)))}
<1>1. Len(ss) \in Nat /\ \A i \in 1..Len(ss) : ss[i] \in Seq(S)
  OBVIOUS
<1>2. ASSUME NEW n \in 0..Len(ss)
      PROVE  /\ F(n) \in Seq(Seq(S)) /\ Len(F(n)) = n
             /\ \A i \in 1..n : F(n)[i] = ss[i]
  <2>1. \A i \in 1..n : ss[i] \in Seq(S)
    BY <1>1
  <2>2. QED
    BY <1>1, <2>1
<1>3. 0 \in P
  <2>1. F(0) = << >>
    OBVIOUS
  <2>2. InOrder(FlattenSeq(F(0)))
    BY <2>1, FlattenEmpty, EmptyInOrder, Zenon
  <2>3. QED
    BY <2>2
<1>4. ASSUME NEW n \in 0..(Len(ss) - 1), n \in P PROVE n + 1 \in P
  <2>1. n \in 0..Len(ss) /\ n + 1 \in 1..Len(ss) /\ n + 1 \in Nat /\ n + 1 \in 0..Len(ss) /\ n <= Len(ss)
    BY <1>1
  <2>2. PICK x, y, z : x = F(n) /\ y = ss[n + 1] /\ z = F(n + 1)
    BY Zenon
  <2>3. /\ x \in Seq(Seq(S)) /\ Len(x) = n /\ \A i \in 1..n : x[i] = ss[i]
    BY <1>2, <2>1, <2>2, Zenon
  <2>4. /\ z \in Seq(Seq(S)) /\ Len(z) = n + 1 /\ \A i \in 1..(n + 1) : z[i] = ss[i]
    BY <1>2, <2>1, <2>2, Zenon
  <2>5. y \in Seq(S) /\ InOrder(y)
    BY <1>1, <2>1, <2>2, Zenon
  <2>6. z = Append(x, y)
    <3>0. PICK T : T = Seq(S)
      OBVIOUS
    <3>1. Append(x, y) \in Seq(T) /\ z \in Seq(T) /\ Len(Append(x, y)) = n + 1
      BY <2>3, <2>4, <2>5, <3>0
    <3>2. \A i \in 1..(n + 1) : Append(x, y)[i] = z[i]
      BY <2>1, <2>2, <2>3, <2>4, <2>5
    <3>3. QED
      BY ONLY <2>4, <3>1, <3>2, n \in Nat
  <2>7. x \in Seq(Seq(S)) /\ y \in Seq(S)
    BY <2>3, <2>5
  <2>8. FlattenSeq(z) = FlattenSeq(x) \o y
    BY <2>6, <2>7, FlattenAppend, Zenon
  <2>9. FlattenSeq(x) \in Seq(S) /\ Elements(FlattenSeq(x)) = UNION {Elements(x[i]) : i \in 1..Len(x)}
    BY <2>3, FlattenType, FlattenElements, Zenon
  <2>10. InOrder(FlattenSeq(x))
    BY <1>4, <2>1, <2>2
  <2>11. ASSUME NEW i \in 1..n PROVE Prec(Elements(x[i]), Elements(y))
    <3>1. i \in 1..Len(ss) /\ i < n + 1
      BY <1>1, <2>1
    <3>2. QED
      BY ZenonT(30), <2>1, <2>2, <2>3, <3>1
  <2>12. Prec(Elements(FlattenSeq(x)), Elements(y))
    <3> SUFFICES ASSUME NEW a \in Elements(FlattenSeq(x)), NEW b \in Elements(y), a[1] = b[1]
                 PROVE  Before(a, b)
      BY DEF Prec
    <3>1. PICK i \in 1..n : a \in Elements(x[i])
      BY <2>3, <2>9, Zenon
    <3>2. QED
      BY <2>11, <3>1, Zenon DEF Prec
  <2>13. InOrder(FlattenSeq(x) \o y)
    BY <2>5, <2>7, <2>9, <2>10, <2>12, ConcatInOrder, Zenon
  <2>14. QED
    BY ZenonT(30), <2>1, <2>2, <2>8, <2>13
<1> HIDE DEF P
<1>5. \A i \in 0..Len(ss) : i \in P
  BY <1>1, <1>3, <1>4, UpTo, Zenon
<1>6. Len(ss) \in P /\ F(Len(ss)) = ss
  <2>1. Len(ss) \in 0..Len(ss)
    BY <1>1
  <2>2. \A i \in 1..Len(ss) : F(Len(ss))[i] = ss[i]
    BY <1>2, <2>1
  <2>3. QED
    BY <1>2, <1>5, <2>1, <2>2
<1>7. InOrder(FlattenSeq(F(Len(ss))))
  BY <1>1, <1>6 DEF P
<1>8. QED
  BY <1>6, <1>7, Zenon

-----------------------------------------------------------------------------
(* The bytes of one send(). *)

(* A byte of an earlier call, or of an earlier piece or place in the same  *)
(* call, comes before.                                                     *)
LEMMA BeforeRules ==
  ASSUME NEW a, NEW b
  PROVE  /\ a[2] < b[2] => Before(a, b)
         /\ a[2] = b[2] /\ a[3] < b[3] => Before(a, b)
         /\ a[2] = b[2] /\ a[3] = b[3] /\ a[4] < b[4] => Before(a, b)
<1>1. a[2] < b[2] => Before(a, b)
  <2>1. 2 \in 2..4 /\ \A e \in 2..(2 - 1) : a[e] = b[e]
    OBVIOUS
  <2>2. QED
    BY <2>1 DEF Before
<1>2. a[2] = b[2] /\ a[3] < b[3] => Before(a, b)
  <2>1. 3 \in 2..4 /\ \A e \in 2..(3 - 1) : e = 2
    OBVIOUS
  <2>2. QED
    BY <2>1 DEF Before
<1>3. a[2] = b[2] /\ a[3] = b[3] /\ a[4] < b[4] => Before(a, b)
  <2>1. 4 \in 2..4 /\ \A e \in 2..(4 - 1) : e = 2 \/ e = 3
    OBVIOUS
  <2>2. QED
    BY <2>1 DEF Before
<1>4. QED
  BY <1>1, <1>2, <1>3

-----------------------------------------------------------------------------
(* The way of a byte: a queued sendInLoop p, the output o, the write in    *)
(* flight f, the wire w.  Each of them is in order and before those it     *)
(* runs ahead of.                                                          *)
Line(w, f, o, p) ==
    /\ InOrder(w) /\ InOrder(f) /\ InOrder(o) /\ InOrder(p)
    /\ Prec(Elements(w), Elements(f)) /\ Prec(Elements(w), Elements(o))
    /\ Prec(Elements(w), Elements(p)) /\ Prec(Elements(f), Elements(o))
    /\ Prec(Elements(f), Elements(p)) /\ Prec(Elements(o), Elements(p))

All(w, f, o, p) == ((Elements(w) \cup Elements(f)) \cup Elements(o)) \cup Elements(p)

(* A union comes before Z when both its parts do, ... *)
LEMMA PrecLeft ==
  ASSUME NEW X, NEW Y, NEW U, U = X \cup Y, NEW Z
  PROVE  Prec(U, Z) <=> Prec(X, Z) /\ Prec(Y, Z)
BY Zenon DEF Prec

(* ... and after Z when both its parts do. *)
LEMMA PrecRight ==
  ASSUME NEW X, NEW Y, NEW U, U = X \cup Y, NEW Z
  PROVE  Prec(Z, U) <=> Prec(Z, X) /\ Prec(Z, Y)
BY Zenon DEF Prec

(* The same for the four parts of the flow. *)
LEMMA PrecAll ==
  ASSUME NEW w, NEW f, NEW o, NEW p, NEW Z, Prec(All(w, f, o, p), Z)
  PROVE  /\ Prec(Elements(w), Z) /\ Prec(Elements(f), Z)
         /\ Prec(Elements(o), Z) /\ Prec(Elements(p), Z)
BY Zenon DEF Prec, All

(* The line is the order of the whole flow. *)
LEMMA LineFlow ==
  ASSUME NEW S, NEW w \in Seq(S), NEW f \in Seq(S), NEW o \in Seq(S), NEW p \in Seq(S),
         Line(w, f, o, p)
  PROVE  /\ InOrder(((w \o f) \o o) \o p)
         /\ Elements(((w \o f) \o o) \o p) = All(w, f, o, p)
<1>1. PICK x, y : x = w \o f /\ y = x \o o
  BY Zenon
<1>2. x \in Seq(S) /\ y \in Seq(S)
  BY <1>1
<1>3. Elements(x) = Elements(w) \cup Elements(f)
  BY <1>1, ElementsConcat, ZenonT(60)
<1>4. Elements(y) = (Elements(w) \cup Elements(f)) \cup Elements(o)
  <2>1. Elements(y) = Elements(x) \cup Elements(o)
    BY <1>1, <1>2, ElementsConcat, Zenon
  <2>2. QED
    BY <1>3, <2>1
<1>5. InOrder(x)
  BY <1>1, ConcatInOrder, Zenon DEF Line
<1>6. Prec(Elements(x), Elements(o))
  BY <1>3, PrecLeft, PrecRight, ZenonT(30) DEF Line
<1>7. InOrder(o) /\ InOrder(p)
  BY DEF Line
<1>8. InOrder(x \o o)
  BY <1>2, <1>5, <1>6, <1>7, ConcatInOrder, Zenon
<1>9. Prec(Elements(y), Elements(p))
  <2>1. Prec(Elements(x), Elements(p)) /\ Prec(Elements(o), Elements(p))
    BY <1>3, PrecLeft, PrecRight, Zenon DEF Line
  <2>2. QED
    <3>1. Elements(y) = Elements(x) \cup Elements(o)
      BY <1>1, <1>2, ElementsConcat, Zenon
    <3>2. QED
      BY <2>1, <3>1, PrecLeft, Zenon
<1>10. InOrder(y \o p)
  BY <1>1, <1>2, <1>7, <1>8, <1>9, ConcatInOrder, Zenon
<1>11. Elements(y \o p) = All(w, f, o, p)
  <2>1. Elements(y \o p) = Elements(y) \cup Elements(p)
    BY <1>2, ElementsConcat, ZenonT(60)
  <2>2. QED
    BY <1>4, <2>1 DEF All
<1>12. QED
  BY <1>1, <1>10, <1>11, Zenon

(* readPiece() moves a prefix of the output into the write, or nothing. *)
Shift(S, o, f, o2, f2) ==
    \E a, b \in Seq(S) : o = a \o b /\ o2 = b /\ (f2 = a \/ (a = << >> /\ f2 = f))

(* Nothing is lost when no write was in flight.  (Alike keeps the equality *)
(* out of the provers' sight while they look for an instance.)             *)
Alike(X, Y) == X = Y

(* A shift loses nothing if nothing was in flight before it. *)
LEMMA ShiftAll ==
  ASSUME NEW S, NEW w \in Seq(S), NEW f \in Seq(S), NEW o \in Seq(S), NEW p \in Seq(S),
         NEW f2, NEW o2, Shift(S, o, f, o2, f2), f = << >> \/ f2 = f
  PROVE  Alike(All(w, f2, o2, p), All(w, f, o, p))
<1> SUFFICES All(w, f2, o2, p) = All(w, f, o, p)
  BY DEF Alike
<1>1. PICK a \in Seq(S), b \in Seq(S) :
        o = a \o b /\ o2 = b /\ (f2 = a \/ (a = << >> /\ f2 = f))
  BY Zenon DEF Shift
<1>2. Elements(o) = Elements(a) \cup Elements(b)
  <2>1. Elements(a \o b) = Elements(a) \cup Elements(b)
    BY ElementsConcat, ZenonT(30)
  <2>2. QED
    BY <1>1, <2>1, Zenon
<1>3. CASE f2 = a
  <2>1. CASE f = << >>
    <3>1. Elements(f) = {}
      BY <2>1, EmptyInOrder, Zenon
    <3>2. QED
      BY <1>1, <1>2, <1>3, <3>1, SMT DEF All
  <2>2. CASE f2 = f
    BY <1>1, <1>2, <1>3, <2>2, SMT DEF All
  <2>3. QED
    BY <2>1, <2>2
<1>4. CASE a = << >> /\ f2 = f
  <2>1. Elements(a) = {}
    BY <1>4, EmptyInOrder, Zenon
  <2>2. Elements(o2) = Elements(o)
    BY <1>1, <1>2, <2>1, SMT
  <2>3. QED
    BY <1>4, <2>2, Zenon DEF All
<1>5. QED
  BY <1>1, <1>3, <1>4

(* Nothing is lost of a chain of one piece. *)
LEMMA TakeAll ==
  ASSUME NEW S, NEW w \in Seq(S), NEW f \in Seq(S), NEW o \in Seq(S), NEW p,
         NEW x \in Seq(S), NEW y, NEW r \in Seq(S),
         y = << >>, p = (x \o y) \o r
  PROVE  Alike(All(w, f, o \o x, r), All(w, f, o, p))
<1> SUFFICES All(w, f, o \o x, r) = All(w, f, o, p)
  BY DEF Alike
<1>1. x \o y = x
  BY SMT
<1>2. Elements(p) = Elements(x) \cup Elements(r)
  <2>1. Elements(x \o r) = Elements(x) \cup Elements(r)
    BY ElementsConcat, ZenonT(30)
  <2>2. QED
    BY <1>1, <2>1, Zenon
<1>3. Elements(o \o x) = Elements(o) \cup Elements(x)
  BY ElementsConcat, ZenonT(60)
<1>4. QED
  BY <1>2, <1>3, SMT DEF All

(* What is known of a flow when t[s] are the calls of each sender s: it is *)
(* in order, its bytes belong to those calls, and what `loop' sends (the   *)
(* loop thread, in its callbacks) never waits in the queue, so that it may *)
(* overtake what other threads have posted.                                *)
Known(loop, w, f, o, p, t) ==
    /\ Line(w, f, o, p)
    /\ \A b \in All(w, f, o, p) : b[2] <= Len(t[b[1]])
    /\ \A b \in Elements(p) : b[1] # loop

(* The steps of the flow keep what is known of it: readPiece(), ... *)
LEMMA KnownShift ==
  ASSUME NEW S, NEW loop, NEW w \in Seq(S), NEW f \in Seq(S), NEW o \in Seq(S), NEW p \in Seq(S),
         NEW t, NEW f2, NEW o2, Known(loop, w, f, o, p, t), Shift(S, o, f, o2, f2)
  PROVE  Known(loop, w, f2, o2, p, t)
<1>1. Line(w, f, o, p)
  BY DEF Known
<1>2. Line(w, f2, o2, p) /\ All(w, f2, o2, p) \subseteq All(w, f, o, p)
  <2> USE <1>1
  <2>1. PICK a \in Seq(S), b \in Seq(S) :
          o = a \o b /\ o2 = b /\ (f2 = a \/ (a = << >> /\ f2 = f))
    BY Zenon DEF Shift
  <2>2. Elements(o) = Elements(a) \cup Elements(b)
    <3>1. Elements(a \o b) = Elements(a) \cup Elements(b)
      BY ElementsConcat, ZenonT(30)
    <3>2. QED
      BY <2>1, <3>1, Zenon
  <2>3. InOrder(a) /\ InOrder(b) /\ Prec(Elements(a), Elements(b))
    BY <2>1, ConcatInOrder, Zenon DEF Line
  <2>4. /\ Prec(Elements(w), Elements(a)) /\ Prec(Elements(w), Elements(b))
        /\ Prec(Elements(f), Elements(a)) /\ Prec(Elements(f), Elements(b))
        /\ Prec(Elements(a), Elements(p)) /\ Prec(Elements(b), Elements(p))
    <3>1. \A Z : Prec(Elements(o), Z) <=> Prec(Elements(a), Z) /\ Prec(Elements(b), Z)
      BY <2>2, PrecLeft, Zenon
    <3>2. \A Z : Prec(Z, Elements(o)) <=> Prec(Z, Elements(a)) /\ Prec(Z, Elements(b))
      BY <2>2, PrecRight, Zenon
    <3>3. QED
      BY <3>1, <3>2, Zenon DEF Line
  <2>5. CASE f2 = a
    <3>1. Line(w, f2, o2, p)
      BY <2>1, <2>3, <2>4, <2>5, Zenon DEF Line
    <3>2. All(w, f2, o2, p) \subseteq All(w, f, o, p)
      BY <2>1, <2>2, <2>5, Zenon DEF All
    <3>3. QED
      BY <3>1, <3>2
  <2>6. CASE a = << >> /\ f2 = f
    <3>1. Elements(a) = {}
      BY <2>6, EmptyInOrder, Zenon
    <3>2. Line(w, f2, o2, p)
      BY <2>1, <2>3, <2>4, <2>6, Zenon DEF Line
    <3>3. Elements(o2) = Elements(o)
      BY <2>1, <2>2, <3>1, SMT
    <3>4. All(w, f2, o2, p) = All(w, f, o, p)
      BY <2>6, <3>3, Zenon DEF All
    <3>5. QED
      BY <3>2, <3>4
  <2>7. QED
    BY <2>1, <2>5, <2>6
<1>3. QED
  BY <1>2, Zenon DEF Known

(* ... sendInLoop() from the queue, which takes x and leaves y behind, ... *)
LEMMA KnownTake ==
  ASSUME NEW S, NEW loop, NEW w \in Seq(S), NEW f \in Seq(S), NEW o \in Seq(S), NEW p \in Seq(S),
         NEW t, NEW x \in Seq(S), NEW y \in Seq(S), NEW r \in Seq(S),
         Known(loop, w, f, o, p, t), p = (x \o y) \o r
  PROVE  Known(loop, w, f, o \o x, r, t)
<1>1. Line(w, f, o, p)
  BY DEF Known
<1>2. /\ Line(w, f, o \o x, r) /\ All(w, f, o \o x, r) \subseteq All(w, f, o, p)
      /\ Elements(r) \subseteq Elements(p)
  <2> USE <1>1
  <2>1. PICK z, u : z = x \o y /\ u = o \o x
    BY Zenon
  <2>2. z \in Seq(S) /\ u \in Seq(S)
    BY <2>1
  <2>3. InOrder(z) /\ InOrder(r) /\ Prec(Elements(z), Elements(r))
    BY <2>1, <2>2, ConcatInOrder, Zenon DEF Line
  <2>4. Elements(z) = Elements(x) \cup Elements(y)
    BY <2>1, ElementsConcat, ZenonT(60)
  <2>5. Elements(p) = Elements(z) \cup Elements(r)
    BY <2>1, <2>2, ElementsConcat, Zenon
  <2>6. Elements(u) = Elements(o) \cup Elements(x)
    BY <2>1, ElementsConcat, ZenonT(30)
  <2>7. InOrder(x)
    BY <2>1, <2>3, ConcatInOrder, Zenon
  <2>8. \A X : Prec(X, Elements(p)) => Prec(X, Elements(x)) /\ Prec(X, Elements(r))
    BY <2>4, <2>5, PrecLeft, PrecRight, Zenon
  <2>9. /\ Prec(Elements(w), Elements(x)) /\ Prec(Elements(w), Elements(r))
        /\ Prec(Elements(f), Elements(x)) /\ Prec(Elements(f), Elements(r))
        /\ Prec(Elements(o), Elements(x)) /\ Prec(Elements(o), Elements(r))
    BY <2>8, Zenon DEF Line
  <2>10. Prec(Elements(x), Elements(r))
    BY <2>3, <2>4, PrecLeft, PrecRight, Zenon
  <2>11. InOrder(u)
    BY <2>1, <2>7, <2>9, ConcatInOrder, Zenon DEF Line
  <2>12. /\ Prec(Elements(w), Elements(u)) /\ Prec(Elements(f), Elements(u))
         /\ Prec(Elements(u), Elements(r))
    <3>1. \A Z : Prec(Elements(u), Z) <=> Prec(Elements(o), Z) /\ Prec(Elements(x), Z)
      BY <2>6, PrecLeft, Zenon
    <3>2. \A Z : Prec(Z, Elements(u)) <=> Prec(Z, Elements(o)) /\ Prec(Z, Elements(x))
      BY <2>6, PrecRight, Zenon
    <3>3. QED
      BY <2>9, <2>10, <3>1, <3>2, Zenon DEF Line
  <2>13. Line(w, f, u, r)
    BY <2>3, <2>9, <2>11, <2>12, Zenon DEF Line
  <2>14. All(w, f, u, r) \subseteq All(w, f, o, p) /\ Elements(r) \subseteq Elements(p)
    BY <2>4, <2>5, <2>6, SMT DEF All
  <2>15. QED
    BY <2>1, <2>13, <2>14, Zenon
<1>3. QED
  BY <1>2, Zenon DEF Known

(* ... a completed write, which puts its first part a on the wire, ... *)
LEMMA KnownDone ==
  ASSUME NEW S, NEW loop, NEW w \in Seq(S), NEW f \in Seq(S), NEW o \in Seq(S), NEW p \in Seq(S),
         NEW t, NEW a \in Seq(S), NEW b \in Seq(S),
         Known(loop, w, f, o, p, t), f = a \o b
  PROVE  Known(loop, w \o a, << >>, o, p, t)
<1>1. Line(w, f, o, p)
  BY DEF Known
<1>2. Line(w \o a, << >>, o, p) /\ All(w \o a, << >>, o, p) \subseteq All(w, f, o, p)
  <2> USE <1>1
  <2>1. PICK u, e : u = w \o a /\ e = << >>
    BY Zenon
  <2>2. Elements(e) = {} /\ InOrder(e)
    BY <2>1, EmptyInOrder, Zenon
  <2>3. Elements(u) = Elements(w) \cup Elements(a)
    BY <2>1, ElementsConcat, ZenonT(60)
  <2>4. Elements(f) = Elements(a) \cup Elements(b)
    <3>1. Elements(a \o b) = Elements(a) \cup Elements(b)
      BY ONLY a \in Seq(S), b \in Seq(S), ElementsConcat, ZenonT(30)
    <3>2. QED
      BY <3>1, Zenon
  <2>5. InOrder(a)
    BY ConcatInOrder, Zenon DEF Line
  <2>6. /\ Prec(Elements(w), Elements(a)) /\ Prec(Elements(a), Elements(o))
        /\ Prec(Elements(a), Elements(p))
    BY <2>4, PrecLeft, PrecRight, Zenon DEF Line
  <2>7. InOrder(u)
    BY <2>1, <2>5, <2>6, ConcatInOrder, Zenon DEF Line
  <2>8. Prec(Elements(u), Elements(o)) /\ Prec(Elements(u), Elements(p))
    <3>1. \A Z : Prec(Elements(u), Z) <=> Prec(Elements(w), Z) /\ Prec(Elements(a), Z)
      BY <2>3, PrecLeft, Zenon
    <3>2. \A Z : Prec(Z, Elements(u)) <=> Prec(Z, Elements(w)) /\ Prec(Z, Elements(a))
      BY <2>3, PrecRight, Zenon
    <3>3. QED
      BY <2>6, <3>1, <3>2, Zenon DEF Line
  <2>9. \A X : Prec(X, Elements(e)) /\ Prec(Elements(e), X)
    BY <2>2, Zenon DEF Prec
  <2>10. Line(u, e, o, p)
    BY <2>2, <2>7, <2>8, <2>9, Zenon DEF Line
  <2>11. All(u, e, o, p) \subseteq All(w, f, o, p)
    BY <2>2, <2>3, <2>4, SMT DEF All
  <2>12. QED
    BY <2>1, <2>10, <2>11, Zenon
<1>3. QED
  BY <1>2, Zenon DEF Known

(* The bytes of a new call of s come after all of the same sender. *)
New(R, S, x, s, t, t2) ==
    /\ x \in Seq(S) /\ InOrder(x)
    /\ \A b \in S : b[1] \in R /\ b[2] \in Nat
    /\ \A b \in Elements(x) : b[1] = s /\ b[2] = Len(t[s]) + 1
    /\ \A r \in R : Len(t[r]) \in Nat /\ Len(t2[r]) \in Nat /\ Len(t[r]) <= Len(t2[r])
    /\ Len(t2[s]) = Len(t[s]) + 1

(* What a new call sends comes after all that is known of the flow. *)
LEMMA NewAfter ==
  ASSUME NEW S, NEW loop, NEW w \in Seq(S), NEW f \in Seq(S), NEW o \in Seq(S), NEW p \in Seq(S),
         NEW R, NEW t, NEW t2, NEW s \in R, NEW x, Known(loop, w, f, o, p, t), New(R, S, x, s, t, t2)
  PROVE  /\ Prec(All(w, f, o, p), Elements(x))
         /\ \A b \in All(w, f, o, p) \cup Elements(x) : b[2] <= Len(t2[b[1]])
<1>1. \A b \in All(w, f, o, p) : b[1] \in R /\ b[2] \in Nat
  <2>1. \A b \in All(w, f, o, p) : b \in S
    <3>1. \A z \in Seq(S) : \A b \in Elements(z) : b \in S
      BY DEF Elements
    <3>2. QED
      BY <3>1, Zenon DEF All
  <2>2. \A b \in S : b[1] \in R /\ b[2] \in Nat
    BY DEF New
  <2>3. QED
    BY <2>1, <2>2
<1>2. \A b \in All(w, f, o, p) : b[2] <= Len(t[b[1]])
  BY DEF Known
<1>3. ASSUME NEW a \in All(w, f, o, p), NEW b \in Elements(x), a[1] = b[1]
      PROVE  Before(a, b)
  <2>1. b[1] = s /\ b[2] = Len(t[s]) + 1 /\ Len(t[s]) \in Nat
    BY DEF New
  <2>2. a[2] <= Len(t[s]) /\ a[2] \in Nat
    BY <1>1, <1>2, <1>3, <2>1
  <2>3. a[2] < b[2]
    BY <2>1, <2>2
  <2>4. QED
    BY <2>3, BeforeRules, Zenon
<1>4. ASSUME NEW b \in All(w, f, o, p) PROVE b[2] <= Len(t2[b[1]])
  <2>1. PICK r \in R : r = b[1]
    BY <1>1
  <2>2. b[2] <= Len(t[r]) /\ b[2] \in Nat
    BY <1>1, <1>2, <2>1
  <2>3. Len(t[r]) \in Nat /\ Len(t2[r]) \in Nat /\ Len(t[r]) <= Len(t2[r])
    BY DEF New
  <2>4. b[2] <= Len(t2[r])
    BY <2>2, <2>3
  <2>5. QED
    BY <2>1, <2>4
<1>5. ASSUME NEW b \in Elements(x) PROVE b[2] <= Len(t2[b[1]])
  <2>1. b[1] = s /\ b[2] = Len(t2[s]) /\ Len(t2[s]) \in Nat
    BY DEF New
  <2>2. b[2] <= Len(t2[s])
    BY <2>1
  <2>3. QED
    BY <2>1, <2>2
<1>6. QED
  BY <1>3, <1>4, <1>5, Zenon DEF Prec

(* ... sendInLoop() from a callback, which puts the first part x of a new  *)
(* call between output and queue, ...                                      *)
LEMMA KnownInsert ==
  ASSUME NEW S, NEW loop, NEW R, NEW w \in Seq(S), NEW f \in Seq(S), NEW o \in Seq(S), NEW p \in Seq(S),
         loop \in R, NEW t, NEW t2, NEW x, NEW y, NEW z, Known(loop, w, f, o, p, t), New(R, S, z, loop, t, t2),
         z = x \o y, x \in Seq(S), y \in Seq(S)
  PROVE  /\ Known(loop, w, f, o \o x, p, t2)
         /\ All(w, f, o \o x, p) = All(w, f, o, p) \cup Elements(x)
<1>2. /\ Prec(All(w, f, o, p), Elements(z))
      /\ \A b \in All(w, f, o, p) \cup Elements(z) : b[2] <= Len(t2[b[1]])
  BY NewAfter, Zenon
<1>3. Elements(z) = Elements(x) \cup Elements(y)
  BY ElementsConcat, ZenonT(30)
<1>4. InOrder(x)
  BY ConcatInOrder, Zenon DEF New
<1>5. Prec(All(w, f, o, p), Elements(x))
  BY <1>2, <1>3, PrecRight, Zenon
<1>6. \A b \in Elements(x) : b[1] = loop
  BY <1>3, Zenon DEF New
<1>7. Prec(Elements(x), Elements(p))
  BY <1>6, Zenon DEF Prec, Known
<1>8. Line(w, f, o \o x, p) /\ All(w, f, o \o x, p) = All(w, f, o, p) \cup Elements(x)
  <2>1. Line(w, f, o, p)
    BY DEF Known
  <2>2. Line(w, f, o \o x, p)
    <3> USE <1>4, <1>5, <1>7, <2>1
    <3>1. PICK u : u = o \o x
      BY Zenon
    <3>2. Elements(u) = Elements(o) \cup Elements(x)
      BY <3>1, ElementsConcat, ZenonT(30)
    <3>3. /\ Prec(Elements(w), Elements(x)) /\ Prec(Elements(f), Elements(x))
          /\ Prec(Elements(o), Elements(x))
      BY PrecAll, Zenon
    <3>4. InOrder(u)
      BY <3>1, <3>3, ConcatInOrder, Zenon DEF Line
    <3>5. /\ Prec(Elements(w), Elements(u)) /\ Prec(Elements(f), Elements(u))
          /\ Prec(Elements(u), Elements(p))
      <4>1. \A Z : Prec(Elements(u), Z) <=> Prec(Elements(o), Z) /\ Prec(Elements(x), Z)
        BY <3>2, PrecLeft, Zenon
      <4>2. \A Z : Prec(Z, Elements(u)) <=> Prec(Z, Elements(o)) /\ Prec(Z, Elements(x))
        BY <3>2, PrecRight, Zenon
      <4>3. QED
        BY <3>3, <4>1, <4>2, Zenon DEF Line
    <3>6. Line(w, f, u, p)
      BY <3>4, <3>5, Zenon DEF Line
    <3>7. QED
      BY <3>1, <3>6, Zenon
  <2>3. Elements(o \o x) = Elements(o) \cup Elements(x)
    BY ElementsConcat, ZenonT(30)
  <2>4. QED
    BY <2>2, <2>3, SMT DEF All
<1>9. \A b \in All(w, f, o \o x, p) : b[2] <= Len(t2[b[1]])
  BY <1>2, <1>3, <1>8, Zenon
<1>10. QED
  BY <1>8, <1>9, Zenon DEF Known

(* ... and send() from another thread, which adds a new call at the end. *)
LEMMA KnownPush ==
  ASSUME NEW S, NEW loop, NEW R, NEW w \in Seq(S), NEW f \in Seq(S), NEW o \in Seq(S), NEW p \in Seq(S),
         NEW t, NEW t2, NEW s \in R, s # loop, NEW x, Known(loop, w, f, o, p, t), New(R, S, x, s, t, t2)
  PROVE  /\ Known(loop, w, f, o, p \o x, t2)
         /\ All(w, f, o, p \o x) = All(w, f, o, p) \cup Elements(x)
<1>2. /\ Prec(All(w, f, o, p), Elements(x))
      /\ \A b \in All(w, f, o, p) \cup Elements(x) : b[2] <= Len(t2[b[1]])
  BY NewAfter, Zenon
<1>3. x \in Seq(S) /\ InOrder(x) /\ \A b \in Elements(x) : b[1] = s
  BY DEF New
<1>4. /\ Line(w, f, o, p \o x) /\ All(w, f, o, p \o x) = All(w, f, o, p) \cup Elements(x)
      /\ Elements(p \o x) = Elements(p) \cup Elements(x)
  <2>1. Line(w, f, o, p)
    BY DEF Known
  <2>2. Line(w, f, o, p \o x)
    <3> USE <1>2, <1>3, <2>1
    <3>1. PICK u : u = p \o x
      BY Zenon
    <3>2. Elements(u) = Elements(p) \cup Elements(x)
      BY <3>1, ElementsConcat, ZenonT(30)
    <3>3. /\ Prec(Elements(w), Elements(x)) /\ Prec(Elements(f), Elements(x))
          /\ Prec(Elements(o), Elements(x)) /\ Prec(Elements(p), Elements(x))
      BY PrecAll, Zenon
    <3>4. InOrder(u)
      BY <3>1, <3>3, ConcatInOrder, Zenon DEF Line
    <3>5. /\ Prec(Elements(w), Elements(u)) /\ Prec(Elements(f), Elements(u))
          /\ Prec(Elements(o), Elements(u))
      <4>1. \A Z : Prec(Elements(u), Z) <=> Prec(Elements(p), Z) /\ Prec(Elements(x), Z)
        BY <3>2, PrecLeft, Zenon
      <4>2. \A Z : Prec(Z, Elements(u)) <=> Prec(Z, Elements(p)) /\ Prec(Z, Elements(x))
        BY <3>2, PrecRight, Zenon
      <4>3. QED
        BY <3>3, <4>1, <4>2, Zenon DEF Line
    <3>6. Line(w, f, o, u)
      BY <3>4, <3>5, Zenon DEF Line
    <3>7. QED
      BY <3>1, <3>6, Zenon
  <2>3. Elements(p \o x) = Elements(p) \cup Elements(x)
    BY <1>3, ElementsConcat, ZenonT(30)
  <2>4. QED
    BY <2>2, <2>3, SMT DEF All
<1>5. \A b \in All(w, f, o, p \o x) : b[2] <= Len(t2[b[1]])
  BY <1>2, <1>4, Zenon
<1>6. \A b \in Elements(p \o x) : b[1] # loop
  BY <1>3, <1>4, Zenon DEF Known
<1>7. QED
  BY <1>4, <1>5, <1>6, Zenon DEF Known
=============================================================================
