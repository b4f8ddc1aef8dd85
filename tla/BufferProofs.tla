---------------------------- MODULE BufferProofs ----------------------------
(* Proofs about Buffer, for any capacity of a piece, any set of buffers    *)
(* and any sequence of calls: what its operations do to the content of the *)
(* list of pieces, that length() counts it, and that the list implements   *)
(* ByteQueue.                                                              *)
EXTENDS Buffer, SeqOpsProofs, SequenceTheorems

(* The laws of concatenation, with one quantifier for each sequence. *)
LEMMA ConcatRules ==
  ASSUME NEW S
  PROVE  /\ \A x, y \in Seq(S) : x \o y \in Seq(S)
         /\ \A x, y \in Seq(S) : Len(x \o y) = Len(x) + Len(y)
         /\ \A x, y, z \in Seq(S) : (x \o y) \o z = x \o (y \o z)
         /\ \A x \in Seq(S) : x \o << >> = x /\ << >> \o x = x
  <1>1. \A x, y \in Seq(S) : x \o y \in Seq(S)
    BY Zenon, ConcatProperties
  <1>2. \A x, y \in Seq(S) : Len(x \o y) = Len(x) + Len(y)
    BY Zenon, ConcatProperties
  <1>3. \A x, y, z \in Seq(S) : (x \o y) \o z = x \o (y \o z)
    BY ConcatAssociative
  <1>4. \A x \in Seq(S) : x \o << >> = x /\ << >> \o x = x
    BY Zenon, ConcatEmptySeq
  <1> QED  BY <1>1, <1>2, <1>3, <1>4, Zenon

(* Taking a concatenation apart again. *)
LEMMA SplitConcat ==
  ASSUME NEW S, NEW s \in Seq(S), NEW t \in Seq(S)
  PROVE  /\ SubSeq(s \o t, 1, Len(s)) = s
         /\ SubSeq(s \o t, Len(s) + 1, Len(s \o t)) = t
  <1> DEFINE c == s \o t
             a == SubSeq(c, 1, Len(s))
             b == SubSeq(c, Len(s) + 1, Len(c))
  <1>1. /\ c \in Seq(S) /\ Len(c) = Len(s) + Len(t) /\ Len(s) \in Nat /\ Len(t) \in Nat
        /\ \A i \in 1..(Len(s) + Len(t)) : c[i] = IF i <= Len(s) THEN s[i] ELSE t[i - Len(s)]
    BY Zenon, ConcatProperties, LenProperties
  <1> HIDE DEF c
  <1>2. \A i \in 1..Len(c) : c[i] \in S
    BY Zenon, <1>1, ElementOfSeq
  <1>3. a = s
    <2>1. /\ a \in Seq(S) /\ Len(a) = Len(s)
          /\ \A i \in 1..(Len(s) - 1 + 1) : a[i] = c[1 + i - 1]
      <3>1. \A i \in 1..Len(s) : c[i] \in S
        BY <1>1, <1>2
      <3>2. /\ a \in Seq(S) /\ Len(a) = IF 1 <= Len(s) THEN Len(s) - 1 + 1 ELSE 0
            /\ \A i \in 1..(Len(s) - 1 + 1) : a[i] = c[1 + i - 1]
        BY <1>1, <3>1, SubSeqProperties
      <3> QED  BY <1>1, <3>2
    <2> HIDE DEF a
    <2>2. \A i \in 1..Len(a) : a[i] = s[i]
      BY <1>1, <2>1
    <2> QED  BY Zenon, <2>1, <2>2, SeqEqual
  <1>4. b = t
    <2>1. /\ b \in Seq(S) /\ Len(b) = Len(t)
          /\ \A i \in 1..(Len(c) - (Len(s) + 1) + 1) : b[i] = c[Len(s) + 1 + i - 1]
      <3>1. Len(s) + 1 \in Int /\ \A i \in (Len(s) + 1)..Len(c) : c[i] \in S
        BY <1>1, <1>2
      <3>2. /\ b \in Seq(S)
            /\ Len(b) = IF Len(s) + 1 <= Len(c) THEN Len(c) - (Len(s) + 1) + 1 ELSE 0
            /\ \A i \in 1..(Len(c) - (Len(s) + 1) + 1) : b[i] = c[Len(s) + 1 + i - 1]
        BY <1>1, <3>1, SubSeqProperties
      <3> QED  BY <1>1, <3>2
    <2> HIDE DEF b
    <2>2. \A i \in 1..Len(b) : b[i] = t[i]
      <3> SUFFICES ASSUME NEW i \in 1..Len(t) PROVE b[i] = t[i]
        BY Zenon, <2>1
      <3>1. i \in 1..(Len(c) - (Len(s) + 1) + 1) /\ Len(s) + 1 + i - 1 = Len(s) + i
        BY <1>1
      <3>2. Len(s) + i \in 1..(Len(s) + Len(t)) /\ ~(Len(s) + i <= Len(s)) /\ Len(s) + i - Len(s) = i
        BY <1>1
      <3> QED  BY SMTT(30), <1>1, <2>1, <3>1, <3>2
    <2> QED  BY Zenon, <2>1, <2>2, SeqEqual
  <1> QED  BY Zenon, <1>3, <1>4 DEF c

(* Two adjacent parts of a sequence are one. *)
LEMMA JoinSubSeq ==
  ASSUME NEW S, NEW s \in Seq(S), NEW a \in Nat, NEW b \in Nat, NEW c \in Nat,
         a <= b, b <= c, c <= Len(s)
  PROVE  /\ SubSeq(s, a + 1, c) = SubSeq(s, a + 1, b) \o SubSeq(s, b + 1, c)
         /\ SubSeq(s, b + 1, c) \in Seq(S) /\ Len(SubSeq(s, b + 1, c)) = c - b
  <1>1. Len(s) \in Nat /\ \A i \in 1..Len(s) : s[i] \in S
    BY Zenon, ElementOfSeq, LenProperties
  <1>2. a + 1 \in 1..(Len(s) + 1) /\ b \in ((a + 1) - 1)..Len(s) /\ c \in b..Len(s)
    BY <1>1
  <1>3. SubSeq(s, a + 1, b) \o SubSeq(s, b + 1, c) = SubSeq(s, a + 1, c)
    BY Zenon, <1>2, ConcatAdjacentSubSeq
  <1>4. b + 1 \in Int /\ \A i \in (b + 1)..c : s[i] \in S
    BY <1>1
  <1>5. /\ SubSeq(s, b + 1, c) \in Seq(S)
        /\ Len(SubSeq(s, b + 1, c)) = IF b + 1 <= c THEN c - (b + 1) + 1 ELSE 0
    BY <1>4, SubSeqProperties
  <1> QED  BY <1>3, <1>5

-----------------------------------------------------------------------------
Bytes == 1..MaxBytes

(* A piece whose bytes lie within its data[]. *)
Slot == {p \in [off : Nat, data : Seq(Bytes)] : p.off + Len(p.data) <= Capacity}
DataOf(ps) == [i \in 1..Len(ps) |-> ps[i].data]

(* A piece can hold a byte. *)
LEMMA Constants == Capacity \in Nat /\ Capacity > 0 /\ MaxBytes \in Nat
  BY CapacityAssumption, ConstAssumption DEF CapacityAssumption, ConstAssumption

(* What a piece is made of. *)
LEMMA SlotFacts ==
  /\ \A p \in Slot : /\ p.off \in Nat /\ p.data \in Seq(Bytes) /\ Len(p.data) \in Nat
                     /\ p.off + Len(p.data) <= Capacity
  /\ \A o \in Nat : \A d \in Seq(Bytes) : o + Len(d) <= Capacity =>
       Piece(o, d) \in Slot /\ Piece(o, d).off = o /\ Piece(o, d).data = d
  BY DEF Slot, Piece

-----------------------------------------------------------------------------
(* The content of a list. *)

(* The data of a list of pieces is a list of sequences of bytes. *)
LEMMA DataOfType ==
  ASSUME NEW ps \in Seq(Slot)
  PROVE  DataOf(ps) \in Seq(Seq(Bytes)) /\ Len(DataOf(ps)) = Len(ps)
  <1>1. Len(ps) \in Nat /\ \A i \in 1..Len(ps) : ps[i].data \in Seq(Bytes)
    BY SlotFacts
  <1> QED  BY <1>1 DEF DataOf

(* The content of a list of pieces is a sequence of bytes, ... *)
LEMMA ContentType ==
  ASSUME NEW ps \in Seq(Slot)
  PROVE  Content(ps) \in Seq(Bytes) /\ Len(Content(ps)) \in Nat
  <1>1. FlattenSeq(DataOf(ps)) \in Seq(Bytes)
    BY Zenon, DataOfType, FlattenType
  <1>2. Content(ps) = FlattenSeq(DataOf(ps))
    BY Zenon DEF Content, DataOf
  <1> QED  BY <1>1, <1>2

(* ... empty if there is no piece, ... *)
LEMMA ContentEmpty == Content(<< >>) = << >>
  <1>1. DataOf(<< >>) = << >>
    BY DEF DataOf
  <1> QED  BY Zenon, <1>1, FlattenEmpty DEF Content, DataOf

(* ... the contents of its parts one after the other, ... *)
LEMMA ContentConcat ==
  ASSUME NEW ps \in Seq(Slot), NEW qs \in Seq(Slot)
  PROVE  Content(ps \o qs) = Content(ps) \o Content(qs)
  <1>1. DataOf(ps \o qs) = DataOf(ps) \o DataOf(qs)
    BY SMTT(30), DataOfType DEF DataOf
  <1>2. FlattenSeq(DataOf(ps) \o DataOf(qs)) = FlattenSeq(DataOf(ps)) \o FlattenSeq(DataOf(qs))
    BY Zenon, DataOfType, FlattenConcat
  <1> QED  BY <1>1, <1>2, Zenon DEF Content, DataOf

(* ... that of its only piece, ... *)
LEMMA ContentOne ==
  ASSUME NEW p \in Slot
  PROVE  Content(<<p>>) = p.data
  <1>1. DataOf(<<p>>) = Append(<< >>, p.data)
    BY DEF DataOf
  <1>2. << >> \in Seq(Seq(Bytes)) /\ p.data \in Seq(Bytes)
    BY SlotFacts
  <1>3. FlattenSeq(Append(<< >>, p.data)) = FlattenSeq(<< >>) \o p.data
    BY ZenonT(30), <1>2, FlattenAppend
  <1>4. << >> \o p.data = p.data
    BY Zenon, <1>2, ConcatEmptySeq
  <1>5. Content(<<p>>) = FlattenSeq(DataOf(<<p>>))
    BY Zenon DEF Content, DataOf
  <1> QED  BY <1>1, <1>3, <1>4, <1>5, FlattenEmpty, Zenon

(* ... and grows by the data of a piece pushed at the end. *)
LEMMA ContentAppend ==
  ASSUME NEW ps \in Seq(Slot), NEW p \in Slot
  PROVE  Content(Append(ps, p)) = Content(ps) \o p.data
  <1>1. Append(ps, p) = ps \o <<p>> /\ <<p>> \in Seq(Slot)
    OBVIOUS
  <1> QED  BY <1>1, ContentConcat, ContentOne, Zenon

(* A form of the length of the empty sequence that Zenon can use. *)
LEMMA EmptyLen == Len(<< >>) = 0
  BY Zenon

(* A list cut before and after its piece j. *)
LEMMA ContentCut ==
  ASSUME NEW ps \in Seq(Slot), NEW j \in 1..Len(ps)
  PROVE  LET front == SubSeq(ps, 1, j - 1)
             rest  == SubSeq(ps, j + 1, Len(ps))
         IN  /\ front \in Seq(Slot) /\ rest \in Seq(Slot) /\ ps[j] \in Slot
             /\ SubSeq(ps, 1, j) = Append(front, ps[j])
             /\ Content(SubSeq(ps, 1, j)) = Content(front) \o ps[j].data
             /\ Content(ps) = (Content(front) \o ps[j].data) \o Content(rest)
  <1> DEFINE front == SubSeq(ps, 1, j - 1)
             upto  == SubSeq(ps, 1, j)
             rest  == SubSeq(ps, j + 1, Len(ps))
  <1>1. front \in Seq(Slot) /\ rest \in Seq(Slot) /\ upto \in Seq(Slot) /\ ps[j] \in Slot
    OBVIOUS
  <1>2. upto = Append(front, ps[j]) /\ ps = upto \o rest
    OBVIOUS
  <1> HIDE DEF front, upto, rest
  <1>3. Content(upto) = Content(front) \o ps[j].data
    BY ZenonT(30), <1>1, <1>2, ContentAppend
  <1>4. Content(ps) = Content(upto) \o Content(rest)
    BY ZenonT(30), <1>1, <1>2, ContentConcat
  <1> QED  BY <1>1, <1>2, <1>3, <1>4, Zenon DEF front, upto, rest

(* Where read() and skip() of n bytes stop: in the piece with the last of  *)
(* them, whose first used bytes are among the n.                           *)
LEMMA StopFacts ==
  ASSUME NEW ps \in Seq(Slot), ps # << >>, NEW n \in 0..Len(Content(ps))
  PROVE  LET j    == Stop(ps, n)
             used == Len(ps[j].data) - Left(ps, n)
         IN  /\ j \in 1..Len(ps)
             /\ Left(ps, n) \in Nat
             /\ used \in 0..Len(ps[j].data)
             /\ used = n - Len(Content(SubSeq(ps, 1, j - 1)))
             /\ n > 0 => used > 0
  <1> DEFINE S == {k \in 1..Len(ps) : Len(Content(SubSeq(ps, 1, k))) >= n}
             j == Stop(ps, n)
  <1>1. Len(ps) \in Nat /\ Len(ps) \in 1..Len(ps) /\ SubSeq(ps, 1, Len(ps)) = ps
    OBVIOUS
  <1>0. n \in Nat /\ Len(Content(ps)) \in Nat /\ Len(Content(ps)) >= n
    BY ContentType
  <1>2. Len(ps) \in S /\ S \subseteq Nat
    <2>1. Len(Content(SubSeq(ps, 1, Len(ps)))) >= n
      BY <1>0, <1>1, Zenon
    <2> QED  BY <1>1, <2>1
  <1>3. j \in S /\ \A k \in S : j <= k
    <2> HIDE DEF S
    <2>1. \E m \in S : \A k \in S : m <= k
      BY ZenonT(30), <1>2, LeastNat
    <2>2. j = Min(S)
      BY Zenon DEF Stop, S
    <2> QED  BY Zenon, <2>1, <2>2 DEF Min
  <1>4. j \in 1..Len(ps) /\ Len(Content(SubSeq(ps, 1, j))) >= n
    BY Zenon, <1>3
  <1>5. \A k \in S : j <= k
    BY Zenon, <1>3
  <1> HIDE DEF j
  <1> DEFINE before == Content(SubSeq(ps, 1, j - 1))
             upto   == Content(SubSeq(ps, 1, j))
  <1>6. upto = before \o ps[j].data /\ before \in Seq(Bytes) /\ ps[j].data \in Seq(Bytes)
    BY ZenonT(30), <1>4, ContentCut, ContentType, SlotFacts
  <1>7. Len(before) <= n /\ (n > 0 => Len(before) < n)
    <2>1. CASE j = 1
      <3>1. SubSeq(ps, 1, j - 1) = << >>
        BY <2>1
      <3>2. Len(before) = 0
        BY <3>1, ContentEmpty, EmptyLen, Zenon
      <3> QED  BY <1>0, <3>2
    <2>2. CASE j # 1
      <3>1. j - 1 \in 1..Len(ps) /\ ~(j <= j - 1)
        BY <1>4, <2>2
      <3>2. ~(Len(before) >= n)
        BY Zenon, <1>5, <3>1
      <3> QED  BY <1>6, <3>2
    <2> QED  BY Zenon, <2>1, <2>2
  <1>8. Left(ps, n) = Len(upto) - n
    BY Zenon DEF Left, j
  <1> HIDE DEF before, upto
  <1>9. Len(upto) = Len(before) + Len(ps[j].data) /\ Len(before) \in Nat /\ Len(ps[j].data) \in Nat
    BY <1>6, ConcatProperties
  <1>10. Len(upto) >= n
    BY Zenon, <1>4 DEF upto
  <1>11. /\ Left(ps, n) \in Nat
         /\ Len(ps[j].data) - Left(ps, n) = n - Len(before)
         /\ n - Len(before) \in 0..Len(ps[j].data)
         /\ n > 0 => n - Len(before) > 0
    BY <1>7, <1>8, <1>9, <1>10
  <1> QED  BY Zenon, <1>4, <1>11 DEF j, before

-----------------------------------------------------------------------------
(* What read(), skip() and read() into a buffer do to the content.         *)

(* A sequence cut inside its middle part. *)
LEMMA CutConcat ==
  /\ \A f, d, r \in Seq(Bytes) : \A u \in 0..Len(d) :
       SubSeq((f \o d) \o r, Len(f) + u + 1, Len((f \o d) \o r)) = SubSeq(d, u + 1, Len(d)) \o r
  /\ \A f, d, r \in Seq(Bytes) : \A u \in 0..Len(d) :
       SubSeq((f \o d) \o r, 1, Len(f) + u) = f \o SubSeq(d, 1, u)
  <1> DEFINE Tailed(f, d, r, u) ==
               SubSeq((f \o d) \o r, Len(f) + u + 1, Len((f \o d) \o r))
                 = SubSeq(d, u + 1, Len(d)) \o r
             Headed(f, d, r, u) == SubSeq((f \o d) \o r, 1, Len(f) + u) = f \o SubSeq(d, 1, u)
  <1> HIDE DEF Tailed, Headed
  <1>1. ASSUME NEW f \in Seq(Bytes), NEW d \in Seq(Bytes), NEW r \in Seq(Bytes), NEW u \in 0..Len(d)
        PROVE  Tailed(f, d, r, u) /\ Headed(f, d, r, u)
    <2> DEFINE s  == (f \o d) \o r
               d1 == SubSeq(d, 1, u)
               d2 == SubSeq(d, u + 1, Len(d))
    <2>1. /\ d1 \in Seq(Bytes) /\ Len(d1) = u /\ d2 \in Seq(Bytes) /\ Len(d2) = Len(d) - u
          /\ d = d1 \o d2
      <3>1. SubSeq(d, 1, u) \in Seq(Bytes) /\ Len(SubSeq(d, 1, u)) = u
        BY CutSeq
      <3>2. SubSeq(d, u + 1, Len(d)) \in Seq(Bytes) /\ Len(SubSeq(d, u + 1, Len(d))) = Len(d) - u
        BY Zenon, CutSeq
      <3>3. d = SubSeq(d, 1, u) \o SubSeq(d, u + 1, Len(d))
        BY ZenonT(30), CutSeq
      <3> QED  BY <3>1, <3>2, <3>3, Zenon
    <2> HIDE DEF d1, d2
    <2>2. f \o d1 \in Seq(Bytes) /\ d2 \o r \in Seq(Bytes)
      BY <2>1, ConcatRules, Zenon
    <2>3. s = (f \o d1) \o (d2 \o r)
      <3>0. \A x, y, z \in Seq(Bytes) : (x \o y) \o z = x \o (y \o z)
        BY ConcatRules, Zenon
      <3>t. d1 \in Seq(Bytes) /\ d2 \in Seq(Bytes)
        BY Zenon, <2>1
      <3>1. (f \o d1) \o d2 = f \o (d1 \o d2)
        BY ONLY <3>0, <3>t, f \in Seq(Bytes), ZenonT(30)
      <3>2. ((f \o d1) \o d2) \o r = (f \o d1) \o (d2 \o r)
        <4>1. PICK a \in Seq(Bytes) : a = f \o d1
          BY ZenonT(30), <2>2
        <4>2. (a \o d2) \o r = a \o (d2 \o r)
          BY ONLY <3>0, <3>t, a \in Seq(Bytes), r \in Seq(Bytes), ZenonT(30)
        <4> QED  BY <4>1, <4>2, Zenon
      <3> QED  BY <2>1, <3>1, <3>2, Zenon
    <2>4. Len(f \o d1) = Len(f) + u
      <3>1. Len(f \o d1) = Len(f) + Len(d1)
        BY <2>1, ConcatRules, ZenonT(30)
      <3> QED  BY Zenon, <2>1, <3>1
    <2> HIDE DEF s
    <2>5. SubSeq(s, 1, Len(f) + u) = f \o d1 /\ SubSeq(s, Len(f) + u + 1, Len(s)) = d2 \o r
      <3>1. /\ SubSeq((f \o d1) \o (d2 \o r), 1, Len(f \o d1)) = f \o d1
            /\ SubSeq((f \o d1) \o (d2 \o r), Len(f \o d1) + 1, Len((f \o d1) \o (d2 \o r))) = d2 \o r
        BY <2>2, SplitConcat, ZenonT(30)
      <3> QED  BY <2>3, <2>4, <3>1, Zenon
    <2> QED  BY <2>5, Zenon DEF s, d1, d2, Tailed, Headed
  <1>2. /\ \A f, d, r \in Seq(Bytes) : \A u \in 0..Len(d) : Tailed(f, d, r, u)
        /\ \A f, d, r \in Seq(Bytes) : \A u \in 0..Len(d) : Headed(f, d, r, u)
    BY <1>1, Zenon
  <1> QED  BY <1>2, Zenon DEF Tailed, Headed

(* Cutting inside the middle one of three sequences. *)
LEMMA CutTail ==
  \A f, d, r \in Seq(Bytes) : \A u \in 0..Len(d) :
    SubSeq((f \o d) \o r, Len(f) + u + 1, Len((f \o d) \o r)) = SubSeq(d, u + 1, Len(d)) \o r
  BY CutConcat, Zenon

(* No piece is empty; or the only one is, after reservedPrepend(), which   *)
(* leaves room behind the reserved bytes.                                  *)
Nonempty(ps) == \A i \in 1..Len(ps) : ps[i].data # << >>
Neat(ps) ==
    \/ Nonempty(ps)
    \/ Len(ps) = 1 /\ ps[1].data = << >> /\ ps[1].off < Capacity

(* Parts of a list without empty pieces have none, ... *)
LEMMA NonemptyParts ==
  ASSUME NEW ps \in Seq(Slot), Nonempty(ps), NEW j \in 1..Len(ps)
  PROVE  Nonempty(SubSeq(ps, 1, j - 1)) /\ Nonempty(SubSeq(ps, 1, j)) /\ Nonempty(SubSeq(ps, j + 1, Len(ps)))
  BY DEF Nonempty

(* ... nor have two such lists together, ... *)
LEMMA NonemptyConcat ==
  ASSUME NEW ps \in Seq(Slot), NEW qs \in Seq(Slot), Nonempty(ps), Nonempty(qs)
  PROVE  Nonempty(ps \o qs)
  BY DEF Nonempty

(* ... nor a list of one piece with data. *)
LEMMA NonemptyOne ==
  ASSUME NEW p \in Slot, p.data # << >>
  PROVE  Nonempty(<<p>>)
  BY DEF Nonempty

(* skip() and read() take the first n bytes off and leave no empty piece. *)
LEMMA DropFacts ==
  ASSUME NEW ps \in Seq(Slot), ps # << >>, NEW n \in 0..Len(Content(ps))
  PROVE  /\ Drop(ps, n) \in Seq(Slot)
         /\ Content(Drop(ps, n)) = SubSeq(Content(ps), n + 1, Len(Content(ps)))
         /\ Neat(ps) => Nonempty(Drop(ps, n))
  <1> DEFINE j     == Stop(ps, n)
             front == SubSeq(ps, 1, j - 1)
             rest  == SubSeq(ps, j + 1, Len(ps))
             d     == ps[j].data
             used  == Len(d) - Left(ps, n)
             part  == Piece(ps[j].off + used, SubSeq(d, used + 1, Len(d)))
  <1>1. /\ j \in 1..Len(ps) /\ Left(ps, n) \in Nat /\ used \in 0..Len(d)
        /\ used = n - Len(Content(front))
    BY Zenon, StopFacts
  <1>2. Drop(ps, n) = IF Left(ps, n) = 0 THEN rest ELSE <<part>> \o rest
    BY Zenon DEF Drop
  <1>3. /\ front \in Seq(Slot) /\ rest \in Seq(Slot) /\ ps[j] \in Slot
        /\ Content(ps) = (Content(front) \o d) \o Content(rest)
    BY <1>1, ContentCut, Zenon
  <1>4. /\ Content(front) \in Seq(Bytes) /\ d \in Seq(Bytes) /\ Content(rest) \in Seq(Bytes)
        /\ Len(Content(front)) \in Nat /\ Len(d) \in Nat
        /\ ps[j].off \in Nat /\ ps[j].off + Len(d) <= Capacity
    BY ZenonT(30), <1>3, ContentType, SlotFacts
  <1>n. n = Len(Content(front)) + used /\ n \in Nat
    BY <1>1, <1>4, ContentType
  <1> HIDE DEF j, front, rest, d, used, part
  <1>5. /\ SubSeq(Content(ps), n + 1, Len(Content(ps))) = SubSeq(d, used + 1, Len(d)) \o Content(rest)
        /\ SubSeq(d, used + 1, Len(d)) \in Seq(Bytes)
        /\ Len(SubSeq(d, used + 1, Len(d))) = Len(d) - used
    <2> DEFINE c == (Content(front) \o d) \o Content(rest)
               m == Len(Content(front)) + used
    <2>1. /\ SubSeq(c, m + 1, Len(c)) = SubSeq(d, used + 1, Len(d)) \o Content(rest)
          /\ SubSeq(d, used + 1, Len(d)) \in Seq(Bytes)
          /\ Len(SubSeq(d, used + 1, Len(d))) = Len(d) - used
      <3>1. PICK f \in Seq(Bytes), x \in Seq(Bytes), t \in Seq(Bytes) :
              f = Content(front) /\ x = d /\ t = Content(rest)
        BY <1>4, Zenon
      <3>2. PICK u \in 0..Len(x) : u = used
        BY <1>1, <3>1, Zenon
      <3>3. SubSeq((f \o x) \o t, Len(f) + u + 1, Len((f \o x) \o t)) = SubSeq(x, u + 1, Len(x)) \o t
        BY ONLY CutTail, f \in Seq(Bytes), x \in Seq(Bytes), t \in Seq(Bytes), u \in 0..Len(x), Zenon
      <3>4. SubSeq(x, u + 1, Len(x)) \in Seq(Bytes) /\ Len(SubSeq(x, u + 1, Len(x))) = Len(x) - u
        BY Zenon, CutSeq
      <3> QED  BY <3>1, <3>2, <3>3, <3>4, Zenon
    <2>2. Content(ps) = c /\ n = m
      BY Zenon, <1>3, <1>n
    <2> HIDE DEF c, m
    <2> QED  BY ONLY <2>1, <2>2, Zenon
  <1>6. used = Len(d) - Left(ps, n)
    BY Zenon DEF used
  <1>7. CASE Left(ps, n) = 0
    <2>1. SubSeq(d, used + 1, Len(d)) = << >>
      BY <1>4, <1>6, <1>7
    <2>2. << >> \o Content(rest) = Content(rest)
      BY Zenon, <1>4, ConcatEmptySeq
    <2>3. Neat(ps) => Nonempty(rest)
      <3>1. CASE Nonempty(ps)
        BY Zenon, <1>1, <3>1, NonemptyParts DEF rest
      <3>2. CASE Len(ps) = 1
        <4>1. rest = << >>
          BY <1>1, <3>2 DEF rest
        <4> QED  BY <4>1 DEF Nonempty
      <3> QED  BY Zenon, <3>1, <3>2 DEF Neat
    <2> QED  BY <1>2, <1>3, <1>5, <1>7, <2>1, <2>2, <2>3, Zenon
  <1>8. CASE Left(ps, n) # 0
    <2>1. Len(d) - used > 0 /\ used \in Nat
      BY <1>1, <1>4, <1>6, <1>8
    <2>2. ps[j].off + used \in Nat /\ (ps[j].off + used) + (Len(d) - used) <= Capacity
      <3>1. \A o, l, u, c \in Nat : o + l <= c => o + u \in Nat /\ (o + u) + (l - u) <= c
        OBVIOUS
      <3>2. Capacity \in Nat
        BY Zenon, Constants
      <3> QED  BY ONLY <1>4, <2>1, <3>1, <3>2, Zenon
    <2>3. part \in Slot /\ part.data = SubSeq(d, used + 1, Len(d))
      BY ZenonT(30), <1>5, <2>2, SlotFacts DEF part
    <2>4. <<part>> \in Seq(Slot) /\ <<part>> \o rest \in Seq(Slot)
      BY <1>3, <2>3
    <2>5. Content(<<part>> \o rest) = SubSeq(d, used + 1, Len(d)) \o Content(rest)
      <3>1. Content(<<part>> \o rest) = Content(<<part>>) \o Content(rest)
        BY ZenonT(30), <1>3, <2>4, ContentConcat
      <3>2. Content(<<part>>) = part.data
        BY Zenon, <2>3, ContentOne
      <3> QED  BY <2>3, <3>1, <3>2, Zenon
    <2>6. Neat(ps) => Nonempty(<<part>> \o rest)
      <3>1. part.data # << >> /\ d # << >>
        <4>1. Len(d) # 0 /\ Len(SubSeq(d, used + 1, Len(d))) # 0
          BY ONLY <1>4, <1>5, <2>1
        <4> QED  BY <2>3, <4>1, EmptyLen, Zenon
      <3>2. Neat(ps) => Nonempty(ps)
        <4>1. CASE Len(ps) = 1 /\ ps[1].data = << >>
          <5>1. j = 1
            BY <1>1, <4>1
          <5> QED  BY Zenon, <3>1, <4>1, <5>1 DEF d
        <4> QED  BY Zenon, <4>1 DEF Neat
      <3>3. Nonempty(ps) => Nonempty(rest)
        BY Zenon, <1>1, NonemptyParts DEF rest
      <3> QED  BY ZenonT(30), <1>3, <2>3, <2>4, <3>1, <3>2, <3>3, NonemptyOne, NonemptyConcat
    <2> QED  BY <1>2, <1>5, <1>8, <2>4, <2>5, <2>6, Zenon
  <1> QED  BY Zenon, <1>7, <1>8

(* read() into a buffer hands over exactly the first n bytes. *)
LEMMA MovedFacts ==
  ASSUME NEW ps \in Seq(Slot), ps # << >>, NEW n \in 1..Len(Content(ps))
  PROVE  /\ Moved(ps, n) \in Seq(Slot)
         /\ Content(Moved(ps, n)) = SubSeq(Content(ps), 1, n)
         /\ Neat(ps) => Nonempty(Moved(ps, n))
  <1> DEFINE j     == Stop(ps, n)
             front == SubSeq(ps, 1, j - 1)
             upto  == SubSeq(ps, 1, j)
             rest  == SubSeq(ps, j + 1, Len(ps))
             d     == ps[j].data
             used  == Len(d) - Left(ps, n)
             part  == Piece(0, SubSeq(d, 1, used))
  <1>0. n \in Nat /\ n > 0 /\ n \in 0..Len(Content(ps))
    BY ContentType
  <1>1. /\ j \in 1..Len(ps) /\ Left(ps, n) \in Nat /\ used \in 0..Len(d)
        /\ used = n - Len(Content(front)) /\ used > 0
    BY Zenon, <1>0, StopFacts
  <1>2. Moved(ps, n) = IF Left(ps, n) = 0 THEN upto ELSE Append(front, part)
    BY Zenon DEF Moved
  <1>3. /\ front \in Seq(Slot) /\ rest \in Seq(Slot) /\ ps[j] \in Slot
        /\ upto = Append(front, ps[j]) /\ Content(upto) = Content(front) \o d
        /\ Content(ps) = (Content(front) \o d) \o Content(rest)
    BY <1>1, ContentCut, Zenon
  <1>4. /\ Content(front) \in Seq(Bytes) /\ d \in Seq(Bytes) /\ Content(rest) \in Seq(Bytes)
        /\ Len(Content(front)) \in Nat /\ Len(d) \in Nat /\ Len(d) <= Capacity
    <2>1. /\ Content(front) \in Seq(Bytes) /\ Content(rest) \in Seq(Bytes)
          /\ Len(Content(front)) \in Nat
      BY ZenonT(30), <1>3, ContentType
    <2>2. /\ d \in Seq(Bytes) /\ Len(d) \in Nat /\ ps[j].off \in Nat
          /\ ps[j].off + Len(d) <= Capacity
      BY Zenon, <1>3, SlotFacts
    <2>3. Len(d) <= Capacity
      BY <2>2, Constants
    <2> QED  BY Zenon, <2>1, <2>2, <2>3
  <1>n. n = Len(Content(front)) + used
    BY <1>0, <1>1, <1>4
  <1> HIDE DEF j, front, upto, rest, d, used, part
  <1>5. /\ SubSeq(Content(ps), 1, n) = Content(front) \o SubSeq(d, 1, used)
        /\ SubSeq(d, 1, used) \in Seq(Bytes) /\ Len(SubSeq(d, 1, used)) = used
    <2> DEFINE c == (Content(front) \o d) \o Content(rest)
               m == Len(Content(front)) + used
    <2>1. /\ SubSeq(c, 1, m) = Content(front) \o SubSeq(d, 1, used)
          /\ SubSeq(d, 1, used) \in Seq(Bytes) /\ Len(SubSeq(d, 1, used)) = used
      <3>1. PICK f \in Seq(Bytes), x \in Seq(Bytes), t \in Seq(Bytes) :
              f = Content(front) /\ x = d /\ t = Content(rest)
        BY <1>4, Zenon
      <3>2. PICK u \in 0..Len(x) : u = used
        BY <1>1, <3>1, Zenon
      <3>3. SubSeq((f \o x) \o t, 1, Len(f) + u) = f \o SubSeq(x, 1, u)
        BY ONLY CutConcat, f \in Seq(Bytes), x \in Seq(Bytes), t \in Seq(Bytes), u \in 0..Len(x), ZenonT(30)
      <3>4. SubSeq(x, 1, u) \in Seq(Bytes) /\ Len(SubSeq(x, 1, u)) = u
        BY CutSeq
      <3> QED  BY <3>1, <3>2, <3>3, <3>4, Zenon
    <2>2. Content(ps) = c /\ n = m
      BY Zenon, <1>3, <1>n
    <2> HIDE DEF c, m
    <2> QED  BY ONLY <2>1, <2>2, Zenon
  <1>6. used = Len(d) - Left(ps, n)
    BY Zenon DEF used
  <1>e. Neat(ps) => Nonempty(ps)
    <2>1. CASE Len(ps) = 1 /\ ps[1].data = << >>
      <3>1. j = 1 /\ d # << >>
        BY <1>1, <1>4, <2>1, EmptyLen
      <3> QED  BY Zenon, <2>1, <3>1 DEF d
    <2> QED  BY Zenon, <2>1 DEF Neat
  <1>7. CASE Left(ps, n) = 0
    <2>1. SubSeq(d, 1, used) = d
      BY <1>4, <1>6, <1>7
    <2>2. Nonempty(ps) => Nonempty(upto)
      BY Zenon, <1>1, NonemptyParts DEF upto
    <2>3. upto \in Seq(Slot)
      BY <1>3
    <2> QED  BY <1>2, <1>3, <1>5, <1>7, <1>e, <2>1, <2>2, <2>3, Zenon
  <1>8. CASE Left(ps, n) # 0
    <2>1. part \in Slot /\ part.data = SubSeq(d, 1, used) /\ part.data # << >>
      <3>1. 0 + used <= Capacity /\ used \in Nat
        BY <1>1, <1>4, Constants
      <3>2. part \in Slot /\ part.data = SubSeq(d, 1, used)
        BY ZenonT(30), <1>5, <3>1, SlotFacts DEF part
      <3>3. Len(part.data) # 0
        BY SMTT(30), <1>1, <1>5, <3>1, <3>2
      <3> QED  BY <3>2, <3>3, EmptyLen, Zenon
    <2>2. Append(front, part) = front \o <<part>> /\ <<part>> \in Seq(Slot)
      BY <1>3, <2>1
    <2>3. Append(front, part) \in Seq(Slot)
      BY <1>3, <2>1
    <2>4. Content(Append(front, part)) = Content(front) \o SubSeq(d, 1, used)
      BY ZenonT(30), <1>3, <2>1, ContentAppend
    <2>5. Nonempty(ps) => Nonempty(front)
      BY Zenon, <1>1, NonemptyParts DEF front
    <2>6. Nonempty(front) => Nonempty(front \o <<part>>)
      BY ZenonT(30), <1>3, <2>1, <2>2, NonemptyOne, NonemptyConcat
    <2> QED  BY <1>2, <1>5, <1>8, <1>e, <2>2, <2>3, <2>4, <2>5, <2>6, ZenonT(60)
  <1> QED  BY Zenon, <1>7, <1>8

-----------------------------------------------------------------------------
(* What write() does: the pieces it adds hold what does not fit into the   *)
(* last one, Capacity bytes each and the rest in the last.                 *)

(* Min of FiniteSetsExt for two numbers. *)
LEMMA MinOfTwo ==
  ASSUME NEW a \in Nat, NEW b \in Nat
  PROVE  Min({a, b}) = IF a <= b THEN a ELSE b
  <1> DEFINE m == IF a <= b THEN a ELSE b
  <1>1. m \in {a, b} /\ \A y \in {a, b} : m <= y
    OBVIOUS
  <1>2. \A x \in {a, b} : (\A y \in {a, b} : x <= y) => x = m
    OBVIOUS
  <1> QED  BY Zenon, <1>1, <1>2 DEF Min

(* Multiples of the capacity grow with their factor. *)
LEMMA Multiples ==
  ASSUME NEW c \in Nat
  PROVE  /\ \A k \in Nat : k * c \in Nat /\ (k + 1) * c = k * c + c
         /\ \A j, k \in Nat : j <= k => j * c <= k * c
  <1>1. \A k \in Nat : k * c \in Nat /\ (k + 1) * c = k * c + c
    OBVIOUS
  <1>2. ASSUME NEW j \in Nat, NEW k \in Nat, j <= k PROVE j * c <= k * c
    <2>1. PICK e \in Nat : k = j + e
      BY <1>2
    <2>2. k * c = j * c + e * c /\ e * c \in Nat /\ j * c \in Nat
      BY <2>1
    <2> QED  BY <2>2
  <1> QED  BY Zenon, <1>1, <1>2

(* The number of pieces that write() needs: rounding up loses nothing. *)
LEMMA RoundUp ==
  ASSUME NEW c \in Nat, c > 0, NEW l \in Nat, l > 0
  PROVE  LET m == (l + c - 1) \div c
         IN  m \in Nat /\ m > 0 /\ l <= m * c /\ (m - 1) * c < l
  <1> DEFINE m == (l + c - 1) \div c
             a == l + c - 1
  <1>1. a \in Nat /\ a >= c
    OBVIOUS
  <1>2. m \in Int /\ m * c <= a /\ a < m * c + c
    BY <1>1
  <1> HIDE DEF m
  <1>3. m > 0
    <2>1. SUFFICES ASSUME ~(m > 0) PROVE FALSE
      BY Zenon
    <2>2. PICK e \in Nat : m = 0 - e
      BY <1>2, <2>1
    <2>3. m * c = 0 - e * c /\ e * c \in Nat
      BY <2>2
    <2> QED  BY <1>1, <1>2, <2>3
  <1>4. (m - 1) * c = m * c - c /\ m * c \in Int
    BY <1>2
  <1> QED  BY <1>1, <1>2, <1>3, <1>4 DEF m

(* The pieces that write() adds hold the rest of the data, in order. *)
LEMMA ChunkFacts ==
  ASSUME NEW d \in Seq(Bytes), NEW room \in Nat, room < Len(d), NEW more \in Nat, more > 0,
         Len(d) - room <= more * Capacity, (more - 1) * Capacity < Len(d) - room,
         NEW cs, cs = [k \in 1..more |->
                         Piece(0, SubSeq(d, room + (k - 1) * Capacity + 1,
                                         Min({room + k * Capacity, Len(d)})))]
  PROVE  /\ cs \in Seq(Slot) /\ Nonempty(cs)
         /\ Content(cs) = SubSeq(d, room + 1, Len(d))
  <1> DEFINE End(k) == Min({room + k * Capacity, Len(d)})
             Part(k) == SubSeq(d, End(k - 1) + 1, End(k))
  <1>0. Capacity \in Nat /\ Capacity > 0 /\ Len(d) \in Nat
    BY Constants
  <1>1. \A k \in 0..more : /\ k * Capacity \in Nat
                           /\ End(k) = IF room + k * Capacity <= Len(d) THEN room + k * Capacity
                                       ELSE Len(d)
    <2> SUFFICES ASSUME NEW k \in 0..more
                 PROVE  /\ k * Capacity \in Nat
                        /\ End(k) = IF room + k * Capacity <= Len(d) THEN room + k * Capacity
                                    ELSE Len(d)
      BY ZenonT(30)
    <2>1. k * Capacity \in Nat /\ room + k * Capacity \in Nat
      BY <1>0, Multiples
    <2> QED  BY Zenon, <1>0, <2>1, MinOfTwo
  <1>2. End(0) = room /\ End(more) = Len(d)
    <2>1. 0 * Capacity = 0
      BY <1>0
    <2>2. 0 \in 0..more /\ more \in 0..more
      OBVIOUS
    <2>5. more * Capacity \in Nat
      BY Zenon, <1>0, Multiples
    <2> HIDE DEF End
    <2>3. End(0) = room
      BY <1>0, <1>1, <2>1, <2>2
    <2>4. End(more) = Len(d)
      BY SMTT(30), <1>0, <1>1, <2>2, <2>5
    <2> QED  BY Zenon, <2>3, <2>4
  <1>3. \A k \in 1..more : /\ End(k - 1) = room + (k - 1) * Capacity
                           /\ End(k - 1) \in Nat /\ End(k) \in Nat
                           /\ room <= End(k - 1) /\ End(k - 1) < End(k) /\ End(k) <= Len(d)
                           /\ End(k) - End(k - 1) <= Capacity
    <2> HIDE DEF End
    <2> TAKE k \in 1..more
    <2>1. k - 1 \in 0..more /\ k - 1 \in Nat /\ more - 1 \in Nat /\ k - 1 <= more - 1 /\ k \in 0..more
      OBVIOUS
    <2>2. PICK q \in Nat : q = k - 1
      BY Zenon, <2>1
    <2>3. PICK r \in Nat : r = more - 1
      BY Zenon, <2>1
    <2>4. q * Capacity \in Nat /\ (q + 1) * Capacity = q * Capacity + Capacity /\ q * Capacity <= r * Capacity
      BY Zenon, <1>0, <2>1, <2>2, <2>3, Multiples
    <2>5. (k - 1) * Capacity = q * Capacity /\ k * Capacity = (q + 1) * Capacity
      BY <2>2
    <2>6. q * Capacity < Len(d) - room
      <3>1. PICK v \in Nat, w \in Nat : v = q * Capacity /\ w = r * Capacity /\ v <= w
        BY Zenon, <1>0, <2>4, Multiples
      <3>2. w < Len(d) - room
        BY <2>3, <3>1, Zenon
      <3>3. v < Len(d) - room
        BY ONLY SMTT(30), <1>0, <3>1, <3>2, room \in Nat, v \in Nat, w \in Nat
      <3> QED  BY <3>1, <3>3, Zenon
    <2>7. /\ End(k - 1) = IF room + (k - 1) * Capacity <= Len(d) THEN room + (k - 1) * Capacity ELSE Len(d)
          /\ End(k) = IF room + k * Capacity <= Len(d) THEN room + k * Capacity ELSE Len(d)
      BY Zenon, <1>1, <2>1
    <2>8. PICK v \in Nat, l \in Nat : v = q * Capacity /\ l = Len(d) /\ v < l - room
      BY <1>0, <2>4, <2>6, Zenon
    <2>9. (k - 1) * Capacity = v /\ k * Capacity = v + Capacity
      BY <2>4, <2>5, <2>8, Zenon
    <2>10. PICK x, y : x = End(k - 1) /\ y = End(k)
      BY Zenon
    <2>11. /\ x = IF room + v <= l THEN room + v ELSE l
           /\ y = IF room + (v + Capacity) <= l THEN room + (v + Capacity) ELSE l
      BY <2>7, <2>8, <2>9, <2>10, Zenon
    <2>12. x = room + v /\ x \in Nat /\ y \in Nat /\ room <= x /\ x < y /\ y <= l /\ y - x <= Capacity
      BY ONLY SMTT(30), <1>0, <2>8, <2>11, v \in Nat, l \in Nat, room \in Nat
    <2> QED  BY <2>8, <2>9, <2>10, <2>12, Zenon
  <1>4. \A k \in 1..more : /\ cs[k] = Piece(0, Part(k)) /\ Part(k) \in Seq(Bytes)
                           /\ Len(Part(k)) > 0 /\ Len(Part(k)) <= Capacity
                           /\ SubSeq(d, room + 1, End(k)) = SubSeq(d, room + 1, End(k - 1)) \o Part(k)
    <2> TAKE k \in 1..more
    <2>1. cs[k] = Piece(0, SubSeq(d, (room + (k - 1) * Capacity) + 1, End(k)))
      BY Zenon
    <2> HIDE DEF End
    <2>2. cs[k] = Piece(0, Part(k))
      BY <1>3, <2>1, Zenon
    <2>3. PICK a \in Nat, b \in Nat : a = End(k - 1) /\ b = End(k)
      BY ZenonT(30), <1>3
    <2>4. room <= a /\ a < b /\ b <= Len(d) /\ b - a <= Capacity
      BY Zenon, <1>3, <2>3
    <2>5. /\ SubSeq(d, room + 1, b) = SubSeq(d, room + 1, a) \o SubSeq(d, a + 1, b)
          /\ SubSeq(d, a + 1, b) \in Seq(Bytes) /\ Len(SubSeq(d, a + 1, b)) = b - a
      <3>1. room <= a /\ a <= b /\ b <= Len(d)
        BY <2>4
      <3>2. SubSeq(d, room + 1, b) = SubSeq(d, room + 1, a) \o SubSeq(d, a + 1, b)
        BY <3>1, JoinSubSeq, SMTT(30)
      <3>3. SubSeq(d, a + 1, b) \in Seq(Bytes) /\ Len(SubSeq(d, a + 1, b)) = b - a
        BY <3>1, JoinSubSeq, SMTT(30)
      <3> QED  BY Zenon, <3>2, <3>3
    <2>6. Part(k) = SubSeq(d, a + 1, b)
      BY <2>3, Zenon
    <2>7. Len(SubSeq(d, a + 1, b)) > 0 /\ Len(SubSeq(d, a + 1, b)) <= Capacity
      BY <1>0, <2>4, <2>5
    <2> HIDE DEF Part
    <2> QED  BY <2>2, <2>3, <2>5, <2>6, <2>7, ZenonT(60)
  <1> HIDE DEF End, Part
  <1>5. \A k \in 1..more : /\ cs[k] \in Slot /\ cs[k].data = Part(k) /\ cs[k].data # << >>
    <2> TAKE k \in 1..more
    <2>1. PICK x \in Seq(Bytes) : x = Part(k) /\ Len(x) > 0 /\ Len(x) <= Capacity
      BY <1>4, Zenon
    <2>2. 0 + Len(x) <= Capacity /\ 0 \in Nat
      BY <2>1
    <2>3. Piece(0, x) \in Slot /\ Piece(0, x).data = x
      BY Zenon, <2>2, SlotFacts
    <2>4. x # << >>
      BY <2>1, EmptyLen
    <2> QED  BY <1>4, <2>1, <2>3, <2>4, Zenon
  <1>6. cs \in Seq(Slot) /\ Len(cs) = more
    <2>1. cs = [k \in 1..more |-> cs[k]]
      BY Zenon
    <2> QED  BY <1>5, <2>1
  <1>7. Nonempty(cs)
    BY Zenon, <1>5, <1>6 DEF Nonempty
  <1>8. Content(cs) = SubSeq(d, room + 1, Len(d))
    <2> DEFINE g == [k \in 0..more |-> SubSeq(d, room + 1, End(k))]
               ss == DataOf(cs)
    <2>0. /\ 0 \in 0..more /\ more \in 0..more
          /\ \A k \in 1..more : k \in 0..more /\ k - 1 \in 0..more
      OBVIOUS
    <2>1. ss \in Seq(Seq(Bytes)) /\ Len(ss) = more /\ \A k \in 1..more : ss[k] = Part(k)
      BY ZenonT(30), <1>5, <1>6, DataOfType DEF DataOf
    <2>2. g[0] = << >>
      <3>1. SubSeq(d, room + 1, room) = << >>
        BY <1>0, SubSeqEmpty
      <3>2. g[0] = SubSeq(d, room + 1, End(0))
        BY <2>0, Zenon
      <3> QED  BY <1>2, <3>1, <3>2, Zenon
    <2>3. \A k \in 1..Len(ss) : g[k] = g[k - 1] \o ss[k]
      <3> SUFFICES ASSUME NEW k \in 1..more PROVE g[k] = g[k - 1] \o ss[k]
        BY ZenonT(30), <2>1
      <3>1. g[k] = SubSeq(d, room + 1, End(k)) /\ g[k - 1] = SubSeq(d, room + 1, End(k - 1))
        BY <2>0, Zenon
      <3> HIDE DEF g, ss
      <3> QED  BY <1>4, <2>1, <3>1, Zenon
    <2>4. g[more] = SubSeq(d, room + 1, End(more))
      BY <2>0, Zenon
    <2> HIDE DEF g, ss
    <2>5. FlattenSeq(ss) = g[more]
      BY ZenonT(30), <2>1, <2>2, <2>3, FlattenBy
    <2>6. Content(cs) = FlattenSeq(ss)
      BY Zenon DEF Content, DataOf, ss
    <2> QED  BY <1>2, <2>4, <2>5, <2>6, Zenon
  <1> QED  BY ZenonT(30), <1>6, <1>7, <1>8

(* Concatenation of bytes is associative. *)
LEMMA Assoc == \A x, y, z \in Seq(Bytes) : (x \o y) \o z = x \o (y \o z)
  BY ConcatRules, Zenon

(* The last piece holds the end of the content. *)
LEMMA LastFacts ==
  ASSUME NEW ps \in Seq(Slot), ps # << >>
  PROVE  /\ Front(ps) \in Seq(Slot) /\ Last(ps) \in Slot
         /\ Content(ps) = Content(Front(ps)) \o Last(ps).data
         /\ Neat(ps) => Nonempty(Front(ps))
  <1>1. Len(ps) \in 1..Len(ps) /\ SubSeq(ps, 1, Len(ps)) = ps
    OBVIOUS
  <1>2. /\ SubSeq(ps, 1, Len(ps) - 1) \in Seq(Slot) /\ ps[Len(ps)] \in Slot
        /\ Content(SubSeq(ps, 1, Len(ps))) = Content(SubSeq(ps, 1, Len(ps) - 1)) \o ps[Len(ps)].data
    BY ZenonT(30), <1>1, ContentCut
  <1>3. Neat(ps) => Nonempty(SubSeq(ps, 1, Len(ps) - 1))
    <2>1. CASE Nonempty(ps)
      BY Zenon, <1>1, <2>1, NonemptyParts
    <2>2. CASE Len(ps) = 1
      <3>1. SubSeq(ps, 1, Len(ps) - 1) = << >>
        BY <2>2
      <3> QED  BY <3>1 DEF Nonempty
    <2> QED  BY Zenon, <2>1, <2>2 DEF Neat
  <1> QED  BY <1>1, <1>2, <1>3, Zenon DEF Front, Last

(* A list whose last piece gets the bytes x at its end. *)
LEMMA GrowFacts ==
  ASSUME NEW ps \in Seq(Slot), ps # << >>, NEW x \in Seq(Bytes), NEW p \in Slot,
         p.data = Last(ps).data \o x
  PROVE  /\ Append(Front(ps), p) \in Seq(Slot)
         /\ Content(Append(Front(ps), p)) = Content(ps) \o x
         /\ Nonempty(Front(ps)) /\ Len(x) > 0 => Nonempty(Append(Front(ps), p))
  <1>1. PICK f \in Seq(Slot), l \in Slot :
          f = Front(ps) /\ l = Last(ps) /\ Content(ps) = Content(f) \o l.data
    BY LastFacts, Zenon
  <1>2. Content(Append(f, p)) = Content(f) \o p.data
    BY ZenonT(30), ContentAppend
  <1>5. Append(f, p) \in Seq(Slot)
    OBVIOUS
  <1>3. Content(f) \o (l.data \o x) = (Content(f) \o l.data) \o x
    <2>1. PICK a \in Seq(Bytes), b \in Seq(Bytes) : a = Content(f) /\ b = l.data
      BY ContentType, SlotFacts, Zenon
    <2>2. (a \o b) \o x = a \o (b \o x)
      BY ONLY Assoc, a \in Seq(Bytes), b \in Seq(Bytes), x \in Seq(Bytes), ZenonT(30)
    <2> QED  BY <2>1, <2>2, Zenon
  <1>4. ASSUME Nonempty(f), Len(x) > 0 PROVE Nonempty(Append(f, p))
    <2>1. Len(p.data) = Len(l.data) + Len(x) /\ Len(l.data) \in Nat
      BY <1>1, SlotFacts, ConcatProperties
    <2>2. p.data # << >>
      BY SMTT(30), <1>4, <2>1, EmptyLen
    <2>3. Append(f, p) = f \o <<p>> /\ <<p>> \in Seq(Slot)
      OBVIOUS
    <2> QED  BY ZenonT(30), <1>4, <2>2, <2>3, NonemptyOne, NonemptyConcat
  <1> QED  BY <1>1, <1>2, <1>3, <1>4, <1>5, Zenon

(* writePiece() into the last piece appends the data. *)
LEMMA MergeFacts ==
  ASSUME NEW ps \in Seq(Slot), NEW d \in Seq(Bytes), Mergeable(ps, Len(d))
  PROVE  /\ Merge(ps, d) \in Seq(Slot)
         /\ Content(Merge(ps, d)) = Content(ps) \o d
         /\ Neat(ps) /\ Len(d) > 0 => Nonempty(Merge(ps, d))
  <1>1. ps # << >> /\ Len(Last(ps).data) + Len(d) <= Capacity
    BY Zenon DEF Mergeable
  <1>2. PICK x \in Seq(Bytes) : x = Last(ps).data
    BY Zenon, <1>1, LastFacts, SlotFacts
  <1>3. x \o d \in Seq(Bytes) /\ Len(x \o d) = Len(x) + Len(d)
    BY Zenon, ConcatProperties
  <1>4. 0 \in Nat /\ 0 + Len(x \o d) <= Capacity
    BY SMTT(30), <1>1, <1>2, <1>3
  <1>5. Piece(0, x \o d) \in Slot /\ Piece(0, x \o d).data = x \o d
    BY ZenonT(30), <1>3, <1>4, SlotFacts
  <1>6. PICK p \in Slot : p = Piece(0, Last(ps).data \o d) /\ p.data = Last(ps).data \o d
    BY <1>2, <1>5, Zenon
  <1>7. Merge(ps, d) = Append(Front(ps), p)
    BY <1>6, Zenon DEF Merge
  <1>8. /\ Append(Front(ps), p) \in Seq(Slot)
        /\ Content(Append(Front(ps), p)) = Content(ps) \o d
        /\ Nonempty(Front(ps)) /\ Len(d) > 0 => Nonempty(Append(Front(ps), p))
    BY ZenonT(30), <1>1, <1>6, GrowFacts
  <1>9. Neat(ps) => Nonempty(Front(ps))
    BY Zenon, <1>1, LastFacts
  <1> QED  BY <1>7, <1>8, <1>9, Zenon

(* The list whose last piece write() fills first: it has room. *)
LEMMA FillStart ==
  ASSUME NEW ps \in Seq(Slot), NEW qs,
         qs = IF ps = << >> \/ Room(Last(ps)) = 0 THEN Append(ps, Piece(0, << >>)) ELSE ps
  PROVE  /\ qs \in Seq(Slot) /\ qs # << >> /\ Content(qs) = Content(ps)
         /\ Room(Last(qs)) \in Nat /\ Room(Last(qs)) > 0
         /\ Neat(ps) => Nonempty(Front(qs))
  <1> DEFINE new == Piece(0, << >>)
  <1>1. new \in Slot /\ new.off = 0 /\ new.data = << >>
    <2>1. 0 \in Nat /\ << >> \in Seq(Bytes) /\ 0 + Len(<< >>) <= Capacity
      BY Constants, EmptyLen
    <2> QED  BY ZenonT(30), <2>1, SlotFacts
  <1>2. \A p \in Slot : Room(p) \in Nat
    BY SlotFacts, Constants DEF Room
  <1>3. CASE ps = << >> \/ Room(Last(ps)) = 0
    <2> HIDE DEF new
    <2>1. qs = Append(ps, new)
      BY Zenon, <1>3 DEF new
    <2>2. qs \in Seq(Slot) /\ qs # << >> /\ Last(qs) = new /\ Front(qs) = ps
      BY <1>1, <2>1 DEF Last, Front
    <2>3. Content(qs) = Content(ps)
      <3>1. Content(qs) = Content(ps) \o << >>
        BY <1>1, <2>1, ContentAppend, Zenon
      <3>2. Content(ps) \o << >> = Content(ps)
        BY Zenon, ContentType, ConcatEmptySeq
      <3> QED  BY <3>1, <3>2, Zenon
    <2>4. Room(new) = Capacity
      BY <1>1, Constants, EmptyLen DEF Room
    <2>5. Neat(ps) => Nonempty(ps)
      <3>1. CASE Len(ps) = 1 /\ ps[1].data = << >> /\ ps[1].off < Capacity
        <4>1. ps # << >> /\ Last(ps) = ps[1] /\ ps[1] \in Slot
          BY <3>1, EmptyLen DEF Last
        <4>2. Room(ps[1]) = Capacity - ps[1].off - 0
          BY <3>1, EmptyLen, Zenon DEF Room
        <4>3. Room(ps[1]) # 0
          BY SMTT(30), <3>1, <4>1, <4>2, SlotFacts, Constants
        <4> QED  BY <1>3, <4>1, <4>3, Zenon
      <3> QED  BY Zenon, <3>1 DEF Neat
    <2> QED  BY Zenon, <2>2, <2>3, <2>4, <2>5, Constants
  <1>4. CASE ~(ps = << >> \/ Room(Last(ps)) = 0)
    <2>1. qs = ps /\ ps # << >> /\ Room(Last(ps)) # 0
      BY Zenon, <1>4
    <2>2. Room(Last(ps)) \in Nat /\ (Neat(ps) => Nonempty(Front(ps)))
      BY Zenon, <1>2, <2>1, LastFacts
    <2>3. Room(Last(ps)) > 0
      BY <2>1, <2>2
    <2> QED  BY <2>1, <2>2, <2>3, Zenon
  <1> QED  BY Zenon, <1>3, <1>4

(* write() appends the data, whatever room the last piece has. *)
LEMMA FillFacts ==
  ASSUME NEW ps \in Seq(Slot), NEW d \in Seq(Bytes)
  PROVE  /\ Fill(ps, d) \in Seq(Slot)
         /\ Content(Fill(ps, d)) = Content(ps) \o d
         /\ Neat(ps) /\ Len(d) > 0 => Nonempty(Fill(ps, d))
  <1> DEFINE qs == IF ps = << >> \/ Room(Last(ps)) = 0 THEN Append(ps, Piece(0, << >>)) ELSE ps
             room == Room(Last(qs))
             first == SubSeq(d, 1, Min({room, Len(d)}))
             p == Piece(Last(qs).off, Last(qs).data \o first)
             more == IF Len(d) <= room THEN 0
                     ELSE (Len(d) - room + Capacity - 1) \div Capacity
             cs == [k \in 1..more |->
                      Piece(0, SubSeq(d, room + (k - 1) * Capacity + 1,
                                      Min({room + k * Capacity, Len(d)})))]
  <1>1. Fill(ps, d) = Append(Front(qs), p) \o cs
    BY Zenon DEF Fill
  <1>2. /\ qs \in Seq(Slot) /\ qs # << >> /\ Content(qs) = Content(ps)
        /\ room \in Nat /\ room > 0 /\ (Neat(ps) => Nonempty(Front(qs)))
    BY FillStart, Zenon
  <1>0. Len(d) \in Nat /\ Capacity \in Nat /\ Capacity > 0
    BY Constants
  <1> HIDE DEF qs
  <1>3. /\ Last(qs) \in Slot /\ Last(qs).off \in Nat /\ Last(qs).data \in Seq(Bytes)
        /\ Last(qs).off + Len(Last(qs).data) <= Capacity /\ Len(Last(qs).data) \in Nat
    BY Zenon, <1>2, LastFacts, SlotFacts
  <1>4. room = Capacity - Last(qs).off - Len(Last(qs).data)
    BY Zenon DEF Room
  <1> HIDE DEF room
  <1> DEFINE u == IF room <= Len(d) THEN room ELSE Len(d)
  <1>5. Min({room, Len(d)}) = u
    BY Zenon, <1>0, <1>2, MinOfTwo
  <1>6. u \in Nat /\ u \in 0..Len(d) /\ u <= room /\ (Len(d) > 0 => u > 0)
    BY <1>0, <1>2
  <1>7. first = SubSeq(d, 1, u) /\ first \in Seq(Bytes) /\ Len(first) = u
    <2>1. SubSeq(d, 1, u) \in Seq(Bytes) /\ Len(SubSeq(d, 1, u)) = u
      BY <1>6, CutSeq
    <2> QED  BY <1>5, <2>1, Zenon
  <1> HIDE DEF first, u
  <1>8. p \in Slot /\ p.data = Last(qs).data \o first
    <2>1. PICK x \in Seq(Bytes), o \in Nat : x = Last(qs).data /\ o = Last(qs).off
      BY Zenon, <1>3
    <2>2. x \o first \in Seq(Bytes) /\ Len(x \o first) = Len(x) + Len(first) /\ Len(x) \in Nat
      BY <1>7, ConcatProperties
    <2>3. o + Len(x \o first) <= Capacity
      <3>1. room = Capacity - o - Len(x) /\ Len(x \o first) = Len(x) + u
        BY <1>4, <1>7, <2>1, <2>2, Zenon
      <3> QED  BY SMTT(30), <1>0, <1>2, <1>6, <2>2, <3>1
    <2>4. Piece(o, x \o first) \in Slot /\ Piece(o, x \o first).data = x \o first
      BY ZenonT(30), <2>2, <2>3, SlotFacts
    <2> QED  BY <2>1, <2>4, Zenon
  <1> HIDE DEF p
  <1> DEFINE base == Append(Front(qs), p)
  <1>9. /\ base \in Seq(Slot)
        /\ Content(base) = Content(ps) \o first
        /\ Neat(ps) /\ Len(d) > 0 => Nonempty(base)
    <2>1. /\ base \in Seq(Slot)
          /\ Content(base) = Content(qs) \o first
          /\ Nonempty(Front(qs)) /\ Len(first) > 0 => Nonempty(base)
      BY ZenonT(30), <1>2, <1>7, <1>8, GrowFacts
    <2> HIDE DEF base
    <2> QED  BY <1>2, <1>6, <1>7, <2>1, Zenon
  <1> HIDE DEF base
  <1>10. CASE Len(d) <= room
    <2>1. more = 0
      BY Zenon, <1>10
    <2>2. cs = << >>
      BY <2>1
    <2>3. u = Len(d)
      BY SMTT(30), <1>0, <1>2, <1>10 DEF u
    <2>4. first = d
      BY Zenon, <1>7, <2>3, SubSeqFull
    <2>5. base \o << >> = base
      BY Zenon, <1>9, ConcatEmptySeq
    <2>6. Fill(ps, d) = base
      BY <1>1, <2>2, <2>5, Zenon DEF base
    <2> QED  BY <1>9, <2>4, <2>6, Zenon
  <1>11. CASE ~(Len(d) <= room)
    <2>0. room < Len(d) /\ Len(d) - room \in Nat /\ Len(d) - room > 0
      BY <1>0, <1>2, <1>11
    <2>1. more = (Len(d) - room + Capacity - 1) \div Capacity
      BY Zenon, <1>11
    <2>2. more \in Nat /\ more > 0 /\ Len(d) - room <= more * Capacity /\ (more - 1) * Capacity < Len(d) - room
      <3>1. PICK l \in Nat : l = Len(d) - room /\ l > 0
        BY Zenon, <2>0
      <3>2. LET m == (l + Capacity - 1) \div Capacity
            IN  m \in Nat /\ m > 0 /\ l <= m * Capacity /\ (m - 1) * Capacity < l
        BY ZenonT(30), <1>0, <3>1, RoundUp
      <3>3. more = (l + Capacity - 1) \div Capacity
        BY <2>1, <3>1, Zenon
      <3> HIDE DEF more
      <3> QED  BY <3>1, <3>2, <3>3, Zenon
    <2> HIDE DEF more
    <2>3. cs \in Seq(Slot) /\ Nonempty(cs) /\ Content(cs) = SubSeq(d, room + 1, Len(d))
      BY ZenonT(30), <1>2, <2>0, <2>2, ChunkFacts
    <2> HIDE DEF cs
    <2>4. u = room /\ room \in 0..Len(d)
      BY <1>0, <1>2, <2>0 DEF u
    <2>5. d = first \o SubSeq(d, room + 1, Len(d)) /\ SubSeq(d, room + 1, Len(d)) \in Seq(Bytes)
      <3>1. /\ d = SubSeq(d, 1, room) \o SubSeq(d, room + 1, Len(d))
            /\ SubSeq(d, room + 1, Len(d)) \in Seq(Bytes)
        BY ZenonT(30), <2>4, CutSeq
      <3> QED  BY <1>7, <2>4, <3>1, Zenon
    <2>6. Content(base \o cs) = Content(base) \o Content(cs) /\ base \o cs \in Seq(Slot)
      BY ZenonT(30), <1>9, <2>3, ContentConcat, ConcatProperties
    <2>7. (Content(ps) \o first) \o SubSeq(d, room + 1, Len(d)) = Content(ps) \o d
      <3>1. PICK a \in Seq(Bytes), x \in Seq(Bytes), z \in Seq(Bytes) :
              a = Content(ps) /\ x = first /\ z = SubSeq(d, room + 1, Len(d))
        BY <1>7, <2>5, ContentType, Zenon
      <3>2. (a \o x) \o z = a \o (x \o z)
        BY ONLY Assoc, a \in Seq(Bytes), x \in Seq(Bytes), z \in Seq(Bytes), ZenonT(30)
      <3> QED  BY <2>5, <3>1, <3>2, Zenon
    <2>8. Nonempty(base) => Nonempty(base \o cs)
      BY Zenon, <1>9, <2>3, NonemptyConcat
    <2>9. Fill(ps, d) = base \o cs
      BY <1>1, Zenon DEF base
    <2> QED  BY <1>9, <2>3, <2>6, <2>7, <2>8, <2>9, Zenon
  <1> QED  BY Zenon, <1>10, <1>11

-----------------------------------------------------------------------------
(* The inductive invariant.  length() is exact only together with the      *)
(* types of the pieces and with the bound: no buffer holds more bytes than *)
(* were made.                                                              *)
IInv ==
    /\ pieces \in [Name -> Seq(Slot)] /\ length \in [Name -> Nat] /\ fresh \in 0..MaxBytes
    /\ \A b \in Name : length[b] = Len(Content(pieces[b])) /\ length[b] <= fresh

(* No piece is empty but the one reservedPrepend() puts into an empty      *)
(* buffer.                                                                 *)
Tidy == \A b \in Name : Neat(pieces[b])

(* The content of every buffer: what the refinement mapping gives for the  *)
(* bytes of ByteQueue.                                                     *)
Held == [b \in Name |-> Content(pieces[b])]

(* What the invariant says of one buffer. *)
LEMMA HeldFacts ==
  ASSUME IInv, NEW b \in Name
  PROVE  /\ Held[b] = Content(pieces[b]) /\ Held[b] \in Seq(Bytes)
         /\ pieces[b] \in Seq(Slot) /\ length[b] \in Nat /\ length[b] = Len(Content(pieces[b]))
         /\ length[b] <= fresh /\ fresh \in Nat
  <1>1. pieces[b] \in Seq(Slot) /\ length[b] \in Nat /\ length[b] = Len(Content(pieces[b])) /\ length[b] <= fresh
    BY Zenon DEF IInv
  <1>2. fresh \in Nat
    BY Constants DEF IInv
  <1>3. Held[b] = Content(pieces[b])
    BY Zenon DEF Held
  <1> QED  BY <1>1, <1>2, <1>3, ContentType, Zenon

(* A step that gives one buffer the list ps and the length n. *)
LEMMA SetFacts ==
  ASSUME IInv, NEW b \in Name, NEW ps \in Seq(Slot), NEW n, n = Len(Content(ps)),
         Set(b, ps, n), fresh' \in 0..MaxBytes, fresh <= fresh', n <= fresh'
  PROVE  /\ IInv' /\ (Tidy /\ Neat(ps) => Tidy')
         /\ Held' = [Held EXCEPT ![b] = Content(ps)]
  <1>1. /\ pieces' = [pieces EXCEPT ![b] = ps] /\ length' = [length EXCEPT ![b] = n]
        /\ pieces \in [Name -> Seq(Slot)] /\ length \in [Name -> Nat] /\ fresh \in Nat /\ fresh' \in Nat
    BY Constants DEF Set, IInv
  <1>2. n \in Nat
    BY Zenon, ContentType
  <1>3. pieces' \in [Name -> Seq(Slot)] /\ length' \in [Name -> Nat]
    BY Zenon, <1>1, <1>2
  <1>4. /\ pieces'[b] = ps /\ length'[b] = n
        /\ \A c \in Name : c # b => pieces'[c] = pieces[c] /\ length'[c] = length[c]
    BY Zenon, <1>1
  <1>5. \A c \in Name : length'[c] = Len(Content(pieces'[c])) /\ length'[c] <= fresh'
    <2> TAKE c \in Name
    <2>1. CASE c = b
      BY <1>4, <2>1, Zenon
    <2>2. CASE c # b
      <3>1. pieces'[c] = pieces[c] /\ length'[c] = length[c]
        BY Zenon, <1>4, <2>2
      <3>2. length[c] = Len(Content(pieces[c])) /\ length[c] \in Nat /\ length[c] <= fresh
        BY Zenon, HeldFacts
      <3>3. length[c] <= fresh'
        BY <1>1, <3>2
      <3> QED  BY <3>1, <3>2, <3>3, Zenon
    <2> QED  BY Zenon, <2>1, <2>2
  <1>6. Held' = [Held EXCEPT ![b] = Content(ps)]
    <2>1. Held' = [c \in Name |-> Content(pieces'[c])]
      BY Zenon DEF Held
    <2>2. Held = [c \in Name |-> Content(pieces[c])]
      BY Zenon DEF Held
    <2> QED  BY <1>4, <2>1, <2>2, Zenon
  <1>7. Tidy /\ Neat(ps) => Tidy'
    BY <1>4, ZenonT(30) DEF Tidy, Neat, Nonempty
  <1>8. IInv'
    BY Zenon, <1>3, <1>5 DEF IInv
  <1> QED  BY Zenon, <1>6, <1>7, <1>8

(* The bytes a call brings in. *)
LEMMA DataFacts ==
  ASSUME IInv, NEW n \in Nat, fresh + n <= MaxBytes
  PROVE  Data(n) \in Seq(Bytes) /\ Len(Data(n)) = n
  <1>1. fresh \in Nat /\ MaxBytes \in Nat
    BY Constants DEF IInv
  <1>2. \A i \in 1..n : fresh + i \in Bytes
    BY <1>1 DEF Bytes
  <1> QED  BY <1>2 DEF Data

(* A step that adds the next n bytes at the end of a buffer. *)
LEMMA BackFacts ==
  ASSUME IInv, NEW b \in Name, NEW n \in Nat, fresh + n <= MaxBytes, NEW ps \in Seq(Slot),
         Content(ps) = Content(pieces[b]) \o Data(n),
         Set(b, ps, length[b] + n), fresh' = fresh + n, got' = << >>
  PROVE  IInv' /\ (Tidy /\ Neat(ps) => Tidy') /\ Queue!Back(b)
  <1>1. /\ Held[b] = Content(pieces[b]) /\ Held[b] \in Seq(Bytes)
        /\ length[b] = Len(Held[b]) /\ length[b] \in Nat /\ length[b] <= fresh /\ fresh \in Nat
    BY HeldFacts, Zenon
  <1>2. Data(n) \in Seq(Bytes) /\ Len(Data(n)) = n
    BY Zenon, DataFacts
  <1>3. length[b] + n = Len(Content(ps))
    <2>1. PICK x \in Seq(Bytes), y \in Seq(Bytes) : x = Held[b] /\ y = Data(n)
      BY <1>1, <1>2, Zenon
    <2>2. Len(x \o y) = Len(x) + Len(y)
      BY Zenon, ConcatProperties
    <2> QED  BY <1>1, <1>2, <2>1, <2>2, Zenon
  <1>4. fresh' \in 0..MaxBytes /\ fresh <= fresh' /\ length[b] + n <= fresh'
    BY <1>1, Constants
  <1>5. IInv' /\ (Tidy /\ Neat(ps) => Tidy') /\ Held' = [Held EXCEPT ![b] = Content(ps)]
    BY Zenon, <1>3, <1>4, SetFacts
  <1>6. Queue!New = Data(n)
    <2>1. fresh' - fresh = n
      BY <1>1
    <2> QED  BY Zenon, <2>1 DEF Queue!New, Data
  <1>7. Held' = [Held EXCEPT ![b] = Held[b] \o Queue!New]
    BY <1>1, <1>5, <1>6, Zenon
  <1>8. Queue!Back(b)
    BY Zenon, <1>4, <1>7 DEF Queue!Back, Held
  <1> QED  BY Zenon, <1>5, <1>8

(* write() keeps the invariants and is an append to the queue of bytes. *)
LEMMA WriteStep ==
  ASSUME IInv, NEW b \in Name, NEW n \in WriteSizes, Write(b, n)
  PROVE  IInv' /\ (Tidy /\ 0 \notin WriteSizes => Tidy') /\ Queue!Back(b)
  <1>1. n \in Nat /\ fresh + n <= MaxBytes /\ fresh' = fresh + n /\ got' = << >>
    BY Zenon, ConstAssumption DEF ConstAssumption, Write
  <1>2. PICK d \in Seq(Bytes) : d = Data(n) /\ Len(d) = n
    BY <1>1, DataFacts, Zenon
  <1>3. PICK qs \in Seq(Slot) : qs = pieces[b]
    BY Zenon, HeldFacts
  <1>4. /\ Fill(qs, d) \in Seq(Slot) /\ Content(Fill(qs, d)) = Content(qs) \o d
        /\ Neat(qs) /\ Len(d) > 0 => Nonempty(Fill(qs, d))
    BY Zenon, FillFacts
  <1>5. PICK ps \in Seq(Slot) : /\ ps = Fill(pieces[b], Data(n))
                                /\ Content(ps) = Content(pieces[b]) \o Data(n)
                                /\ Neat(pieces[b]) /\ n > 0 => Nonempty(ps)
    BY <1>2, <1>3, <1>4, Zenon
  <1>6. Set(b, ps, length[b] + n)
    BY <1>5, Zenon DEF Write
  <1>7. IInv' /\ (Tidy /\ Neat(ps) => Tidy') /\ Queue!Back(b)
    BY ZenonT(30), <1>1, <1>5, <1>6, BackFacts
  <1>8. 0 \notin WriteSizes => n > 0
    BY <1>1
  <1> QED  BY <1>5, <1>7, <1>8, Zenon DEF Tidy, Neat

(* So is reservedPrepend(), which appends nothing. *)
LEMMA ReservedPrependStep ==
  ASSUME IInv, NEW b \in Name, NEW n \in 1..(Capacity - 1), ReservedPrepend(b, n)
  PROVE  IInv' /\ (Tidy => Tidy') /\ Queue!Back(b)
  <1>1. /\ length[b] = 0 /\ pieces[b] = << >> /\ n < Capacity /\ n \in Nat
        /\ fresh' = fresh + 0 /\ got' = << >> /\ fresh + 0 <= MaxBytes
    BY Constants DEF ReservedPrepend, IInv
  <1>2. << >> \in Seq(Bytes) /\ n + Len(<< >>) <= Capacity
    BY <1>1, Constants, EmptyLen
  <1>3. PICK p \in Slot : p = Piece(n, << >>) /\ p.off = n /\ p.data = << >>
    BY ZenonT(30), <1>1, <1>2, SlotFacts
  <1>4. <<p>> \in Seq(Slot) /\ Len(<<p>>) = 1 /\ <<p>>[1] = p
    OBVIOUS
  <1>5. Neat(<<p>>)
    BY Zenon, <1>1, <1>3, <1>4 DEF Neat
  <1>6. Content(<<p>>) = Content(pieces[b]) \o Data(0)
    <2>1. Content(<<p>>) = << >>
      BY <1>3, ContentOne, Zenon
    <2>2. Data(0) = << >>
      BY DEF Data
    <2>3. << >> \o << >> = << >>
      OBVIOUS
    <2> QED  BY <1>1, <2>1, <2>2, <2>3, ContentEmpty, Zenon
  <1>7. Set(b, <<p>>, length[b] + 0)
    <2>1. length[b] + 0 = length[b]
      BY <1>1
    <2> QED  BY <1>3, <2>1, Zenon DEF ReservedPrepend
  <1>8. PICK ps \in Seq(Slot), z \in Nat :
          /\ fresh + z <= MaxBytes /\ Content(ps) = Content(pieces[b]) \o Data(z)
          /\ Set(b, ps, length[b] + z) /\ fresh' = fresh + z /\ Neat(ps)
    BY <1>1, <1>4, <1>5, <1>6, <1>7, 0 \in Nat, Zenon
  <1> QED  BY ZenonT(30), <1>1, <1>8, BackFacts

(* writePiece() of the connection appends what the read brought in. *)
LEMMA WritePieceStep ==
  ASSUME IInv, StaleLen = {}, NEW n \in 1..Capacity, WritePiece(n)
  PROVE  IInv' /\ (Tidy => Tidy') /\ Queue!Back(Input) /\ Input \in Name
  <1>0. Input \in Name
    BY Zenon, ConstAssumption DEF ConstAssumption
  <1>1. n \in Nat /\ n > 0 /\ n <= Capacity /\ fresh + n <= MaxBytes /\ fresh' = fresh + n /\ got' = << >>
    BY Constants DEF WritePiece
  <1>2. PICK d \in Seq(Bytes) : d = Data(n) /\ Len(d) = n
    BY <1>1, DataFacts, Zenon
  <1>3. PICK qs \in Seq(Slot) : qs = pieces[Input]
    BY Zenon, <1>0, HeldFacts
  <1>4. CASE Mergeable(qs, n)
    <2>1. Mergeable(qs, Len(d))
      BY <1>2, <1>4, Zenon
    <2>2. /\ Merge(qs, d) \in Seq(Slot) /\ Content(Merge(qs, d)) = Content(qs) \o d
          /\ Neat(qs) /\ Len(d) > 0 => Nonempty(Merge(qs, d))
      BY Zenon, <2>1, MergeFacts
    <2>3. PICK ps \in Seq(Slot) : /\ ps = Merge(pieces[Input], Data(n))
                                  /\ Content(ps) = Content(pieces[Input]) \o Data(n)
                                  /\ Neat(pieces[Input]) => Nonempty(ps)
      BY <1>1, <1>2, <1>3, <2>2, Zenon
    <2>4. Set(Input, ps, length[Input] + n)
      BY <1>3, <1>4, <2>3, Zenon DEF WritePiece
    <2>5. IInv' /\ (Tidy /\ Neat(ps) => Tidy') /\ Queue!Back(Input)
      BY ZenonT(30), <1>0, <1>1, <2>3, <2>4, BackFacts
    <2> QED  BY <1>0, <2>3, <2>5, Zenon DEF Tidy, Neat
  <1>5. CASE ~Mergeable(qs, n)
    <2>1. 0 \in Nat /\ 0 + Len(d) <= Capacity
      BY <1>1, <1>2
    <2>2. PICK p \in Slot : p = Piece(0, d) /\ p.data = d
      BY Zenon, <2>1, SlotFacts
    <2>3. Append(qs, p) \in Seq(Slot) /\ Append(qs, p) = qs \o <<p>> /\ <<p>> \in Seq(Slot)
      OBVIOUS
    <2>4. Content(Append(qs, p)) = Content(qs) \o d
      BY <2>2, ContentAppend, Zenon
    <2>5. Neat(qs) => Nonempty(Append(qs, p))
      <3>1. p.data # << >>
        BY SMTT(30), <1>1, <1>2, <2>2, EmptyLen
      <3>2. Neat(qs) => Nonempty(qs)
        <4>1. CASE Len(qs) = 1 /\ qs[1].data = << >>
          <5>0. qs # << >>
            <6>1. 1 # 0
              OBVIOUS
            <6> QED  BY <4>1, <6>1, EmptyLen, Zenon
          <5>1. qs # << >> /\ Last(qs).data = << >>
            BY <4>1, <5>0, Zenon DEF Last
          <5>2. Len(Last(qs).data) + n = 0 + n
            BY <5>1, EmptyLen, Zenon
          <5>3. Len(Last(qs).data) + n <= Capacity
            BY <1>1, <5>2
          <5> QED  BY <1>5, <5>1, <5>3, Zenon DEF Mergeable
        <4> QED  BY Zenon, <4>1 DEF Neat
      <3> QED  BY ZenonT(30), <2>3, <3>1, <3>2, NonemptyOne, NonemptyConcat
    <2>6. PICK ps \in Seq(Slot) : /\ ps = Append(pieces[Input], Piece(0, Data(n)))
                                  /\ Content(ps) = Content(pieces[Input]) \o Data(n)
                                  /\ Neat(pieces[Input]) => Nonempty(ps)
      BY <1>2, <1>3, <2>2, <2>3, <2>4, <2>5, Zenon
    <2>7. Set(Input, ps, length[Input] + n)
      BY <1>3, <1>5, <2>6, Zenon DEF WritePiece
    <2>8. IInv' /\ (Tidy /\ Neat(ps) => Tidy') /\ Queue!Back(Input)
      BY ZenonT(30), <1>0, <1>1, <2>6, <2>7, BackFacts
    <2> QED  BY <1>0, <2>6, <2>8, Zenon DEF Tidy, Neat
  <1> QED  BY Zenon, <1>4, <1>5

(* prepend() puts its bytes before the content. *)
LEMMA PrependStep ==
  ASSUME IInv, NEW b \in Name, NEW n \in 1..(Capacity - 1), Prepend(b, n)
  PROVE  IInv' /\ (Tidy => Tidy') /\ Queue!Front(b)
  <1>1. /\ n \in Nat /\ n > 0 /\ fresh + n <= MaxBytes /\ fresh' = fresh + n /\ got' = << >>
        /\ pieces[b] # << >> /\ n <= Head(pieces[b]).off
    BY Constants DEF Prepend
  <1>2. PICK d \in Seq(Bytes) : d = Data(n) /\ Len(d) = n
    BY <1>1, DataFacts, Zenon
  <1>3. PICK qs \in Seq(Slot) : qs = pieces[b]
    BY Zenon, HeldFacts
  <1>4. PICK p \in Slot, t \in Seq(Slot) : /\ p = Head(qs) /\ t = Tail(qs) /\ qs = <<p>> \o t
                                           /\ p = qs[1] /\ Len(t) = Len(qs) - 1
    <2>1. qs # << >>
      BY <1>1, <1>3, Zenon
    <2>2. Head(qs) \in Slot /\ Tail(qs) \in Seq(Slot) /\ qs = <<Head(qs)>> \o Tail(qs) /\ Head(qs) = qs[1]
          /\ Len(Tail(qs)) = Len(qs) - 1
      BY <2>1
    <2> QED  BY ZenonT(30), <2>2
  <1>5. PICK x \in Seq(Bytes), o \in Nat : x = p.data /\ o = p.off /\ o + Len(x) <= Capacity /\ n <= o
    <2>1. p.data \in Seq(Bytes) /\ p.off \in Nat /\ p.off + Len(p.data) <= Capacity
      BY Zenon, SlotFacts
    <2>2. n <= p.off
      BY <1>1, <1>3, <1>4, Zenon
    <2> QED  BY <2>1, <2>2, Zenon
  <1>6. d \o x \in Seq(Bytes) /\ Len(d \o x) = Len(d) + Len(x) /\ Len(x) \in Nat
    BY ConcatProperties
  <1>7. o - n \in Nat /\ (o - n) + Len(d \o x) <= Capacity
    <2>1. PICK l \in Nat : Len(d \o x) = n + l /\ o + l <= Capacity
      BY <1>2, <1>5, <1>6, Zenon
    <2>2. Capacity \in Nat
      BY Zenon, Constants
    <2>3. \A v, k, w, c \in Nat : k <= v /\ v + w <= c => v - k \in Nat /\ (v - k) + (k + w) <= c
      OBVIOUS
    <2> QED  BY ONLY <1>1, <1>5, <2>1, <2>2, <2>3, o \in Nat, ZenonT(60)
  <1>8. PICK q \in Slot : q = Piece(o - n, d \o x) /\ q.data = d \o x
    BY ZenonT(30), <1>6, <1>7, SlotFacts
  <1>9. <<q>> \in Seq(Slot) /\ <<p>> \in Seq(Slot) /\ <<q>> \o t \in Seq(Slot)
    BY ConcatProperties
  <1>10. Content(<<q>> \o t) = d \o Content(qs)
    <2>1. Content(<<q>> \o t) = q.data \o Content(t) /\ Content(<<p>> \o t) = p.data \o Content(t)
      <3>1. Content(<<q>> \o t) = Content(<<q>>) \o Content(t)
        BY ZenonT(30), <1>9, ContentConcat
      <3>2. Content(<<p>> \o t) = Content(<<p>>) \o Content(t)
        BY ZenonT(30), <1>9, ContentConcat
      <3>3. Content(<<q>>) = q.data /\ Content(<<p>>) = p.data
        BY Zenon, ContentOne
      <3> QED  BY <3>1, <3>2, <3>3, Zenon
    <2>2. PICK z \in Seq(Bytes) : z = Content(t)
      BY Zenon, ContentType
    <2>3. (d \o x) \o z = d \o (x \o z)
      BY ONLY Assoc, d \in Seq(Bytes), x \in Seq(Bytes), z \in Seq(Bytes), ZenonT(30)
    <2>4. Content(qs) = x \o z
      BY <1>4, <1>5, <2>1, <2>2, Zenon
    <2>5. Content(<<q>> \o t) = (d \o x) \o z
      BY <1>8, <2>1, <2>2, Zenon
    <2> QED  BY <2>3, <2>4, <2>5, Zenon
  <1>11. Neat(qs) => Nonempty(<<q>> \o t)
    <2>1. q.data # << >>
      <3>1. Len(q.data) = n + Len(x)
        BY <1>2, <1>6, <1>8, Zenon
      <3>2. Len(q.data) # 0
        BY <1>1, <1>6, <3>1
      <3> QED  BY <3>2, EmptyLen, Zenon
    <2>2. Neat(qs) => Nonempty(t)
      <3>1. CASE Len(qs) = 1
        BY <1>4, <3>1 DEF Nonempty
      <3>2. CASE Nonempty(qs)
        BY <1>4, <3>2 DEF Nonempty
      <3> QED  BY Zenon, <3>1, <3>2 DEF Neat
    <2> QED  BY ZenonT(30), <1>9, <2>1, <2>2, NonemptyOne, NonemptyConcat
  <1>12. PICK ps \in Seq(Slot) : /\ ps = <<q>> \o t /\ Content(ps) = d \o Content(qs)
                                 /\ Neat(qs) => Nonempty(ps)
    BY <1>9, <1>10, <1>11, Zenon
  <1>13. Set(b, ps, length[b] + n)
    <2>1. Set(b, <<Piece(Head(qs).off - n, Data(n) \o Head(qs).data)>> \o Tail(qs), length[b] + n)
      BY <1>3, Zenon DEF Prepend
    <2>2. Piece(Head(qs).off - n, Data(n) \o Head(qs).data) = q
      BY <1>2, <1>4, <1>5, <1>8, Zenon
    <2> QED  BY <1>4, <1>12, <2>1, <2>2, Zenon
  <1>14. length[b] + n = Len(Content(ps)) /\ length[b] \in Nat /\ length[b] <= fresh /\ fresh \in Nat
    <2>1. PICK y \in Seq(Bytes) : y = Content(qs)
      BY Zenon, ContentType
    <2>2. Len(d \o y) = Len(d) + Len(y) /\ Len(y) \in Nat
      BY ConcatProperties
    <2>3. length[b] = Len(y) /\ length[b] <= fresh /\ fresh \in Nat
      BY <1>3, <2>1, HeldFacts, Zenon
    <2>4. Len(Content(ps)) = n + Len(y)
      BY <1>2, <1>12, <2>1, <2>2, Zenon
    <2> QED  BY SMTT(30), <1>1, <2>2, <2>3, <2>4
  <1>15. fresh' \in 0..MaxBytes /\ fresh <= fresh' /\ length[b] + n <= fresh'
    BY <1>1, <1>14, Constants
  <1>16. IInv' /\ (Tidy /\ Neat(ps) => Tidy') /\ Held' = [Held EXCEPT ![b] = Content(ps)]
    BY Zenon, <1>13, <1>14, <1>15, SetFacts
  <1>17. Queue!New = Data(n)
    <2>1. fresh' - fresh = n
      BY <1>1, <1>14
    <2> QED  BY Zenon, <2>1 DEF Queue!New, Data
  <1>18. Held' = [Held EXCEPT ![b] = Queue!New \o Held[b]]
    <2>1. Held[b] = Content(qs)
      BY <1>3, HeldFacts, Zenon
    <2> QED  BY <1>2, <1>12, <1>16, <1>17, <2>1, Zenon
  <1>19. Queue!Front(b)
    BY Zenon, <1>1, <1>15, <1>18 DEF Queue!Front, Held
  <1>20. Tidy => Neat(qs)
    BY Zenon, <1>3 DEF Tidy
  <1> QED  BY <1>12, <1>16, <1>19, <1>20, Zenon DEF Neat

(* A step that takes the first n bytes of a buffer away. *)
LEMMA TakeFacts ==
  ASSUME IInv, NEW b \in Name, NEW n \in 0..Len(Content(pieces[b])), NEW ps \in Seq(Slot),
         Content(ps) = SubSeq(Content(pieces[b]), n + 1, Len(Content(pieces[b]))),
         Set(b, ps, length[b] - n), fresh' = fresh,
         got' = SubSeq(Content(pieces[b]), 1, n) \/ got' = << >>
  PROVE  IInv' /\ (Tidy /\ Neat(ps) => Tidy') /\ Queue!Take(b)
  <1>1. PICK x \in Seq(Bytes) : x = Content(pieces[b]) /\ x = Held[b] /\ length[b] = Len(x)
    BY HeldFacts, Zenon
  <1>2. n \in 0..Len(x) /\ Len(x) \in Nat
    BY <1>1, Zenon, LenProperties
  <1>3. length[b] - n = Len(Content(ps))
    <2>1. Len(SubSeq(x, n + 1, Len(x))) = Len(x) - n
      BY Zenon, <1>2, CutSeq
    <2> QED  BY <1>1, <2>1, Zenon
  <1>4. fresh' \in 0..MaxBytes /\ fresh <= fresh' /\ length[b] - n <= fresh'
    <2>1. length[b] <= fresh /\ fresh \in Nat /\ fresh \in 0..MaxBytes
      BY Zenon, HeldFacts DEF IInv
    <2> QED  BY <1>1, <1>2, <2>1
  <1>5. IInv' /\ (Tidy /\ Neat(ps) => Tidy') /\ Held' = [Held EXCEPT ![b] = Content(ps)]
    BY Zenon, <1>3, <1>4, SetFacts
  <1>6. /\ n \in 0..Len(Held[b])
        /\ Held' = [Held EXCEPT ![b] = SubSeq(Held[b], n + 1, Len(Held[b]))]
        /\ got' = SubSeq(Held[b], 1, n) \/ got' = << >>
    BY <1>1, <1>2, <1>5, Zenon
  <1>7. Queue!Take(b)
    BY ZenonT(30), <1>6 DEF Queue!Take, Held
  <1> QED  BY Zenon, <1>5, <1>7

(* read() into memory and skip() take from the front. *)
LEMMA DropStep ==
  ASSUME IInv, NEW b \in Name, NEW n \in 0..MaxBytes, Read(b, n) \/ Skip(b, n)
  PROVE  IInv' /\ (Tidy => Tidy') /\ Queue!Take(b)
  <1>1. PICK qs \in Seq(Slot) : qs = pieces[b] /\ length[b] = Len(Content(qs)) /\ length[b] \in Nat
    BY HeldFacts, Zenon
  <1>2. length[b] >= n /\ n \in Nat /\ fresh' = fresh
    BY Constants DEF Read, Skip
  <1>3. n \in 0..Len(Content(qs))
    BY <1>1, <1>2
  <1>4. qs # << >>
    <2>1. CASE n > 0
      <3>1. Len(Content(qs)) # 0
        BY <1>1, <1>2, <2>1
      <3> QED  BY <3>1, ContentEmpty, EmptyLen, Zenon
    <2>2. CASE ~(n > 0)
      BY Zenon, <1>1, <2>2 DEF Read, Skip
    <2> QED  BY Zenon, <2>1, <2>2
  <1>5. /\ Drop(qs, n) \in Seq(Slot)
        /\ Content(Drop(qs, n)) = SubSeq(Content(qs), n + 1, Len(Content(qs)))
        /\ Neat(qs) => Nonempty(Drop(qs, n))
    BY Zenon, <1>3, <1>4, DropFacts
  <1>6. Set(b, Drop(qs, n), length[b] - n)
    BY <1>1, Zenon DEF Read, Skip
  <1>7. got' = SubSeq(Content(pieces[b]), 1, n) \/ got' = << >>
    BY Zenon DEF Read, Skip
  <1>8. PICK ps \in Seq(Slot) :
          /\ Content(ps) = SubSeq(Content(pieces[b]), n + 1, Len(Content(pieces[b])))
          /\ Set(b, ps, length[b] - n) /\ (Neat(qs) => Nonempty(ps))
    BY <1>1, <1>5, <1>6, Zenon
  <1>9. n \in 0..Len(Content(pieces[b]))
    BY <1>1, <1>3, Zenon
  <1>10. IInv' /\ (Tidy /\ Neat(ps) => Tidy') /\ Queue!Take(b)
    BY Zenon, <1>2, <1>7, <1>8, <1>9, TakeFacts
  <1>11. Tidy => Neat(qs)
    BY Zenon, <1>1 DEF Tidy
  <1> QED  BY <1>8, <1>10, <1>11, Zenon DEF Neat

(* moveToQueueHead() and clear() take all. *)
LEMMA EmptyStep ==
  ASSUME IInv, NEW b \in Name, MoveToQueueHead(b) \/ Clear(b)
  PROVE  IInv' /\ (Tidy => Tidy') /\ Queue!Take(b)
  <1>1. PICK x \in Seq(Bytes) : x = Content(pieces[b]) /\ length[b] = Len(x) /\ Len(x) \in Nat
    BY HeldFacts, Zenon
  <1>2. Set(b, << >>, 0) /\ fresh' = fresh /\ (got' = x \/ got' = << >>)
    BY Zenon, <1>1 DEF MoveToQueueHead, Clear
  <1>3. SubSeq(x, 1, Len(x)) = x /\ SubSeq(x, Len(x) + 1, Len(x)) = << >>
    BY SMTT(30), <1>1, SubSeqFull, SubSeqEmpty
  <1>4. PICK n \in 0..Len(x) : n = Len(x) /\ length[b] - n = 0
    BY <1>1
  <1>e. << >> \in Seq(Slot)
    OBVIOUS
  <1>5. PICK ps \in Seq(Slot) : ps = << >>
    BY <1>e, Zenon
  <1>6. Neat(ps)
    BY <1>5 DEF Neat, Nonempty
  <1>7. /\ n \in 0..Len(Content(pieces[b])) /\ Set(b, ps, length[b] - n)
        /\ Content(ps) = SubSeq(Content(pieces[b]), n + 1, Len(Content(pieces[b])))
        /\ got' = SubSeq(Content(pieces[b]), 1, n) \/ got' = << >>
    BY <1>1, <1>2, <1>3, <1>4, <1>5, ContentEmpty, ZenonT(60)
  <1>8. IInv' /\ (Tidy /\ Neat(ps) => Tidy') /\ Queue!Take(b)
    BY Zenon, <1>2, <1>7, TakeFacts
  <1> QED  BY Zenon, <1>6, <1>8

(* A step that changes two buffers at once. *)
SetTwo(b, ps, m, c, qs, n) ==
    /\ pieces' = [pieces EXCEPT ![b] = ps, ![c] = qs]
    /\ length' = [length EXCEPT ![b] = m, ![c] = n]

(* An operation on two buffers leaves the others alone. *)
LEMMA PairFacts ==
  ASSUME IInv, NEW b \in Name, NEW c \in Name, b # c, NEW ps \in Seq(Slot), NEW qs \in Seq(Slot),
         NEW m, NEW n, m = Len(Content(ps)), n = Len(Content(qs)), m <= fresh, n <= fresh,
         SetTwo(b, ps, m, c, qs, n), fresh' = fresh
  PROVE  /\ IInv' /\ (Tidy /\ Neat(ps) /\ Neat(qs) => Tidy')
         /\ Held' = [Held EXCEPT ![b] = Content(ps), ![c] = Content(qs)]
  <1>1. pieces \in [Name -> Seq(Slot)] /\ length \in [Name -> Nat] /\ fresh \in 0..MaxBytes
    BY Zenon DEF IInv
  <1>2. m \in Nat /\ n \in Nat
    BY Zenon, ContentType
  <1>3. pieces' \in [Name -> Seq(Slot)] /\ length' \in [Name -> Nat] /\ fresh' \in 0..MaxBytes
    BY Zenon, <1>1, <1>2 DEF SetTwo
  <1>4. /\ pieces'[b] = ps /\ length'[b] = m /\ pieces'[c] = qs /\ length'[c] = n
        /\ \A a \in Name : a # b /\ a # c => pieces'[a] = pieces[a] /\ length'[a] = length[a]
    BY Zenon, <1>1 DEF SetTwo
  <1>5. \A a \in Name : length'[a] = Len(Content(pieces'[a])) /\ length'[a] <= fresh'
    <2> TAKE a \in Name
    <2>1. CASE a = b
      BY <1>4, <2>1, Zenon
    <2>2. CASE a = c
      BY <1>4, <2>2, Zenon
    <2>3. CASE a # b /\ a # c
      <3>1. pieces'[a] = pieces[a] /\ length'[a] = length[a]
        BY Zenon, <1>4, <2>3
      <3>2. length[a] = Len(Content(pieces[a])) /\ length[a] <= fresh
        BY Zenon, HeldFacts
      <3> QED  BY <3>1, <3>2, Zenon
    <2> QED  BY Zenon, <2>1, <2>2, <2>3
  <1>6. Held' = [Held EXCEPT ![b] = Content(ps), ![c] = Content(qs)]
    <2>1. Held' = [a \in Name |-> Content(pieces'[a])]
      BY Zenon DEF Held
    <2>2. Held = [a \in Name |-> Content(pieces[a])]
      BY Zenon DEF Held
    <2>3. PICK x \in Seq(Bytes), y \in Seq(Bytes) : x = Content(ps) /\ y = Content(qs)
      BY ContentType, Zenon
    <2>4. /\ Held'[b] = x /\ Held'[c] = y
          /\ \A a \in Name : a # b /\ a # c => Held'[a] = Held[a]
      <3>1. \A a \in Name : Held'[a] = Content(pieces'[a]) /\ Held[a] = Content(pieces[a])
        BY Zenon, <2>1, <2>2
      <3>2. Held'[b] = x /\ Held'[c] = y
        BY <1>4, <2>3, <3>1, Zenon
      <3>3. ASSUME NEW a \in Name, a # b, a # c PROVE Held'[a] = Held[a]
        <4>1. pieces'[a] = pieces[a]
          BY Zenon, <1>4, <3>3
        <4> QED  BY <3>1, <4>1, Zenon
      <3> QED  BY <3>2, <3>3, Zenon
    <2>5. Held' = [a \in Name |-> Held'[a]] /\ Held = [a \in Name |-> Held[a]]
      BY Zenon, <2>1, <2>2
    <2>6. Held' = [Held EXCEPT ![b] = x, ![c] = y]
      BY Zenon, <2>4, <2>5
    <2> QED  BY <2>3, <2>6, Zenon
  <1>7. Tidy /\ Neat(ps) /\ Neat(qs) => Tidy'
    <2> SUFFICES ASSUME Tidy, Neat(ps), Neat(qs), NEW a \in Name PROVE Neat(pieces'[a])
      BY Zenon DEF Tidy, Neat, Nonempty
    <2>1. CASE a = b
      BY <1>4, <2>1, Zenon
    <2>2. CASE a = c
      BY <1>4, <2>2, Zenon
    <2>3. CASE a # b /\ a # c
      BY <1>4, <2>3, Zenon DEF Tidy
    <2> QED  BY Zenon, <2>1, <2>2, <2>3
  <1>8. IInv'
    BY Zenon, <1>3, <1>5 DEF IInv
  <1> QED  BY Zenon, <1>6, <1>7, <1>8

(* read() into a buffer moves the front of one queue to the other. *)
LEMMA ReadToBufferStep ==
  ASSUME IInv, NEW b \in Name, NEW c \in Name, b # c, NEW n \in 1..MaxBytes, ReadToBuffer(b, c, n)
  PROVE  IInv' /\ (Tidy => Tidy') /\ Queue!Move(b, c)
  <1>1. PICK qs \in Seq(Slot) : qs = pieces[b] /\ length[b] = Len(Content(qs)) /\ length[b] \in Nat
                                /\ length[b] <= fresh /\ fresh \in Nat
    BY HeldFacts, Zenon
  <1>2. length[b] >= n /\ n \in Nat /\ n > 0 /\ pieces[c] = << >> /\ fresh' = fresh /\ got' = << >>
    BY Constants DEF ReadToBuffer
  <1>3. n \in 1..Len(Content(qs)) /\ n \in 0..Len(Content(qs))
    BY <1>1, <1>2
  <1>4. qs # << >>
    <2>1. Len(Content(qs)) # 0
      BY <1>1, <1>2
    <2> QED  BY <2>1, ContentEmpty, EmptyLen, Zenon
  <1>5. PICK x \in Seq(Bytes) : x = Content(qs)
    BY Zenon, ContentType
  <1>6. PICK ps \in Seq(Slot) : /\ ps = Drop(qs, n) /\ Content(ps) = SubSeq(x, n + 1, Len(x))
                                /\ Neat(qs) => Nonempty(ps)
    <2>1. /\ Drop(qs, n) \in Seq(Slot)
          /\ Content(Drop(qs, n)) = SubSeq(Content(qs), n + 1, Len(Content(qs)))
          /\ Neat(qs) => Nonempty(Drop(qs, n))
      BY Zenon, <1>3, <1>4, DropFacts
    <2> QED  BY <1>5, <2>1, Zenon
  <1>7. PICK rs \in Seq(Slot) : /\ rs = Moved(qs, n) /\ Content(rs) = SubSeq(x, 1, n)
                                /\ Neat(qs) => Nonempty(rs)
    <2>1. /\ Moved(qs, n) \in Seq(Slot)
          /\ Content(Moved(qs, n)) = SubSeq(Content(qs), 1, n)
          /\ Neat(qs) => Nonempty(Moved(qs, n))
      BY Zenon, <1>3, <1>4, MovedFacts
    <2> QED  BY <1>5, <2>1, Zenon
  <1>8. n \in 0..Len(x) /\ Len(x) \in Nat
    BY <1>1, <1>3, <1>5, Zenon
  <1>9. /\ SubSeq(x, 1, n) \in Seq(Bytes) /\ Len(SubSeq(x, 1, n)) = n
        /\ Len(SubSeq(x, n + 1, Len(x))) = Len(x) - n
    BY SMTT(30), <1>8, CutSeq
  <1>10. length[c] = 0 /\ Held[c] = << >>
    BY <1>2, HeldFacts, ContentEmpty, EmptyLen, Zenon
  <1>11. /\ pieces' = [pieces EXCEPT ![b] = ps, ![c] = rs]
         /\ length' = [length EXCEPT ![b] = length[b] - n, ![c] = n]
    <2>1. << >> \o rs = rs /\ 0 + n = n
      BY <1>2, ConcatEmptySeq
    <2>2. /\ pieces' = [pieces EXCEPT ![b] = Drop(pieces[b], n), ![c] = pieces[c] \o Moved(pieces[b], n)]
          /\ length' = [length EXCEPT ![b] = length[b] - n, ![c] = length[c] + n]
      <3>1. pieces \in [Name -> Seq(Slot)] /\ length \in [Name -> Nat]
        BY Zenon DEF IInv
      <3> QED  BY Zenon, <3>1 DEF ReadToBuffer
    <2> QED  BY <1>1, <1>2, <1>6, <1>7, <1>10, <2>1, <2>2, ZenonT(60)
  <1>12. length[b] - n = Len(Content(ps)) /\ n = Len(Content(rs))
    BY <1>1, <1>5, <1>6, <1>7, <1>9, Zenon
  <1>13. length[b] - n <= fresh /\ n <= fresh
    BY <1>1, <1>2
  <1>14. /\ IInv' /\ (Tidy /\ Neat(ps) /\ Neat(rs) => Tidy')
         /\ Held' = [Held EXCEPT ![b] = Content(ps), ![c] = Content(rs)]
    <2>1. SetTwo(b, ps, length[b] - n, c, rs, n)
      BY Zenon, <1>11 DEF SetTwo
    <2>2. PICK m, k : /\ m = Len(Content(ps)) /\ k = Len(Content(rs)) /\ m <= fresh /\ k <= fresh
                      /\ SetTwo(b, ps, m, c, rs, k)
      BY <1>12, <1>13, <2>1, Zenon
    <2>3. fresh' = fresh
      BY Zenon, <1>2
    <2> QED  BY <2>2, <2>3, PairFacts, SMTT(30)
  <1>15. Tidy => Neat(ps) /\ Neat(rs)
    BY <1>1, <1>6, <1>7, Zenon DEF Tidy, Neat
  <1>16. Queue!Move(b, c)
    <2>1. Held[b] = x
      BY <1>1, <1>5, HeldFacts, Zenon
    <2>2. Held[c] \o SubSeq(x, 1, n) = SubSeq(x, 1, n)
      <3>1. << >> \o SubSeq(x, 1, n) = SubSeq(x, 1, n)
        BY Zenon, <1>9, ConcatEmptySeq
      <3> QED  BY <1>10, <3>1, Zenon
    <2>3. Held' = [Held EXCEPT ![b] = SubSeq(Held[b], n + 1, Len(Held[b])),
                               ![c] = Held[c] \o SubSeq(Held[b], 1, n)]
      BY <1>6, <1>7, <1>14, <2>1, <2>2, ZenonT(60)
    <2>4. n \in 1..Len(Held[b])
      BY <1>3, <1>5, <2>1, Zenon
    <2>5. Held' = [Held EXCEPT ![b] = SubSeq(@, n + 1, Len(@)), ![c] = @ \o SubSeq(Held[b], 1, n)]
      <3>1. Held = [a \in Name |-> Content(pieces[a])]
        BY Zenon DEF Held
      <3> QED  BY Zenon, <2>3, <3>1
    <2> QED  BY <1>2, <2>4, <2>5, Zenon DEF Queue!Move, Held
  <1> QED  BY Zenon, <1>14, <1>15, <1>16

(* swap() exchanges two queues. *)
LEMMA SwapStep ==
  ASSUME IInv, NEW b \in Name, NEW c \in Name, b # c, Swap(b, c)
  PROVE  IInv' /\ (Tidy => Tidy') /\ Queue!Swap(b, c)
  <1>1. PICK ps \in Seq(Slot), qs \in Seq(Slot) :
          /\ ps = pieces[c] /\ length[c] = Len(Content(ps)) /\ length[c] <= fresh /\ Held[c] = Content(ps)
          /\ qs = pieces[b] /\ length[b] = Len(Content(qs)) /\ length[b] <= fresh /\ Held[b] = Content(qs)
    BY HeldFacts, Zenon
  <1>2. /\ pieces' = [pieces EXCEPT ![b] = ps, ![c] = qs]
        /\ length' = [length EXCEPT ![b] = length[c], ![c] = length[b]]
        /\ fresh' = fresh /\ got' = << >>
    BY <1>1, Zenon DEF Swap
  <1>3. /\ IInv' /\ (Tidy /\ Neat(ps) /\ Neat(qs) => Tidy')
        /\ Held' = [Held EXCEPT ![b] = Content(ps), ![c] = Content(qs)]
    <2>1. SetTwo(b, ps, length[c], c, qs, length[b])
      BY Zenon, <1>2 DEF SetTwo
    <2> QED  BY SMTT(30), <1>1, <1>2, <2>1, PairFacts
  <1>4. Held' = [Held EXCEPT ![b] = Held[c], ![c] = Held[b]]
    BY <1>1, <1>3, Zenon
  <1>5. Queue!Swap(b, c)
    BY <1>2, <1>4, Zenon DEF Queue!Swap, Held
  <1>6. Tidy => Neat(ps) /\ Neat(qs)
    BY Zenon, <1>1 DEF Tidy
  <1> QED  BY Zenon, <1>3, <1>5, <1>6

(* Every step keeps the invariant and is one of ByteQueue's. *)
LEMMA NextStep ==
  ASSUME IInv, StaleLen = {}, Next
  PROVE  IInv' /\ (Tidy /\ 0 \notin WriteSizes => Tidy') /\ Queue!Next
  <1>1. CASE \E b \in Name : \E n \in WriteSizes : Write(b, n)
    BY Zenon, <1>1, WriteStep DEF Queue!Next
  <1>2. CASE \E b \in Name : \E n \in 1..(Capacity - 1) : ReservedPrepend(b, n)
    BY Zenon, <1>2, ReservedPrependStep DEF Queue!Next
  <1>3. CASE \E b \in Name : \E n \in 1..(Capacity - 1) : Prepend(b, n)
    BY Zenon, <1>3, PrependStep DEF Queue!Next
  <1>4. CASE \E b \in Name : \E n \in 0..MaxBytes : Read(b, n) \/ Skip(b, n)
    BY Zenon, <1>4, DropStep DEF Queue!Next
  <1>5. CASE \E b \in Name : MoveToQueueHead(b) \/ Clear(b)
    BY Zenon, <1>5, EmptyStep DEF Queue!Next
  <1>6. CASE \E n \in 1..Capacity : WritePiece(n)
    BY Zenon, <1>6, WritePieceStep DEF Queue!Next
  <1>7. CASE \E b, c \in Name : b # c /\ Swap(b, c)
    BY Zenon, <1>7, SwapStep DEF Queue!Next
  <1>8. CASE \E b, c \in Name : b # c /\ \E n \in 1..MaxBytes : ReadToBuffer(b, c, n)
    BY Zenon, <1>8, ReadToBufferStep DEF Queue!Next
  <1> QED  BY <1>1, <1>2, <1>3, <1>4, <1>5, <1>6, <1>7, <1>8, ZenonT(60) DEF Next

(* A stuttering step of Buffer is one of ByteQueue. *)
LEMMA StutterStep ==
  ASSUME UNCHANGED vars
  PROVE  (IInv => IInv') /\ (Tidy => Tidy') /\ UNCHANGED Queue!vars
  BY Zenon DEF vars, IInv, Tidy, Neat, Nonempty, Content, Queue!vars

(* The buffers begin empty. *)
LEMMA InitFacts ==
  ASSUME Init
  PROVE  IInv /\ Tidy /\ Queue!Init
  <1>1. /\ pieces = [b \in Name |-> << >>] /\ length = [b \in Name |-> 0] /\ fresh = 0 /\ got = << >>
    BY Zenon DEF Init
  <1>2. << >> \in Seq(Slot) /\ 0 \in 0..MaxBytes /\ 0 \in Nat /\ 0 <= 0
    BY Constants
  <1>3. \A b \in Name : pieces[b] = << >> /\ length[b] = 0
    BY Zenon, <1>1
  <1>4. \A b \in Name : length[b] = Len(Content(pieces[b])) /\ length[b] <= fresh
    BY <1>1, <1>2, <1>3, ContentEmpty, EmptyLen, Zenon
  <1>5. IInv
    BY Zenon, <1>1, <1>2, <1>4 DEF IInv
  <1>6. Tidy
    BY <1>3 DEF Tidy, Neat, Nonempty
  <1>7. [b \in Name |-> Content(pieces[b])] = [b \in Name |-> << >>]
    BY <1>3, ContentEmpty, Zenon
  <1> QED  BY <1>1, <1>5, <1>6, <1>7, Zenon DEF Queue!Init

(* The inductive invariant holds if the length of a piece just given back  *)
(* is never read stale.                                                    *)
LEMMA SpecIInv == StaleLen = {} => (Spec => []IInv)
<1> SUFFICES ASSUME StaleLen = {} PROVE Spec => []IInv
  BY Zenon
<1>1. Init => IInv
  BY Zenon, InitFacts
<1>2. IInv /\ [Next]_vars => IInv'
  BY Zenon, NextStep, StutterStep
<1>3. QED
  BY <1>1, <1>2, PTL DEF Spec

(* The types hold of write(), prepend(), read(), skip(), swap() and        *)
(* writePiece() in any order: no piece is written beyond its data[].       *)
THEOREM BufferTypeOK == StaleLen = {} => (Spec => []TypeOK)
<1> SUFFICES ASSUME StaleLen = {} PROVE Spec => []TypeOK
  BY Zenon
<1>1. IInv => TypeOK
  <2> SUFFICES ASSUME IInv PROVE TypeOK
    BY Zenon
  <2>1. \A b \in Name : \A i \in 1..Len(pieces[b]) :
          /\ pieces[b][i].off \in 0..Capacity /\ Range(pieces[b][i].data) \subseteq 1..MaxBytes
          /\ pieces[b][i].off + Len(pieces[b][i].data) <= Capacity
    <3> TAKE b \in Name
    <3> TAKE i \in 1..Len(pieces[b])
    <3>1. PICK p \in Slot : p = pieces[b][i]
      BY HeldFacts
    <3>2. PICK x \in Seq(Bytes), o \in Nat : x = p.data /\ o = p.off /\ o + Len(x) <= Capacity /\ Len(x) \in Nat
      BY SlotFacts, Zenon
    <3>3. o \in 0..Capacity
      BY <3>2, Constants
    <3>4. Range(x) \subseteq 1..MaxBytes
      <4>1. \A k \in DOMAIN x : x[k] \in Bytes
        OBVIOUS
      <4> QED  BY <4>1, Zenon DEF Range, Bytes
    <3> QED  BY <3>1, <3>2, <3>3, <3>4, Zenon
  <2>2. length \in [Name -> 0..MaxBytes] /\ fresh \in 0..MaxBytes
    <3>1. length \in [Name -> Nat] /\ fresh \in 0..MaxBytes
      BY Zenon DEF IInv
    <3>2. \A b \in Name : length[b] \in 0..MaxBytes
      BY SMTT(30), <3>1, HeldFacts, Constants
    <3> QED  BY Zenon, <3>1, <3>2
  <2> QED  BY ZenonT(30), <2>1, <2>2 DEF TypeOK
<1>2. QED
  BY <1>1, SpecIInv, PTL

(* length() is the number of bytes in the pieces after any sequence of     *)
(* calls, for every capacity and every size of the data.                   *)
THEOREM LengthIsExact == StaleLen = {} => (Spec => []LengthExact)
<1> SUFFICES ASSUME StaleLen = {} PROVE Spec => []LengthExact
  BY Zenon
<1>1. IInv => LengthExact
  BY Zenon DEF IInv, LengthExact
<1>2. QED
  BY <1>1, SpecIInv, PTL

(* A chain with bytes in it has no empty piece, so writePieceQueue()'s     *)
(* assertion item->len > 0 holds of what send() takes, if write() is       *)
(* never called with no bytes.                                             *)
THEOREM ChainHasNoEmptyPiece ==
  StaleLen = {} /\ 0 \notin WriteSizes => (Spec => []ChainNonEmpty)
<1> SUFFICES ASSUME StaleLen = {}, 0 \notin WriteSizes PROVE Spec => []ChainNonEmpty
  BY Zenon
<1>1. Init => Tidy
  BY Zenon, InitFacts
<1>2. IInv /\ Tidy /\ [Next]_vars => Tidy'
  BY Zenon, NextStep, StutterStep
<1>3. IInv /\ Tidy => ChainNonEmpty
  <2> SUFFICES ASSUME IInv, Tidy, NEW b \in Name, length[b] > 0 PROVE Nonempty(pieces[b])
    BY Zenon DEF ChainNonEmpty, Nonempty
  <2>1. PICK ps \in Seq(Slot) : ps = pieces[b] /\ length[b] = Len(Content(ps)) /\ Neat(ps)
    BY HeldFacts, Zenon DEF Tidy
  <2>2. ASSUME Len(ps) = 1, ps[1].data = << >> PROVE FALSE
    <3>1. ps = <<ps[1]>> /\ ps[1] \in Slot
      BY <2>2
    <3>2. Content(ps) = << >>
      BY <2>2, <3>1, ContentOne, Zenon
    <3>3. length[b] = 0
      BY <2>1, <3>2, EmptyLen, Zenon
    <3> QED  BY <3>3
  <2> QED  BY Zenon, <2>1, <2>2 DEF Neat
<1>4. QED
  BY <1>1, <1>2, <1>3, SpecIInv, PTL DEF Spec

(* The pieces implement a queue of bytes: each operation of Buffer is one  *)
(* of ByteQueue's on the concatenated content, whatever the capacity.      *)
THEOREM PiecesImplementByteQueue == StaleLen = {} => (Spec => ImplementsByteQueue)
<1> SUFFICES ASSUME StaleLen = {} PROVE Spec => ImplementsByteQueue
  BY Zenon
<1>1. Init => Queue!Init
  BY Zenon, InitFacts
<1>2. IInv /\ [Next]_vars => [Queue!Next]_(Queue!vars)
  BY Zenon, NextStep, StutterStep
<1>3. QED
  BY <1>1, <1>2, SpecIInv, PTL DEF Spec, ImplementsByteQueue, Queue!Spec
=============================================================================
